---------------------------- MODULE CommandLine ----------------------------
(***************************************************************************)
(* One invocation of integrity-verify: the walk over its arguments, which     *)
(* verify and verify-export do alike, the file, the report, and the sections  *)
(* written to a standard output that may fail at any of them.                *)
(***************************************************************************)
EXTENDS PrimitiveCalls

CONSTANTS
    CommandLines,   \* invocations: a command and the arguments after it
    Flags           \* arguments that begin with "--", and "-h"

\* What is read is there, and None is nothing that is.
ASSUME CommandLinesAssumption ==
    /\ None \notin CommandLines /\ None \notin BOOLEAN /\ None \notin Nat
    /\ "--format" \in Flags
    /\ \A line \in CommandLines :
          LET said == {line.arguments[i] : i \in DOMAIN line.arguments}
          IN  line.arguments \in Seq(said) /\ None \notin said

FormatNames == {"text", "json", "both"}

VARIABLES
    invocation,       \* the command and its arguments, once run
    reached,          \* index of the argument to be read
    bundlePath,       \* None until it is read
    outputFormat,     \* the format so far
    reportVerified,   \* what the report of the bundle says, once there is one
    written,          \* sections on standard output
    exitCode          \* None while the command runs

commandVars == <<invocation, reached, bundlePath, outputFormat, reportVerified, written, exitCode>>

CommandInit ==
    /\ invocation = None /\ reached = 1 /\ bundlePath = None /\ outputFormat = "both"
    /\ reportVerified = None /\ written = <<>> /\ exitCode = None

Verifying == invocation # None /\ exitCode = None

\* What the dispatcher answers itself: the usage, to an error output nobody looks at,
\* or the refusal of a command it does not know.
RunCommand ==
    /\ invocation = None
    /\ invocation' \in CommandLines
    /\ exitCode' = CASE invocation'.command = "help" -> 0
                 [] invocation'.command \in {"verify", "verify-export"} -> None
                 [] OTHER -> 1
    /\ UNCHANGED <<calls, reached, bundlePath, outputFormat, reportVerified, written>>

Reading(argument) ==
    Verifying /\ reportVerified = None /\ reached <= Len(invocation.arguments) /\ invocation.arguments[reached] = argument

ReadFormat ==
    /\ Reading("--format")
    /\ IF reached < Len(invocation.arguments) /\ invocation.arguments[reached + 1] \in FormatNames
       THEN /\ outputFormat' = invocation.arguments[reached + 1]
            /\ reached' = reached + 2
            /\ UNCHANGED exitCode
       ELSE exitCode' = 1 /\ UNCHANGED <<reached, outputFormat>>
    /\ UNCHANGED <<calls, invocation, bundlePath, reportVerified, written>>

\* A request for help is an error here.
RefuseFlag ==
    /\ \E flag \in Flags \ {"--format"} : Reading(flag)
    /\ exitCode' = 1
    /\ UNCHANGED <<calls, invocation, reached, bundlePath, outputFormat, reportVerified, written>>

ReadPath ==
    /\ Verifying /\ reached <= Len(invocation.arguments)
    /\ \E argument \in {invocation.arguments[reached]} \ Flags :
          /\ Reading(argument)
          /\ IF bundlePath = None
             THEN bundlePath' = argument /\ reached' = reached + 1 /\ UNCHANGED exitCode
             ELSE exitCode' = 1 /\ UNCHANGED <<bundlePath, reached>>
    /\ UNCHANGED <<calls, invocation, outputFormat, reportVerified, written>>

\* External: the file is there or not, and its report verified or not.  An archive that
\* does not parse ends verify before it has a report; verify-export reports it.
ReadBundle(readable, verdict) ==
    /\ Verifying /\ reportVerified = None /\ reached > Len(invocation.arguments)
    /\ IF bundlePath = None \/ ~readable
       THEN exitCode' = 1 /\ UNCHANGED reportVerified
       ELSE reportVerified' = verdict /\ UNCHANGED exitCode
    /\ UNCHANGED <<calls, invocation, reached, bundlePath, outputFormat, written>>

Sections(name) ==
    CASE name = "text" -> <<"text">>
      [] name = "json" -> <<"json", "newline">>
      [] name = "both" -> <<"text", "newline", "json", "newline">>

Writing == Verifying /\ reportVerified # None /\ Len(written) < Len(Sections(outputFormat))

\* write_all may have written some of it when it fails: that is none of a section here.
WriteSection ==
    /\ Writing
    /\ written' = Append(written, Sections(outputFormat)[Len(written) + 1])
    /\ UNCHANGED <<calls, invocation, reached, bundlePath, outputFormat, reportVerified, exitCode>>

\* A slip: what could not be written is passed over, as on the error output.
WriteFailureIgnored ==
    /\ Writing
    /\ exitCode' = IF reportVerified THEN 0 ELSE 1
    /\ UNCHANGED <<calls, invocation, reached, bundlePath, outputFormat, reportVerified, written>>

WriteFailure ==
    /\ Writing
    /\ exitCode' = 1
    /\ UNCHANGED <<calls, invocation, reached, bundlePath, outputFormat, reportVerified, written>>

ReturnVerdict ==
    /\ Verifying /\ reportVerified # None /\ Len(written) = Len(Sections(outputFormat))
    /\ exitCode' = IF reportVerified THEN 0 ELSE 1
    /\ UNCHANGED <<calls, invocation, reached, bundlePath, outputFormat, reportVerified, written>>

CommandStep ==
    \/ RunCommand \/ ReadFormat \/ RefuseFlag \/ ReadPath
    \/ \E readable, verdict \in BOOLEAN : ReadBundle(readable, verdict)
    \/ WriteSection \/ WriteFailure \/ ReturnVerdict

CommandSpec == calls = 0 /\ CommandInit /\ [][CommandStep]_<<calls, commandVars>>

-----------------------------------------------------------------------------
(* Properties. *)

(* What an invocation says, read without an order.                           *)

\* The places whose argument is the value of the --format before it.
FormatValues(arguments) == {i \in DOMAIN arguments : i > 1 /\ arguments[i - 1] = "--format"}

FreeArguments(arguments) ==
    {i \in DOMAIN arguments : arguments[i] # "--format"} \ FormatValues(arguments)

WellFormed(arguments) ==
    /\ \E i \in DOMAIN arguments : FreeArguments(arguments) = {i}
    /\ \A i \in FreeArguments(arguments) : arguments[i] \notin Flags
    /\ \A i \in FormatValues(arguments) : arguments[i] \in FormatNames
    /\ arguments # <<>> => arguments[Len(arguments)] # "--format"

MeantFormat(arguments) ==
    IF FormatValues(arguments) = {} THEN "both"
    ELSE arguments[CHOOSE i \in FormatValues(arguments) : \A j \in FormatValues(arguments) : j <= i]

\* The command succeeds exactly when it was asked for help, or was told one bundle,
\* found that its report verified, and wrote all of it in the format that was named
\* last; it writes nothing but a part of that, and nothing of arguments that do not say
\* one bundle (run, verify_command, verify_export_command).
ExitZeroIsTheWholeReport ==
    LET arguments == invocation.arguments
    IN  /\ written # <<>> => /\ WellFormed(arguments)
                             /\ written = SubSeq(Sections(MeantFormat(arguments)), 1, Len(written))
        /\ exitCode # None =>
              (exitCode = 0 <=>
                  \/ invocation.command = "help"
                  \/ /\ reportVerified = TRUE /\ WellFormed(arguments)
                     /\ written = Sections(MeantFormat(arguments)))
=============================================================================
