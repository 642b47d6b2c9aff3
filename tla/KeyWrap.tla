------------------------------ MODULE KeyWrap ------------------------------
(***************************************************************************)
(* wrap_dek (integrity-hpke) and the SecureRandom it draws from               *)
(* (integrity-seam).  Callers run concurrently and share one source, which    *)
(* may fail at any draw and recover.  The hpke crate takes a generator that   *)
(* cannot fail, so SecureRandomRng hands it zeros, remembers the failure, and *)
(* wrap_dek looks at it when the crate is done.                              *)
(***************************************************************************)
EXTENDS PrimitiveCalls

CONSTANTS
    Wrappers,     \* callers of wrap_dek
    Recipients,   \* X25519 public keys a key may be wrapped for
    LowOrder,     \* those the crate refuses to encapsulate to
    MaxDraws      \* draws the crate may take from the generator in one call

ASSUME KeyWrapAssumption ==
    /\ LowOrder \subseteq Recipients
    /\ MaxDraws \in Nat \ {0}
    /\ None \notin {"ok", "random", "crate"}

VARIABLES
    given,      \* number of values the source has given; the next is new
    wrapping,   \* caller -> its call, the one in progress or the last
    wraps       \* the wraps callers were given, with the draws behind them

wrapVars == <<given, wrapping, wraps>>

\* What the generator hands out once it has failed.
Zeros == 0

\* asked holds the source's answers, drawn what the crate was handed.
Call ==
    [recipient : Recipients, number : Nat, latched : BOOLEAN, drawn : Seq(Nat),
     asked : Seq(BOOLEAN), outcome : {None, "ok", "random", "crate"}]

Running(w) == wrapping[w] # None /\ wrapping[w].outcome = None

WrapInit ==
    /\ given = 0
    /\ wrapping = [w \in Wrappers |-> None]
    /\ wraps = {}

\* A slip: the generator outlives the call, and with it the failure of an earlier one.
LatchKept(w) == wrapping[w] # None /\ wrapping[w].latched

\* SecureRandomRng::new: each call has a generator of its own.
Latch(w) == FALSE

WrapDek(w, recipient) ==
    /\ ~Running(w)
    /\ StartCall
    /\ wrapping' = [wrapping EXCEPT ![w] =
          [recipient |-> recipient, number |-> calls, latched |-> Latch(w), drawn |-> <<>>,
           asked |-> <<>>, outcome |-> None]]
    /\ UNCHANGED <<given, wraps>>

Drawing(w) == Running(w) /\ Len(wrapping[w].drawn) < MaxDraws

\* RngCore::fill_bytes, the source being asked.
FillBytes(w, succeeded) ==
    /\ Drawing(w) /\ ~wrapping[w].latched
    /\ given' = IF succeeded THEN given + 1 ELSE given
    /\ wrapping' = [wrapping EXCEPT
          ![w].drawn = Append(@, IF succeeded THEN given + 1 ELSE Zeros),
          ![w].asked = Append(@, succeeded),
          ![w].latched = ~succeeded]
    /\ UNCHANGED <<calls, wraps>>

\* After a failure the source is not asked again.
FillZeros(w) ==
    /\ Drawing(w) /\ wrapping[w].latched
    /\ wrapping' = [wrapping EXCEPT ![w].drawn = Append(@, Zeros)]
    /\ UNCHANGED <<calls, given, wraps>>

\* A slip: take_error is never called.
OutcomeUnchecked(call) ==
    IF call.recipient \in LowOrder THEN "crate" ELSE "ok"

\* A slip: the crate's error is not looked at.
OutcomeOfSource(call) == IF call.latched THEN "random" ELSE "ok"

\* The crate's error is passed on by `?` before the generator's is looked at.
OutcomeOf(call) ==
    IF call.recipient \in LowOrder THEN "crate"
    ELSE IF call.latched THEN "random" ELSE "ok"

\* single_shot_seal_in_place_detached is done with its draws.
SealDone(w) ==
    /\ Running(w) /\ wrapping[w].drawn # <<>>
    /\ wrapping' = [wrapping EXCEPT ![w].outcome = OutcomeOf(wrapping[w])]
    /\ wraps' = IF OutcomeOf(wrapping[w]) # "ok" THEN wraps
                ELSE wraps \cup {[number |-> wrapping[w].number,
                                  recipient |-> wrapping[w].recipient,
                                  drawn |-> wrapping[w].drawn]}
    /\ UNCHANGED <<calls, given>>

WrapProceeds(w) ==
    (\E succeeded \in BOOLEAN : FillBytes(w, succeeded)) \/ FillZeros(w) \/ SealDone(w)

WrapStep(w) == (\E recipient \in Recipients : WrapDek(w, recipient)) \/ WrapProceeds(w)

WrapNext == \E w \in Wrappers : WrapStep(w)

\* The callers of wrap_dek by themselves; Primitives.tla has them among others.
WrapSpec == calls = 0 /\ WrapInit /\ [][WrapNext]_<<calls, wrapVars>>

-----------------------------------------------------------------------------
(* Properties. *)

WrapTypes ==
    /\ calls \in 0..MaxCalls /\ given \in Nat
    /\ \A w \in Wrappers : wrapping[w] # None => wrapping[w] \in Call
    /\ \A wrap \in wraps : wrap.recipient \in Recipients \ LowOrder

Values(sequence) == {sequence[i] : i \in DOMAIN sequence}

\* A wrap that is returned rests on nothing but bytes the source gave, and no two
\* wraps share any of them, whoever asked, in whatever interleaving, and however often
\* the source failed and the caller tried again.  The ephemeral scalar follows from
\* these bytes: a shared one would encrypt two keys under one key and nonce; and one is
\* combined with no public key that makes the secret known whatever the scalar is.
WrapsAreFresh ==
    /\ \A wrap \in wraps : wrap.recipient \notin LowOrder
    /\ \A wrap \in wraps : wrap.drawn # <<>> /\ Values(wrap.drawn) \subseteq 1..given
    /\ \A wrap \in wraps : \A i, j \in DOMAIN wrap.drawn :
          wrap.drawn[i] = wrap.drawn[j] => i = j
    /\ \A a, b \in wraps :
          a.number # b.number => Values(a.drawn) \cap Values(b.drawn) = {}

\* A call is refused for want of randomness only if the source failed during this
\* call: a failure another call met, or an earlier one of the same caller, does not
\* refuse it.
FailuresAreOwn ==
    \A w \in Wrappers : wrapping[w] # None /\ wrapping[w].outcome = "random" =>
        \E i \in DOMAIN wrapping[w].asked : ~wrapping[w].asked[i]
=============================================================================
