-------------------------- MODULE PrimitiveProofs --------------------------
(***************************************************************************)
(* Theorems about the callers that wrap keys, the tasks that seal, the         *)
(* co-signers of a response, the envelopes, the proofs about a log, the command   *)
(* line and the archives, for every number of them, of keys, of draws, of calls,  *)
(* of alterations, of leaves, of arguments, of entries and of edits.              *)
(***************************************************************************)
EXTENDS KeyWrap, Sealing, CoSigning, CoseCodec, MerkleQuestions, CommandLine, ZipBundle,
        MerkleProofs, TLAPS

-----------------------------------------------------------------------------
(* Key wraps. *)

\* A generator that met no failure has handed out values of the source, all different.
CallSound(call, started, limit) ==
    /\ call \in Call /\ call.number < started
    /\ Values(call.drawn) \subseteq 0..limit
    /\ ~call.latched =>
          /\ Values(call.drawn) \subseteq 1..limit
          /\ \A i, j \in DOMAIN call.drawn : call.drawn[i] = call.drawn[j] => i = j
    /\ call.latched => \E i \in DOMAIN call.asked : ~call.asked[i]
    /\ call.outcome = "random" => call.latched

\* What a caller was given, as WrapsAreFresh wants it.
WrapSound(wrap, started, limit) ==
    /\ wrap.number \in Nat /\ wrap.number < started
    /\ wrap.recipient \in Recipients \ LowOrder
    /\ wrap.drawn # <<>> /\ Values(wrap.drawn) \subseteq 1..limit
    /\ \A i, j \in DOMAIN wrap.drawn : wrap.drawn[i] = wrap.drawn[j] => i = j

\* Of two calls, or a call and a wrap: each has its number, and they share no value of
\* the source.
Apart(a, b) ==
    a.number # b.number /\ Values(a.drawn) \cap Values(b.drawn) \subseteq {Zeros}

\* The strengthening: calls in progress are apart from each other and from the wraps
\* that were returned.
WrapInv ==
    /\ calls \in 0..MaxCalls /\ given \in Nat
    /\ DOMAIN wrapping = Wrappers
    /\ \A w \in Wrappers : wrapping[w] # None => CallSound(wrapping[w], calls, given)
    /\ \A v, w \in Wrappers : v # w /\ Running(v) /\ Running(w) =>
          Apart(wrapping[v], wrapping[w])
    /\ \A wrap \in wraps : WrapSound(wrap, calls, given)
    /\ \A wrap \in wraps : \A w \in Wrappers : Running(w) => Apart(wrap, wrapping[w])
    /\ \A a, b \in wraps :
          a.number # b.number => Values(a.drawn) \cap Values(b.drawn) = {}

\* One more value of the source, or zeros, at the end of what was drawn.
LEMMA AppendedValues ==
    ASSUME NEW sequence \in Seq(Nat), NEW value \in Nat
    PROVE  /\ Append(sequence, value) \in Seq(Nat)
           /\ Values(Append(sequence, value)) = Values(sequence) \cup {value}
           /\ DOMAIN Append(sequence, value) = 1..(Len(sequence) + 1)
           /\ \A i \in DOMAIN sequence : Append(sequence, value)[i] = sequence[i]
           /\ Append(sequence, value)[Len(sequence) + 1] = value
           /\ DOMAIN sequence = 1..Len(sequence) /\ Len(sequence) \in Nat
<1>1. /\ Append(sequence, value) \in Seq(Nat)
      /\ DOMAIN Append(sequence, value) = 1..(Len(sequence) + 1)
      /\ \A i \in DOMAIN sequence : Append(sequence, value)[i] = sequence[i]
      /\ Append(sequence, value)[Len(sequence) + 1] = value
      /\ DOMAIN sequence = 1..Len(sequence) /\ Len(sequence) \in Nat
  OBVIOUS
<1>2. Values(Append(sequence, value)) = Values(sequence) \cup {value}
  BY <1>1 DEF Values
<1> QED
  BY <1>1, <1>2

\* What is sound stays so while calls are started and values given.
LEMMA SoundnessStays ==
    ASSUME NEW m \in Nat, NEW n \in Nat, m <= n, NEW f \in Nat, NEW g \in Nat, f <= g,
           NEW x
    PROVE  /\ CallSound(x, m, f) => CallSound(x, n, g)
           /\ WrapSound(x, m, f) => WrapSound(x, n, g)
<1>1. 0..f \subseteq 0..g /\ 1..f \subseteq 1..g
  OBVIOUS
<1>2. ASSUME CallSound(x, m, f)
      PROVE  CallSound(x, n, g)
  <2>1. x.number < n
    BY <1>2 DEF CallSound, Call
  <2> QED
    BY <1>1, <1>2, <2>1 DEF CallSound
<1>3. ASSUME WrapSound(x, m, f)
      PROVE  WrapSound(x, n, g)
  <2>1. x.number < n
    BY <1>3 DEF WrapSound
  <2> QED
    BY <1>1, <1>3, <2>1 DEF WrapSound
<1> QED
  BY <1>2, <1>3

\* A step of one caller that returns no wrap need only account for its own call.
LEMMA OneCallerMoves ==
    ASSUME WrapInv, NEW w \in Wrappers, NEW call,
           wrapping' = [wrapping EXCEPT ![w] = call], wraps' = wraps,
           calls' \in 0..MaxCalls, calls <= calls', given' \in Nat, given <= given',
           CallSound(call, calls', given'),
           call.outcome = None =>
              /\ \A v \in Wrappers : v # w /\ Running(v) =>
                    Apart(wrapping[v], call) /\ Apart(call, wrapping[v])
              /\ \A wrap \in wraps : Apart(wrap, call)
    PROVE  WrapInv'
<1>1. DOMAIN wrapping' = Wrappers /\ wrapping'[w] = call
      /\ \A v \in Wrappers : v # w => wrapping'[v] = wrapping[v]
  BY DEF WrapInv
<1>2. calls \in Nat /\ calls' \in Nat /\ given \in Nat
  BY CallsAssumption DEF WrapInv
<1>3. \A v \in Wrappers : wrapping'[v] # None => CallSound(wrapping'[v], calls', given')
  BY <1>1, <1>2, SoundnessStays DEF WrapInv
<1>4. \A v \in Wrappers : Running(v)' => (v = w /\ call.outcome = None) \/ (v # w /\ Running(v))
  BY <1>1 DEF Running
<1>5. \A v, u \in Wrappers : v # u /\ Running(v)' /\ Running(u)' =>
         Apart(wrapping'[v], wrapping'[u])
  BY <1>1, <1>4 DEF WrapInv
<1>6. \A wrap \in wraps : WrapSound(wrap, calls', given')
  BY <1>2, SoundnessStays DEF WrapInv
<1>7. \A wrap \in wraps : \A v \in Wrappers : Running(v)' => Apart(wrap, wrapping'[v])
  BY <1>1, <1>4 DEF WrapInv
<1> QED
  BY <1>1, <1>3, <1>5, <1>6, <1>7 DEF WrapInv, Apart

\* A call begins with a number of its own and nothing drawn.
LEMMA WrapDekKeepsInv ==
    ASSUME WrapInv, NEW w \in Wrappers, NEW recipient \in Recipients, WrapDek(w, recipient)
    PROVE  WrapInv'
<1> DEFINE begun == [recipient |-> recipient, number |-> calls, latched |-> FALSE,
                     drawn |-> <<>>, asked |-> <<>>, outcome |-> None]
<1>1. /\ calls < MaxCalls /\ calls' = calls + 1 /\ given' = given /\ wraps' = wraps
      /\ wrapping' = [wrapping EXCEPT ![w] = begun]
  BY DEF WrapDek, StartCall, Latch
<1>2. calls \in Nat /\ calls' \in 0..MaxCalls /\ given \in Nat
  BY <1>1, CallsAssumption DEF WrapInv
<1>3. DOMAIN <<>> = {} /\ Values(<<>>) = {} /\ <<>> \in Seq(Nat) /\ <<>> \in Seq(BOOLEAN)
  BY DEF Values
<1>4. CallSound(begun, calls', given')
  <2>1. begun \in Call
    BY <1>2, <1>3 DEF Call
  <2> QED
    BY <1>1, <1>2, <1>3, <2>1, KeyWrapAssumption DEF CallSound
<1>5. \A v \in Wrappers : Running(v) => Apart(wrapping[v], begun) /\ Apart(begun, wrapping[v])
  <2> SUFFICES ASSUME NEW v \in Wrappers, Running(v)
               PROVE  Apart(wrapping[v], begun) /\ Apart(begun, wrapping[v])
    OBVIOUS
  <2>1. CallSound(wrapping[v], calls, given)
    BY DEF Running, WrapInv
  <2>2. wrapping[v].number # calls
    BY <1>2, <2>1 DEF CallSound, Call
  <2> QED
    BY <1>3, <2>2 DEF Apart
<1>6. \A wrap \in wraps : Apart(wrap, begun)
  <2>1. \A wrap \in wraps : wrap.number # calls
    BY <1>2 DEF WrapInv, WrapSound
  <2> QED
    BY <1>3, <2>1 DEF Apart
<1>7. calls' \in 0..MaxCalls /\ calls <= calls' /\ given' \in Nat /\ given <= given'
  BY <1>1, <1>2
<1> HIDE DEF begun
<1> QED
  BY <1>1, <1>4, <1>5, <1>6, <1>7, OneCallerMoves

\* A generator hands out one more value; the source gave it now, or it is zeros.
LEMMA DrawKeepsInv ==
    ASSUME WrapInv, NEW w \in Wrappers, Drawing(w), NEW succeeded \in BOOLEAN,
           FillBytes(w, succeeded) \/ (FillZeros(w) /\ ~succeeded)
    PROVE  WrapInv'
<1> DEFINE old == wrapping[w]
           value == IF succeeded THEN given + 1 ELSE Zeros
           call == wrapping'[w]
<1>1. /\ calls \in Nat /\ given \in Nat /\ DOMAIN wrapping = Wrappers
      /\ old # None /\ old.outcome = None /\ CallSound(old, calls, given)
  BY CallsAssumption DEF WrapInv, Drawing, Running
<1>2. /\ old.drawn \in Seq(Nat) /\ old.asked \in Seq(BOOLEAN) /\ old.number \in Nat
      /\ old \in Call
  BY <1>1 DEF CallSound, Call
<1>3. /\ calls' = calls /\ wraps' = wraps
      /\ given' = IF succeeded THEN given + 1 ELSE given
      /\ wrapping' = [wrapping EXCEPT ![w] = call]
      /\ call \in Call /\ call.number = old.number /\ call.outcome = None
      /\ call.drawn = Append(old.drawn, value)
      /\ call.latched = ~succeeded
      /\ succeeded => ~old.latched
      /\ ~succeeded => \E i \in DOMAIN call.asked : ~call.asked[i]
  <2>1. CASE FillBytes(w, succeeded)
    <3>1. /\ ~old.latched /\ calls' = calls /\ wraps' = wraps
          /\ given' = IF succeeded THEN given + 1 ELSE given
          /\ wrapping' = [wrapping EXCEPT ![w] =
                [old EXCEPT !.drawn = Append(old.drawn, value),
                            !.asked = Append(old.asked, succeeded),
                            !.latched = ~succeeded]]
      BY <2>1 DEF FillBytes
    <3>2. /\ Append(old.drawn, value) \in Seq(Nat)
          /\ Append(old.asked, succeeded) \in Seq(BOOLEAN)
          /\ Append(old.asked, succeeded)[Len(old.asked) + 1] = succeeded
          /\ Len(old.asked) + 1 \in DOMAIN Append(old.asked, succeeded)
      BY <1>1, <1>2 DEF Zeros
    <3>3. call = [old EXCEPT !.drawn = Append(old.drawn, value),
                             !.asked = Append(old.asked, succeeded),
                             !.latched = ~succeeded]
      BY <1>1, <3>1
    <3>4. call \in Call /\ call.number = old.number /\ call.outcome = None
          /\ call.drawn = Append(old.drawn, value) /\ call.latched = ~succeeded
          /\ call.asked = Append(old.asked, succeeded)
      BY <1>1, <1>2, <3>2, <3>3 DEF Call
    <3> QED
      BY <3>1, <3>2, <3>3, <3>4
  <2>2. CASE FillZeros(w) /\ ~succeeded
    <3>1. /\ old.latched /\ calls' = calls /\ wraps' = wraps /\ given' = given
          /\ wrapping' = [wrapping EXCEPT ![w] =
                [old EXCEPT !.drawn = Append(old.drawn, value)]]
      BY <2>2 DEF FillZeros
    <3>2. Append(old.drawn, value) \in Seq(Nat)
      BY <1>1, <1>2 DEF Zeros
    <3>3. call = [old EXCEPT !.drawn = Append(old.drawn, value)]
      BY <1>1, <3>1
    <3>4. call \in Call /\ call.number = old.number /\ call.outcome = None
          /\ call.drawn = Append(old.drawn, value) /\ call.latched = old.latched
          /\ call.asked = old.asked
      BY <1>1, <1>2, <3>2, <3>3 DEF Call
    <3> QED
      BY <1>1, <2>2, <3>1, <3>3, <3>4 DEF CallSound
  <2> QED
    BY <2>1, <2>2
<1>4. given' \in Nat /\ given <= given' /\ value \in Nat
  BY <1>1, <1>3 DEF Zeros
<1>5. /\ Values(call.drawn) = Values(old.drawn) \cup {value}
      /\ DOMAIN call.drawn = 1..(Len(old.drawn) + 1)
      /\ \A i \in DOMAIN old.drawn : call.drawn[i] = old.drawn[i]
      /\ call.drawn[Len(old.drawn) + 1] = value
      /\ DOMAIN old.drawn = 1..Len(old.drawn) /\ Len(old.drawn) \in Nat
  <2> HIDE DEF old, call, value
  <2> DEFINE after == Append(old.drawn, value)
  <2>1. /\ Values(after) = Values(old.drawn) \cup {value}
        /\ DOMAIN after = 1..(Len(old.drawn) + 1)
        /\ \A i \in DOMAIN old.drawn : after[i] = old.drawn[i]
        /\ after[Len(old.drawn) + 1] = value
        /\ DOMAIN old.drawn = 1..Len(old.drawn) /\ Len(old.drawn) \in Nat
    BY <1>2, <1>4, AppendedValues
  <2>2. call.drawn = after
    BY <1>3
  <2> HIDE DEF after
  <2> QED
    BY <2>1, <2>2
<1>6. CallSound(call, calls', given')
  <2>1. Values(old.drawn) \subseteq 0..given
    BY <1>1 DEF CallSound
  <2>2. Values(call.drawn) \subseteq 0..given'
    BY <1>1, <1>3, <1>5, <2>1 DEF Zeros
  <2>3. ASSUME succeeded
        PROVE  /\ Values(call.drawn) \subseteq 1..given'
               /\ \A i, j \in DOMAIN call.drawn : call.drawn[i] = call.drawn[j] => i = j
    <3>1. /\ Values(old.drawn) \subseteq 1..given
          /\ \A i, j \in DOMAIN old.drawn : old.drawn[i] = old.drawn[j] => i = j
      BY <1>1, <1>3, <2>3 DEF CallSound
    <3>2. given \in Nat /\ given' = given + 1 /\ value = given + 1
      BY <1>1, <1>3, <2>3
    <3>4. \A i \in DOMAIN old.drawn : old.drawn[i] \in 1..given
      BY <3>1 DEF Values
    <3> HIDE DEF old, call, value
    <3>6. 1..given \cup {value} \subseteq 1..given'
      BY <3>2
    <3>3. Values(call.drawn) \subseteq 1..given'
      BY <1>5, <3>1, <3>6
    <3>7. \A i \in DOMAIN old.drawn : call.drawn[i] # call.drawn[Len(old.drawn) + 1]
      BY <1>5, <3>2, <3>4
    <3>5. \A i, j \in DOMAIN call.drawn : call.drawn[i] = call.drawn[j] => i = j
      <4>1. \A i \in DOMAIN call.drawn : i \in DOMAIN old.drawn \/ i = Len(old.drawn) + 1
        BY <1>5
      <4> QED
        BY <1>5, <3>1, <3>7, <4>1
    <3> QED
      BY <3>3, <3>5
  <2>4. call.number < calls' /\ call.outcome # "random"
    BY <1>1, <1>3, KeyWrapAssumption DEF CallSound
  <2> QED
    BY <1>3, <2>2, <2>3, <2>4 DEF CallSound
<1>7. \A v \in Wrappers : v # w /\ Running(v) =>
         Apart(wrapping[v], call) /\ Apart(call, wrapping[v])
  <2> SUFFICES ASSUME NEW v \in Wrappers, v # w, Running(v)
               PROVE  Apart(wrapping[v], call) /\ Apart(call, wrapping[v])
    OBVIOUS
  <2>1. Apart(wrapping[v], old)
    BY DEF WrapInv, Drawing
  <2>2. Values(wrapping[v].drawn) \subseteq 0..given
    BY DEF WrapInv, Running, CallSound
  <2>3. value \notin Values(wrapping[v].drawn) \/ value = Zeros
    BY <1>1, <2>2
  <2> QED
    BY <1>3, <1>5, <2>1, <2>3 DEF Apart
<1>8. \A wrap \in wraps : Apart(wrap, call)
  <2> SUFFICES ASSUME NEW wrap \in wraps
               PROVE  Apart(wrap, call)
    OBVIOUS
  <2>1. Apart(wrap, old)
    BY DEF WrapInv, Drawing
  <2>2. Values(wrap.drawn) \subseteq 1..given
    BY DEF WrapInv, WrapSound
  <2>3. value \notin Values(wrap.drawn)
    BY <1>1, <2>2 DEF Zeros
  <2> QED
    BY <1>3, <1>5, <2>1, <2>3 DEF Apart
<1>9. calls' \in 0..MaxCalls /\ calls <= calls'
  BY <1>1, <1>3 DEF WrapInv
<1> HIDE DEF call
<1> QED
  BY <1>3, <1>4, <1>6, <1>7, <1>8, <1>9, OneCallerMoves

\* A call returns: what it drew becomes the wrap's, unless the crate or the source failed.
LEMMA SealDoneKeepsInv ==
    ASSUME WrapInv, NEW w \in Wrappers, SealDone(w)
    PROVE  WrapInv'
<1> DEFINE old == wrapping[w]
           outcome == OutcomeOf(old)
           call == [old EXCEPT !.outcome = outcome]
           wrap == [number |-> old.number, recipient |-> old.recipient, drawn |-> old.drawn]
<1>1. /\ calls \in Nat /\ given \in Nat /\ DOMAIN wrapping = Wrappers
      /\ Running(w) /\ CallSound(old, calls, given) /\ old.drawn # <<>>
  BY CallsAssumption DEF WrapInv, SealDone, Running
<1>2. /\ calls' = calls /\ given' = given
      /\ wrapping' = [wrapping EXCEPT ![w] = call]
      /\ wraps' = IF outcome # "ok" THEN wraps ELSE wraps \cup {wrap}
  BY DEF SealDone
<1>3. /\ outcome \in {"ok", "random", "crate"} /\ outcome # None
      /\ outcome = "ok" => old.recipient \notin LowOrder /\ ~old.latched
      /\ outcome = "random" => old.latched
  BY KeyWrapAssumption DEF OutcomeOf
<1>4. /\ call \in Call /\ call.number = old.number /\ call.drawn = old.drawn
      /\ call.latched = old.latched /\ call.asked = old.asked /\ call.outcome = outcome
  BY <1>1, <1>3 DEF CallSound, Call
<1>5. CallSound(call, calls', given')
  BY <1>1, <1>2, <1>3, <1>4 DEF CallSound
<1>6. wrapping'[w] = call /\ DOMAIN wrapping' = Wrappers
      /\ \A v \in Wrappers : v # w => wrapping'[v] = wrapping[v]
  BY <1>1, <1>2
<1>7. \A v \in Wrappers : wrapping'[v] # None => CallSound(wrapping'[v], calls', given')
  BY <1>2, <1>5, <1>6 DEF WrapInv
<1>8. \A v \in Wrappers : Running(v)' => v # w /\ Running(v)
  BY <1>3, <1>4, <1>6 DEF Running
<1>9. \A v, u \in Wrappers : v # u /\ Running(v)' /\ Running(u)' =>
         Apart(wrapping'[v], wrapping'[u])
  BY <1>6, <1>8 DEF WrapInv
<1>10. CASE outcome # "ok"
  <2>1. wraps' = wraps
    BY <1>2, <1>10
  <2>2. \A x \in wraps : WrapSound(x, calls', given')
    BY <1>2 DEF WrapInv
  <2>3. \A x \in wraps : \A v \in Wrappers : Running(v)' => Apart(x, wrapping'[v])
    BY <1>6, <1>8 DEF WrapInv
  <2> QED
    BY <1>2, <1>6, <1>7, <1>9, <2>1, <2>2, <2>3 DEF WrapInv
<1>11. CASE outcome = "ok"
  <2>1. wraps' = wraps \cup {wrap}
    BY <1>2, <1>11
  <2>2. WrapSound(wrap, calls', given')
    BY <1>1, <1>2, <1>3, <1>11 DEF WrapSound, CallSound, Call
  <2>3. Zeros \notin Values(wrap.drawn)
    BY <1>1, <2>2 DEF WrapSound, Zeros
  <2>4. \A x \in wraps' : WrapSound(x, calls', given')
    BY <1>2, <2>1, <2>2 DEF WrapInv
  <2>5. \A v \in Wrappers : Running(v)' => Apart(wrap, wrapping'[v])
    <3>1. \A v \in Wrappers : v # w /\ Running(v) => Apart(old, wrapping[v])
      BY <1>1 DEF WrapInv
    <3> QED
      BY <1>6, <1>8, <3>1 DEF Apart
  <2>6. \A x \in wraps' : \A v \in Wrappers : Running(v)' => Apart(x, wrapping'[v])
    BY <1>6, <1>8, <2>1, <2>5 DEF WrapInv
  <2>7. \A x \in wraps : Values(x.drawn) \cap Values(wrap.drawn) = {}
    <3>1. \A x \in wraps : Apart(x, old)
      BY <1>1 DEF WrapInv
    <3> QED
      BY <2>3, <3>1 DEF Apart
  <2>8. \A a, b \in wraps' :
           a.number # b.number => Values(a.drawn) \cap Values(b.drawn) = {}
    <3>1. \A a, b \in wraps :
             a.number # b.number => Values(a.drawn) \cap Values(b.drawn) = {}
      BY DEF WrapInv
    <3> HIDE DEF wrap
    <3> QED
      BY <2>1, <2>7, <3>1
  <2> QED
    BY <1>2, <1>6, <1>7, <1>9, <2>4, <2>6, <2>8 DEF WrapInv
<1> QED
  BY <1>10, <1>11

LEMMA WrapInvariance == WrapSpec => []WrapInv
<1>1. calls = 0 /\ WrapInit => WrapInv
  BY CallsAssumption DEF WrapInit, WrapInv, Running
<1>2. WrapInv /\ [WrapNext]_<<calls, wrapVars>> => WrapInv'
  <2> SUFFICES ASSUME WrapInv, [WrapNext]_<<calls, wrapVars>>
               PROVE  WrapInv'
    OBVIOUS
  <2>1. ASSUME NEW w \in Wrappers, WrapStep(w)
        PROVE  WrapInv'
    <3>1. CASE \E recipient \in Recipients : WrapDek(w, recipient)
      BY <3>1, WrapDekKeepsInv
    <3>2. CASE \E succeeded \in BOOLEAN : FillBytes(w, succeeded)
      BY <3>2, DrawKeepsInv DEF FillBytes
    <3>3. CASE FillZeros(w)
      BY <3>3, DrawKeepsInv DEF FillZeros
    <3>4. CASE SealDone(w)
      BY <3>4, SealDoneKeepsInv
    <3> QED
      BY <2>1, <3>1, <3>2, <3>3, <3>4 DEF WrapStep, WrapProceeds
  <2>2. CASE UNCHANGED <<calls, wrapVars>>
    <3>1. calls' = calls /\ given' = given /\ wrapping' = wrapping /\ wraps' = wraps
      BY <2>2 DEF wrapVars
    <3> QED
      BY <3>1 DEF WrapInv, Running
  <2> QED
    BY <2>1, <2>2 DEF WrapNext
<1> QED
  BY <1>1, <1>2, PTL DEF WrapSpec

\* The variables of the key wraps keep their types, and no wrap is for a key the crate
\* refuses.
THEOREM WrapTyping == WrapSpec => []WrapTypes
<1>1. WrapInv => WrapTypes
  BY DEF WrapInv, CallSound, WrapSound, WrapTypes
<1> QED
  BY <1>1, WrapInvariance, PTL

\* However many callers draw from one source, whatever it refuses and whenever they try
\* again, what a caller is given rests on bytes of the source alone, and no two wraps
\* share any (wrap_dek and SecureRandomRng of integrity-hpke).
THEOREM FreshWraps == WrapSpec => []WrapsAreFresh
<1>1. WrapInv => WrapsAreFresh
  BY DEF WrapInv, WrapSound, WrapsAreFresh
<1> QED
  BY <1>1, WrapInvariance, PTL

\* A call is refused for want of randomness only for a failure of the source during
\* that call (the generator of wrap_dek is made for one call).
THEOREM OwnFailures == WrapSpec => []FailuresAreOwn
<1>1. WrapInv => FailuresAreOwn
  BY DEF WrapInv, CallSound, FailuresAreOwn
<1> QED
  BY <1>1, WrapInvariance, PTL

-----------------------------------------------------------------------------
(* Sealing. *)

\* Tag, NUL and document lie one after the other.
LEMMA SeparatedShape ==
    ASSUME NEW d \in Seq(CodeUnits), NEW c \in Seq(CodeUnits)
    PROVE  /\ Len(DomainSeparated(d, c)) = Len(d) + 1 + Len(c)
           /\ \A i \in 1..Len(d) : DomainSeparated(d, c)[i] = d[i]
           /\ DomainSeparated(d, c)[Len(d) + 1] = NUL
           /\ \A i \in 1..Len(c) : DomainSeparated(d, c)[Len(d) + 1 + i] = c[i]
           /\ Len(d) \in Nat /\ Len(c) \in Nat
           /\ DOMAIN d = 1..Len(d) /\ DOMAIN c = 1..Len(c)
<1>1. <<NUL>> \in Seq(CodeUnits) /\ Len(<<NUL>>) = 1 /\ <<NUL>>[1] = NUL
  BY SealingAssumption
<1>2. /\ d \o <<NUL>> \in Seq(CodeUnits) /\ Len(d \o <<NUL>>) = Len(d) + 1
      /\ \A i \in 1..Len(d) : (d \o <<NUL>>)[i] = d[i]
      /\ (d \o <<NUL>>)[Len(d) + 1] = NUL
  BY <1>1
<1> DEFINE front == d \o <<NUL>>
<1>3. /\ Len(front \o c) = Len(front) + Len(c)
      /\ \A i \in 1..Len(front) : (front \o c)[i] = front[i]
      /\ \A i \in 1..Len(c) : (front \o c)[Len(front) + i] = c[i]
  <2>1. front \in Seq(CodeUnits)
    BY <1>2
  <2> HIDE DEF front
  <2> QED
    BY <2>1
<1>4. DomainSeparated(d, c) = front \o c
  BY DEF DomainSeparated
<1>5. Len(d) \in Nat /\ Len(c) \in Nat /\ DOMAIN c = 1..Len(c) /\ DOMAIN d = 1..Len(d)
  OBVIOUS
<1> QED
  BY <1>2, <1>3, <1>4, <1>5

\* Of two tags before documents without NUL, with one outcome, none is the shorter.
LEMMA NoShorterTag ==
    ASSUME NEW d1 \in Seq(CodeUnits), NEW c1 \in Seq(CodeUnits), NEW d2 \in Seq(CodeUnits),
           NEW c2 \in Seq(CodeUnits), \A i \in DOMAIN c1 : c1[i] # NUL,
           DomainSeparated(d1, c1) = DomainSeparated(d2, c2), Len(d1) < Len(d2)
    PROVE  FALSE
<1> DEFINE s == DomainSeparated(d1, c1)
           k == Len(d2) - Len(d1)
<1>1. /\ Len(s) = Len(d1) + 1 + Len(c1)
      /\ \A i \in 1..Len(c1) : s[Len(d1) + 1 + i] = c1[i]
      /\ Len(d1) \in Nat /\ Len(c1) \in Nat /\ DOMAIN c1 = 1..Len(c1)
  BY SeparatedShape
<1>2. /\ Len(s) = Len(d2) + 1 + Len(c2) /\ s[Len(d2) + 1] = NUL
      /\ Len(d2) \in Nat /\ Len(c2) \in Nat
  BY SeparatedShape, SMTT(20)
<1> HIDE DEF s
<1>3. k \in 1..Len(c1) /\ Len(d1) + 1 + k = Len(d2) + 1
  BY <1>1, <1>2
<1> HIDE DEF k
<1>4. s[Len(d1) + 1 + k] = c1[k] /\ c1[k] # NUL
  BY <1>1, <1>3
<1> QED
  BY <1>2, <1>3, <1>4

\* The tag ends at the last NUL: a document holds none, a tag may.
LEMMA SeparatorSeparates ==
    ASSUME NEW d1 \in Seq(CodeUnits), NEW c1 \in Seq(CodeUnits), NEW d2 \in Seq(CodeUnits),
           NEW c2 \in Seq(CodeUnits),
           \A i \in DOMAIN c1 : c1[i] # NUL, \A i \in DOMAIN c2 : c2[i] # NUL,
           DomainSeparated(d1, c1) = DomainSeparated(d2, c2)
    PROVE  d1 = d2 /\ c1 = c2
<1> DEFINE s == DomainSeparated(d1, c1)
<1>1. /\ Len(s) = Len(d1) + 1 + Len(c1)
      /\ \A i \in 1..Len(d1) : s[i] = d1[i]
      /\ \A i \in 1..Len(c1) : s[Len(d1) + 1 + i] = c1[i]
      /\ Len(d1) \in Nat /\ Len(c1) \in Nat
      /\ DOMAIN d1 = 1..Len(d1) /\ DOMAIN c1 = 1..Len(c1)
  BY SeparatedShape
<1>2. /\ Len(s) = Len(d2) + 1 + Len(c2)
      /\ \A i \in 1..Len(d2) : s[i] = d2[i]
      /\ \A i \in 1..Len(c2) : s[Len(d2) + 1 + i] = c2[i]
      /\ Len(d2) \in Nat /\ Len(c2) \in Nat
      /\ DOMAIN d2 = 1..Len(d2) /\ DOMAIN c2 = 1..Len(c2)
  <2> HIDE DEF s
  <2>1. s = DomainSeparated(d2, c2)
    BY DEF s
  <2> QED
    BY <2>1, SeparatedShape
<1>3. ~(Len(d1) < Len(d2)) /\ ~(Len(d2) < Len(d1))
  BY NoShorterTag
<1> HIDE DEF s
<1>4. Len(d1) = Len(d2) /\ Len(c1) = Len(c2)
  <2>1. Len(d1) + 1 + Len(c1) = Len(d2) + 1 + Len(c2)
    BY <1>1, <1>2
  <2>2. Len(d1) \in Nat /\ Len(c1) \in Nat /\ Len(d2) \in Nat /\ Len(c2) \in Nat
    BY <1>1, <1>2
  <2> QED
    BY <1>3, <2>1, <2>2
<1>5. \A i \in 1..Len(d1) : d1[i] = d2[i]
  BY <1>1, <1>2, <1>4
<1>6. \A i \in 1..Len(c1) : c1[i] = c2[i]
  BY <1>1, <1>2, <1>4
<1> QED
  BY <1>1, <1>2, <1>4, <1>5, <1>6

\* An input or an envelope is of a request, built under a key that was held.
Sealed(x) ==
    /\ [domain |-> x.domain, document |-> x.document] \in SealRequests
    /\ x.bytes = DomainSeparated(x.domain, x.document)
    /\ x.requestedUnder \in SigningKeys
    /\ x.kid \in {x.requestedUnder, MalformedKid}

SealInv ==
    /\ held \in SigningKeys /\ DOMAIN sealing = Sealers
    /\ \A s \in Sealers : sealing[s] # None => Sealed(sealing[s])
    /\ \A e \in envelopes :
          Sealed(e) /\ e.hash = e.bytes /\ e.headerKid = e.kid /\ e.kid = e.requestedUnder

LEMMA SealInvariance == SealSpec => []SealInv
<1>1. calls = 0 /\ SealInit => SealInv
  BY DEF SealInit, SealInv
<1>2. SealInv /\ [SealNext]_<<calls, sealVars>> => SealInv'
  <2> SUFFICES ASSUME SealInv, [SealNext]_<<calls, sealVars>>
               PROVE  SealInv'
    OBVIOUS
  <2>1. ASSUME NEW s \in Sealers, NEW request \in SealRequests, NEW readable \in BOOLEAN,
               BuildSealInput(s, request, readable)
        PROVE  SealInv'
    <3> DEFINE input == sealing'[s]
    <3>1. request = [domain |-> request.domain, document |-> request.document]
      BY SealingAssumption
    <3>2. /\ input.domain = request.domain /\ input.document = request.document
          /\ input.requestedUnder = held
          /\ input.bytes = DomainSeparated(request.domain, request.document)
          /\ input.kid \in {held, MalformedKid}
      BY <2>1 DEF BuildSealInput, DefaultSealInput, SealInv
    <3>3. Sealed(input)
      BY <3>1, <3>2 DEF Sealed, SealInv
    <3>4. /\ held' = held /\ envelopes' = envelopes /\ DOMAIN sealing' = Sealers
          /\ \A t \in Sealers : t # s => sealing'[t] = sealing[t]
      BY <2>1 DEF BuildSealInput, SealInv
    <3> QED
      BY <3>3, <3>4 DEF SealInv
  <2>2. ASSUME NEW s \in Sealers, AsyncSign(s)
        PROVE  SealInv'
    <3> DEFINE envelope == Envelope(sealing[s])
    <3>1. sealing[s] # None /\ Sealed(sealing[s])
      BY <2>2 DEF AsyncSign, SealInv
    <3>2. ASSUME sealing[s].kid # MalformedKid
          PROVE  /\ Sealed(envelope) /\ envelope.hash = envelope.bytes
                 /\ envelope.headerKid = envelope.kid
                 /\ envelope.kid = envelope.requestedUnder
      BY <3>1, <3>2 DEF Envelope, Sealed, KidInHeader
    <3>3. /\ held' = held /\ DOMAIN sealing' = Sealers
          /\ \A t \in Sealers : sealing'[t] = IF t = s THEN None ELSE sealing[t]
          /\ envelopes' = IF sealing[s].kid = MalformedKid THEN envelopes
                          ELSE envelopes \cup {envelope}
      BY <2>2 DEF AsyncSign, SealInv
    <3> HIDE DEF envelope
    <3> QED
      BY <3>2, <3>3 DEF SealInv
  <2>3. ASSUME NEW key \in SigningKeys, RotateKey(key)
        PROVE  SealInv'
    BY <2>3 DEF RotateKey, SealInv
  <2>4. CASE UNCHANGED <<calls, sealVars>>
    BY <2>4 DEF sealVars, SealInv
  <2> QED
    BY <2>1, <2>2, <2>3, <2>4 DEF SealNext, SealStep
<1> QED
  BY <1>1, <1>2, PTL DEF SealSpec

\* The hash of an envelope determines its tag and its document, for tags of any bytes,
\* NUL included (default_seal_input of integrity-seam).
THEOREM HashesPinRequests == SealSpec => []OneHashOneRequest
<1>1. SealInv => OneHashOneRequest
  <2> SUFFICES ASSUME SealInv, NEW a \in envelopes, NEW b \in envelopes, a.hash = b.hash
               PROVE  a.domain = b.domain /\ a.document = b.document
    BY DEF OneHashOneRequest
  <2>1. ASSUME NEW e \in envelopes
        PROVE  /\ e.domain \in Seq(CodeUnits) /\ e.document \in Seq(CodeUnits)
               /\ \A i \in DOMAIN e.document : e.document[i] # NUL
               /\ e.hash = DomainSeparated(e.domain, e.document)
    <3> DEFINE request == [domain |-> e.domain, document |-> e.document]
    <3>1. request \in SealRequests /\ e.hash = DomainSeparated(e.domain, e.document)
      BY DEF SealInv, Sealed
    <3>2. request.domain \in Seq(CodeUnits) /\ request.document \in Seq(CodeUnits)
          /\ \A i \in DOMAIN request.document : request.document[i] # NUL
      <4> HIDE DEF request
      <4> QED
        BY <3>1, SealingAssumption
    <3> QED
      BY <3>1, <3>2
  <2> QED
    BY <2>1, SeparatorSeparates
<1> QED
  BY <1>1, SealInvariance, PTL

\* Whenever keys are rotated, the verifier accepts exactly the envelopes signed by the
\* key their input was built for (default_async_sign of integrity-cose).
THEOREM RequestedKeySigns == SealSpec => []AcceptedUnderRequestedKey
<1>1. SealInv => AcceptedUnderRequestedKey
  BY DEF SealInv, AcceptedUnderRequestedKey, VerifierAccepts
<1> QED
  BY <1>1, SealInvariance, PTL

-----------------------------------------------------------------------------
(* Co-signing. *)

\* The digest over answers, whatever was attached to them.
DigestOver(answers, algorithm) ==
    Digest(Separated("signed-payload", [answers |-> answers, signatures |-> <<>>]), algorithm)

Signed(signature) ==
    /\ signature.algorithm \in Algorithms \cup {UnknownAlgorithm}
    /\ signature.algorithm # UnknownAlgorithm =>
          signature.digest = DigestOver(signature.over, signature.algorithm)

ResponseShaped(r) ==
    /\ r = [answers |-> r.answers, signatures |-> r.signatures]
    /\ \E signatures : r.signatures \in Seq(signatures)

\* The strengthening: what was built and not attached yet is over the answers it names.
CoInv ==
    /\ ResponseShaped(response) /\ DOMAIN drafts = CoSigners
    /\ \A c \in CoSigners : drafts[c] # None =>
          /\ drafts[c].algorithm \in Algorithms
          /\ drafts[c].digest = DigestOver(drafts[c].over, drafts[c].algorithm)
    /\ \A i \in DOMAIN response.signatures : Signed(response.signatures[i])
    /\ \A h \in handoffs :
          h.algorithm \in Algorithms /\ h.hash = Digest(HandoffBytes(h.of), h.algorithm)

LEMMA PayloadLeavesOutSignatures ==
    ASSUME ResponseShaped(response), NEW algorithm
    PROVE  Digest(SignedPayloadBytes(response), algorithm)
             = DigestOver(response.answers, algorithm)
<1>1. [response EXCEPT !.signatures = <<>>]
        = [answers |-> response.answers, signatures |-> <<>>]
  BY DEF ResponseShaped
<1> QED
  BY <1>1 DEF SignedPayloadBytes, CanonicalizeResponse, DigestOver

LEMMA CoInvariance == CoSpec => []CoInv
<1>1. calls = 0 /\ CoInit => CoInv
  <2> SUFFICES ASSUME CoInit
               PROVE  CoInv
    OBVIOUS
  <2>1. PICK answers \in Answers : response = [answers |-> answers, signatures |-> <<>>]
    BY DEF CoInit
  <2>2. <<>> \in Seq({}) /\ DOMAIN <<>> = {}
    OBVIOUS
  <2>3. ResponseShaped(response) /\ DOMAIN response.signatures = {}
    BY <2>1, <2>2 DEF ResponseShaped
  <2> QED
    BY <2>3 DEF CoInit, CoInv
<1>2. CoInv /\ [CoNext]_<<calls, coVars>> => CoInv'
  <2> SUFFICES ASSUME CoInv, [CoNext]_<<calls, coVars>>
               PROVE  CoInv'
    OBVIOUS
  <2>1. ASSUME NEW c \in CoSigners, NEW algorithm \in Algorithms,
               BuildSignedPayload(c, algorithm)
        PROVE  CoInv'
    <3>1. /\ response' = response /\ handoffs' = handoffs /\ DOMAIN drafts' = CoSigners
          /\ drafts'[c].algorithm = algorithm /\ drafts'[c].over = response.answers
          /\ drafts'[c].digest = Digest(SignedPayloadBytes(response), algorithm)
          /\ \A d \in CoSigners : d # c => drafts'[d] = drafts[d]
      BY <2>1 DEF BuildSignedPayload, CoInv
    <3>2. drafts'[c].digest = DigestOver(drafts'[c].over, drafts'[c].algorithm)
      BY <3>1, PayloadLeavesOutSignatures DEF CoInv
    <3> QED
      BY <3>1, <3>2 DEF CoInv
  <2>2. ASSUME NEW c \in CoSigners, NEW named, AttachSignature(c, named)
        PROVE  CoInv'
    <3> DEFINE signature == [signer |-> c, algorithm |-> named, over |-> drafts[c].over,
                             digest |-> drafts[c].digest]
               before == response.signatures
    <3>1. /\ handoffs' = handoffs
          /\ response' = [response EXCEPT !.signatures = Append(before, signature)]
          /\ DOMAIN drafts' = CoSigners
          /\ \A d \in CoSigners : drafts'[d] = IF d = c THEN None ELSE drafts[d]
      BY <2>2 DEF AttachSignature, CoInv
    <3>2. Signed(signature)
      BY <2>2 DEF AttachSignature, CoInv, Signed
    <3>3. response' = [answers |-> response.answers,
                       signatures |-> Append(before, signature)]
      BY <3>1 DEF CoInv, ResponseShaped
    <3>4. PICK signatures : before \in Seq(signatures)
      BY DEF CoInv, ResponseShaped
    <3> HIDE DEF signature
    <3>5. before \in Seq(signatures \cup {signature})
          /\ Append(before, signature) \in Seq(signatures \cup {signature})
      BY <3>4
    <3>6. \A i \in DOMAIN Append(before, signature) :
             \/ i \in DOMAIN before /\ Append(before, signature)[i] = before[i]
             \/ Append(before, signature)[i] = signature
      BY <3>5
    <3>7. ResponseShaped(response)'
      BY <3>3, <3>5 DEF ResponseShaped
    <3>8. \A i \in DOMAIN response'.signatures : Signed(response'.signatures[i])
      <4>1. response'.signatures = Append(before, signature)
        BY <3>3
      <4> QED
        BY <3>2, <3>6, <4>1 DEF CoInv
    <3> QED
      BY <3>1, <3>7, <3>8 DEF CoInv
  <2>3. ASSUME NEW answers \in Answers, Amend(answers)
        PROVE  CoInv'
    <3>1. /\ drafts' = drafts /\ handoffs' = handoffs
          /\ response' = [answers |-> answers, signatures |-> response.signatures]
      BY <2>3 DEF Amend, CoInv, ResponseShaped
    <3> QED
      BY <3>1 DEF CoInv, ResponseShaped
  <2>4. ASSUME NEW algorithm \in Algorithms, HandOff(algorithm)
        PROVE  CoInv'
    BY <2>4 DEF HandOff, CoInv
  <2>5. CASE UNCHANGED <<calls, coVars>>
    BY <2>5 DEF coVars, CoInv
  <2> QED
    BY <2>1, <2>2, <2>3, <2>4, <2>5 DEF CoNext, CoStep, ResponseStep
<1> QED
  BY <1>1, <1>2, PTL DEF CoSpec

\* A signature verifies exactly while the answers are those it was made over, whatever
\* was attached around it, amended and undone (integrity-canonical leaves the
\* signatures out of a signed payload).
THEOREM SignaturesStand == CoSpec => []CoSignaturesStand
<1>1. CoInv => CoSignaturesStand
  <2> SUFFICES ASSUME CoInv, NEW i \in DOMAIN response.signatures
               PROVE  VerifySignedPayloadDigest(response, response.signatures[i].digest,
                                                response.signatures[i].algorithm)
                        = IF response.signatures[i].algorithm = UnknownAlgorithm THEN None
                          ELSE response.signatures[i].over = response.answers
    BY DEF CoSignaturesStand
  <2> DEFINE signature == response.signatures[i]
  <2>1. Signed(signature)
    BY DEF CoInv
  <2>2. CASE signature.algorithm = UnknownAlgorithm
    BY <2>2, CoSigningAssumption DEF VerifySignedPayloadDigest
  <2>3. CASE signature.algorithm # UnknownAlgorithm
    <3>1. signature.algorithm \in Algorithms
          /\ signature.digest = DigestOver(signature.over, signature.algorithm)
      BY <2>1, <2>3 DEF Signed
    <3>2. Digest(SignedPayloadBytes(response), signature.algorithm)
            = DigestOver(response.answers, signature.algorithm)
      BY PayloadLeavesOutSignatures DEF CoInv
    <3> HIDE DEF signature
    <3>3. (DigestOver(response.answers, signature.algorithm)
             = DigestOver(signature.over, signature.algorithm))
            = (signature.over = response.answers)
      BY DEF DigestOver, Digest, Separated
    <3> USE DEF signature
    <3> QED
      BY <2>3, <3>1, <3>2, <3>3 DEF VerifySignedPayloadDigest
  <2> QED
    BY <2>2, <2>3
<1> QED
  BY <1>1, CoInvariance, PTL

\* A handoff hash holds for one response only, and for no signed payload.
THEOREM HandoffsPin == CoSpec => []HandoffsPinTheResponse
<1>1. CoInv => HandoffsPinTheResponse
  <2> SUFFICES ASSUME CoInv, NEW h \in handoffs
               PROVE  /\ (Digest(HandoffBytes(response), h.algorithm) = h.hash)
                           = (h.of = response)
                      /\ VerifySignedPayloadDigest(response, h.hash, h.algorithm) = FALSE
    BY DEF HandoffsPinTheResponse
  <2>1. h.algorithm \in Algorithms /\ h.hash = Digest(HandoffBytes(h.of), h.algorithm)
    BY DEF CoInv
  <2>2. (Digest(HandoffBytes(response), h.algorithm) = h.hash) = (h.of = response)
    BY <2>1 DEF Digest, HandoffBytes, Separated
  <2>3. Digest(SignedPayloadBytes(response), h.algorithm) # h.hash
    BY <2>1 DEF Digest, HandoffBytes, SignedPayloadBytes, Separated
  <2> QED
    BY <2>1, <2>2, <2>3 DEF VerifySignedPayloadDigest
<1> QED
  BY <1>1, CoInvariance, PTL

-----------------------------------------------------------------------------
(* The command line. *)

\* What the walk has taken from the first n arguments.
Walked(arguments, n, path, format) ==
    /\ n > 0 => arguments[n] # "--format"
    /\ \A i \in FormatValues(arguments) : i <= n => arguments[i] \in FormatNames
    /\ IF path = None THEN \A i \in FreeArguments(arguments) : i > n
       ELSE \E i \in FreeArguments(arguments) :
               /\ i <= n /\ arguments[i] = path /\ path \notin Flags
               /\ \A j \in FreeArguments(arguments) : j <= n => j = i
    /\ IF \A i \in FormatValues(arguments) : i > n THEN format = "both"
       ELSE \E i \in FormatValues(arguments) :
               /\ i <= n /\ arguments[i] = format
               /\ \A j \in FormatValues(arguments) : j <= n => j <= i

\* What is on standard output is the first of the sections meant.
WrittenSoFar(sections) == \E k \in 0..Len(sections) : written = SubSeq(sections, 1, k)

\* The strengthening: the walk is what the arguments behind it say, and there is a
\* report only of arguments that were walked to the end.
CommandInv ==
    /\ invocation = None =>
          /\ exitCode = None /\ reached = 1 /\ bundlePath = None /\ outputFormat = "both"
          /\ reportVerified = None
    /\ invocation # None =>
          /\ invocation \in CommandLines
          /\ reached \in 1..(Len(invocation.arguments) + 1)
          /\ exitCode = None =>
             /\ Walked(invocation.arguments, reached - 1, bundlePath, outputFormat)
             /\ invocation.command # "help"
    /\ reportVerified = None => written = <<>>
    /\ reportVerified # None =>
          /\ reportVerified \in BOOLEAN
          /\ invocation.command # "help" /\ WellFormed(invocation.arguments)
          /\ outputFormat = MeantFormat(invocation.arguments) /\ outputFormat \in FormatNames
          /\ WrittenSoFar(Sections(outputFormat))
    /\ exitCode # None =>
          (exitCode = 0 <=>
              \/ invocation.command = "help"
              \/ /\ reportVerified = TRUE
                 /\ written = Sections(outputFormat))

\* Places of an argument list.
LEMMA Places ==
    ASSUME NEW line \in CommandLines
    PROVE  /\ Len(line.arguments) \in Nat
           /\ DOMAIN line.arguments = 1..Len(line.arguments)
           /\ \A i \in DOMAIN line.arguments : line.arguments[i] # None
           /\ FormatValues(line.arguments) \subseteq DOMAIN line.arguments
           /\ FreeArguments(line.arguments) \subseteq DOMAIN line.arguments
<1> DEFINE said == {line.arguments[i] : i \in DOMAIN line.arguments}
<1>1. line.arguments \in Seq(said) /\ None \notin said
  BY CommandLinesAssumption
<1>2. Len(line.arguments) \in Nat /\ DOMAIN line.arguments = 1..Len(line.arguments)
  <2> HIDE DEF said
  <2> QED
    BY <1>1
<1> QED
  BY <1>1, <1>2 DEF FormatValues, FreeArguments

\* One more section on standard output.
SectionNames == {"text", "json", "newline"}

LEMMA SectionWritten ==
    ASSUME NEW sections \in Seq(SectionNames), NEW k \in 0..Len(sections)
    PROVE  /\ Len(SubSeq(sections, 1, k)) = k
           /\ k < Len(sections) =>
                 Append(SubSeq(sections, 1, k), sections[k + 1]) = SubSeq(sections, 1, k + 1)
           /\ k = Len(sections) => SubSeq(sections, 1, k) = sections
  OBVIOUS

LEMMA SectionsAreListed ==
    ASSUME NEW name \in FormatNames
    PROVE  Sections(name) \in Seq(SectionNames) /\ Sections(name) # <<>>
<1>1. CASE name = "text"
  <2>1. Sections(name) = <<"text">>
    BY <1>1 DEF Sections
  <2> QED
    BY <2>1 DEF SectionNames
<1>2. CASE name = "json"
  <2>1. Sections(name) = <<"json", "newline">>
    BY <1>2 DEF Sections
  <2> QED
    BY <2>1 DEF SectionNames
<1>3. CASE name = "both"
  <2>1. Sections(name) = <<"text", "newline", "json", "newline">>
    BY <1>3 DEF Sections
  <2> QED
    BY <2>1 DEF SectionNames
<1> QED
  BY <1>1, <1>2, <1>3 DEF FormatNames

\* At the end of the walk it has found what the arguments mean.
LEMMA WalkedToTheEnd ==
    ASSUME NEW line \in CommandLines, bundlePath # None,
           Walked(line.arguments, Len(line.arguments), bundlePath, outputFormat)
    PROVE  /\ WellFormed(line.arguments)
           /\ outputFormat = MeantFormat(line.arguments) /\ outputFormat \in FormatNames
<1> DEFINE arguments == line.arguments
           n == Len(arguments)
<1>1. /\ n \in Nat /\ DOMAIN arguments = 1..n
      /\ FormatValues(arguments) \subseteq 1..n /\ FreeArguments(arguments) \subseteq 1..n
  BY Places
<1>2. PICK i \in FreeArguments(arguments) :
          /\ arguments[i] = bundlePath /\ bundlePath \notin Flags
          /\ \A j \in FreeArguments(arguments) : j = i
  BY <1>1 DEF Walked
<1>3. FreeArguments(arguments) = {i} /\ i \in DOMAIN arguments
  BY <1>1, <1>2
<1>4. \A j \in FormatValues(arguments) : arguments[j] \in FormatNames
  BY <1>1 DEF Walked
<1>5. n > 0 /\ arguments[n] # "--format"
  BY <1>1, <1>3 DEF Walked
<1>6. WellFormed(arguments)
  BY <1>2, <1>3, <1>4, <1>5 DEF WellFormed
<1>7. outputFormat = MeantFormat(arguments) /\ outputFormat \in FormatNames
  <2>1. CASE FormatValues(arguments) = {}
    BY <2>1 DEF Walked, MeantFormat, FormatNames
  <2>2. CASE FormatValues(arguments) # {}
    <3>1. ~ \A j \in FormatValues(arguments) : j > n
      BY <1>1, <2>2
    <3>2. PICK k \in FormatValues(arguments) :
              arguments[k] = outputFormat /\ \A j \in FormatValues(arguments) : j <= k
      BY <1>1, <3>1 DEF Walked
    <3>3. k = CHOOSE m \in FormatValues(arguments) :
                  \A j \in FormatValues(arguments) : j <= m
      <4>1. ASSUME NEW m \in FormatValues(arguments), \A j \in FormatValues(arguments) : j <= m
            PROVE  m = k
        <5>1. m \in Nat /\ k \in Nat /\ m <= k /\ k <= m
          BY <1>1, <3>2, <4>1
        <5> QED
          BY <5>1
      <4> QED
        BY <3>2, <4>1
    <3> QED
      BY <1>4, <2>2, <3>2, <3>3 DEF MeantFormat
  <2> QED
    BY <2>1, <2>2
<1> QED
  BY <1>6, <1>7

\* The walk goes on over a format, and over a path.
LEMMA FormatWalked ==
    ASSUME NEW line \in CommandLines, NEW n \in Nat, n + 2 <= Len(line.arguments),
           NEW path, NEW format, Walked(line.arguments, n, path, format),
           line.arguments[n + 1] = "--format", line.arguments[n + 2] \in FormatNames
    PROVE  Walked(line.arguments, n + 2, path, line.arguments[n + 2])
<1> DEFINE arguments == line.arguments
           r == n + 2
<1>1. /\ Len(arguments) \in Nat /\ DOMAIN arguments = 1..Len(arguments)
      /\ FormatValues(arguments) \subseteq 1..Len(arguments)
      /\ FreeArguments(arguments) \subseteq 1..Len(arguments)
      /\ r \in 1..Len(arguments) /\ n + 1 \in 1..Len(arguments) /\ r > 1 /\ r - 1 = n + 1
  <2>1. /\ Len(arguments) \in Nat /\ DOMAIN arguments = 1..Len(arguments)
        /\ FormatValues(arguments) \subseteq DOMAIN arguments
        /\ FreeArguments(arguments) \subseteq DOMAIN arguments
    BY Places
  <2> HIDE DEF arguments
  <2>2. r <= Len(arguments)
    BY DEF arguments
  <2> QED
    BY <2>1, <2>2
<1>2. r \in FormatValues(arguments) /\ r \notin FreeArguments(arguments)
  BY <1>1 DEF FormatValues, FreeArguments
<1>3. n + 1 \notin FreeArguments(arguments)
  BY <1>1 DEF FreeArguments
<1>4. n + 1 \notin FormatValues(arguments)
  BY <1>1 DEF FormatValues, Walked
<1>5. arguments[r] # "--format"
  BY DEF FormatNames
<1>6. \A i \in 1..Len(arguments) : i <= r <=> i <= n \/ i = n + 1 \/ i = r
  BY <1>1
<1>7. \A i \in FormatValues(arguments) : i <= r => arguments[i] \in FormatNames
  BY <1>1, <1>4, <1>6 DEF Walked
<1>8. \A i \in FreeArguments(arguments) : /\ i <= r <=> i <= n
                                          /\ i > r <=> i > n
  BY <1>1, <1>2, <1>3, <1>6
<1>9. IF path = None THEN \A i \in FreeArguments(arguments) : i > r
      ELSE \E i \in FreeArguments(arguments) :
              /\ i <= r /\ arguments[i] = path /\ path \notin Flags
              /\ \A j \in FreeArguments(arguments) : j <= r => j = i
  BY <1>8 DEF Walked
<1>10. ~ \A i \in FormatValues(arguments) : i > r
  BY <1>1, <1>2
<1>11. r <= r
  BY <1>1
<1> HIDE DEF r, arguments
<1>12. Walked(arguments, r, path, arguments[r])
  BY <1>2, <1>5, <1>7, <1>9, <1>10, <1>11 DEF Walked
<1> QED
  BY <1>12 DEF r, arguments

LEMMA PathWalked ==
    ASSUME NEW line \in CommandLines, NEW n \in Nat, n + 1 <= Len(line.arguments),
           NEW format, Walked(line.arguments, n, None, format),
           line.arguments[n + 1] \notin Flags
    PROVE  Walked(line.arguments, n + 1, line.arguments[n + 1], format)
<1> DEFINE arguments == line.arguments
           r == n + 1
<1>1. /\ Len(arguments) \in Nat /\ DOMAIN arguments = 1..Len(arguments)
      /\ FormatValues(arguments) \subseteq 1..Len(arguments)
      /\ FreeArguments(arguments) \subseteq 1..Len(arguments)
      /\ r \in 1..Len(arguments) /\ r - 1 = n /\ arguments[r] # None
  <2>1. /\ Len(arguments) \in Nat /\ DOMAIN arguments = 1..Len(arguments)
        /\ FormatValues(arguments) \subseteq DOMAIN arguments
        /\ FreeArguments(arguments) \subseteq DOMAIN arguments
        /\ \A i \in DOMAIN arguments : arguments[i] # None
    BY Places
  <2>2. r <= Len(arguments)
    OBVIOUS
  <2> HIDE DEF arguments
  <2> QED
    BY <2>1, <2>2
<1>2. arguments[r] # "--format"
  BY CommandLinesAssumption
<1>3. r \notin FormatValues(arguments)
  BY <1>1 DEF FormatValues, Walked
<1>4. r \in FreeArguments(arguments)
  BY <1>1, <1>2, <1>3 DEF FreeArguments
<1>5. \A i \in 1..Len(arguments) : /\ i <= r <=> i <= n \/ i = r
                                   /\ i > r <=> i > n /\ i # r
  BY <1>1
<1>6. \A i \in FormatValues(arguments) : /\ i <= r <=> i <= n
                                         /\ i > r <=> i > n
  BY <1>1, <1>3, <1>5
<1>7. \A j \in FreeArguments(arguments) : j <= r => j = r
  <2>1. \A j \in FreeArguments(arguments) : j > n
    BY DEF Walked
  <2> QED
    BY <1>1, <1>5, <2>1
<1>8. /\ \A i \in FormatValues(arguments) : i <= r => arguments[i] \in FormatNames
      /\ IF \A i \in FormatValues(arguments) : i > r THEN format = "both"
         ELSE \E i \in FormatValues(arguments) :
                 /\ i <= r /\ arguments[i] = format
                 /\ \A j \in FormatValues(arguments) : j <= r => j <= i
  BY <1>6 DEF Walked
<1>9. r <= r /\ arguments[r] \notin Flags
  BY <1>1
<1> HIDE DEF r, arguments
<1>10. Walked(arguments, r, arguments[r], format)
  BY <1>1, <1>2, <1>4, <1>7, <1>8, <1>9 DEF Walked
<1> QED
  BY <1>10 DEF r, arguments

\* What holds of the walk while it goes on.
LEMMA WalkGoesOn ==
    ASSUME CommandInv, Verifying, reportVerified = None
    PROVE  /\ invocation \in CommandLines /\ invocation.command # "help" /\ written = <<>>
           /\ reached \in Nat /\ reached >= 1 /\ reached <= Len(invocation.arguments) + 1
           /\ Len(invocation.arguments) \in Nat
           /\ reached - 1 \in Nat /\ (reached - 1) + 1 = reached /\ (reached - 1) + 2 = reached + 1
           /\ Walked(invocation.arguments, reached - 1, bundlePath, outputFormat)
           /\ invocation # None /\ exitCode = None
<1>1. /\ invocation \in CommandLines /\ invocation.command # "help" /\ written = <<>>
      /\ reached \in 1..(Len(invocation.arguments) + 1)
      /\ Walked(invocation.arguments, reached - 1, bundlePath, outputFormat)
      /\ invocation # None /\ exitCode = None
  BY DEF CommandInv, Verifying
<1>2. Len(invocation.arguments) \in Nat
  BY <1>1, Places
<1> QED
  BY <1>1, <1>2

\* A refusal before there is a report.
LEMMA Refusal ==
    ASSUME CommandInv, Verifying, reportVerified = None, exitCode' = 1,
           UNCHANGED <<invocation, reached, bundlePath, outputFormat, reportVerified, written>>
    PROVE  CommandInv'
<1>1. None # TRUE
  BY CommandLinesAssumption, Zenon
<1>2. 1 # None
  BY CommandLinesAssumption
<1>3. /\ invocation \in CommandLines /\ invocation.command # "help" /\ written = <<>>
      /\ reached \in 1..(Len(invocation.arguments) + 1) /\ invocation # None
  BY WalkGoesOn DEF CommandInv
<1>4. ~(exitCode' = 0)
  OBVIOUS
<1> QED
  BY <1>1, <1>2, <1>3, <1>4 DEF CommandInv

LEMMA ArgumentsStep ==
    ASSUME CommandInv, ReadFormat \/ ReadPath \/ RefuseFlag
    PROVE  CommandInv'
<1> DEFINE arguments == invocation.arguments
           n == reached - 1
<1>1. /\ Verifying /\ reportVerified = None /\ reached <= Len(arguments)
      /\ invocation' = invocation /\ reportVerified' = reportVerified /\ written' = written
  BY DEF ReadFormat, ReadPath, RefuseFlag, Reading
<1>2. /\ invocation \in CommandLines /\ invocation.command # "help" /\ written = <<>>
      /\ reached \in Nat /\ reached >= 1 /\ Len(arguments) \in Nat
      /\ n \in Nat /\ n + 1 = reached /\ n + 2 = reached + 1
      /\ Walked(arguments, n, bundlePath, outputFormat)
      /\ invocation # None /\ exitCode = None
  BY <1>1, WalkGoesOn
<1>3. CASE ReadFormat
  <2>1. CASE reached < Len(arguments) /\ arguments[reached + 1] \in FormatNames
    <3>1. /\ reached' = reached + 2 /\ outputFormat' = arguments[reached + 1]
          /\ exitCode' = exitCode /\ bundlePath' = bundlePath
          /\ arguments[reached] = "--format"
      BY <1>3, <2>1 DEF ReadFormat, Reading
    <3>2. reached' \in 1..(Len(arguments) + 1) /\ reached' - 1 = n + 2 /\ n + 2 <= Len(arguments)
      BY <1>2, <2>1, <3>1
    <3>3. Walked(arguments, n + 2, bundlePath, arguments[n + 2])
      BY <1>2, <2>1, <3>1, <3>2, FormatWalked
    <3> QED
      BY <1>1, <1>2, <3>1, <3>2, <3>3 DEF CommandInv
  <2>2. CASE ~(reached < Len(arguments) /\ arguments[reached + 1] \in FormatNames)
    BY <1>1, <1>3, <2>2, Refusal DEF ReadFormat
  <2> QED
    BY <2>1, <2>2
<1>4. CASE ReadPath
  <2>1. CASE bundlePath = None
    <3>1. /\ bundlePath' = arguments[reached] /\ reached' = reached + 1
          /\ exitCode' = exitCode /\ outputFormat' = outputFormat
          /\ arguments[reached] \notin Flags
      BY <1>4, <2>1 DEF ReadPath, Reading
    <3>2. reached' \in 1..(Len(arguments) + 1) /\ reached' - 1 = n + 1 /\ n + 1 <= Len(arguments)
      BY <1>1, <1>2, <3>1
    <3>3. Walked(arguments, n + 1, arguments[n + 1], outputFormat)
      BY <1>2, <2>1, <3>1, <3>2, PathWalked
    <3> QED
      BY <1>1, <1>2, <3>1, <3>2, <3>3 DEF CommandInv
  <2>2. CASE bundlePath # None
    BY <1>1, <1>4, <2>2, Refusal DEF ReadPath
  <2> QED
    BY <2>1, <2>2
<1>5. CASE RefuseFlag
  BY <1>1, <1>5, Refusal DEF RefuseFlag
<1> QED
  BY <1>3, <1>4, <1>5

LEMMA ReadBundleStep ==
    ASSUME CommandInv, NEW readable \in BOOLEAN, NEW verdict \in BOOLEAN,
           ReadBundle(readable, verdict)
    PROVE  CommandInv'
<1>1. /\ Verifying /\ reportVerified = None /\ reached > Len(invocation.arguments)
      /\ UNCHANGED <<invocation, reached, bundlePath, outputFormat, written>>
  BY DEF ReadBundle
<1>2. CASE bundlePath = None \/ ~readable
  BY <1>1, <1>2, Refusal DEF ReadBundle
<1>3. CASE ~(bundlePath = None \/ ~readable)
  <2>1. /\ reportVerified' = verdict /\ exitCode' = exitCode
    BY <1>3 DEF ReadBundle
  <2>2. /\ invocation \in CommandLines /\ invocation.command # "help" /\ written = <<>>
        /\ reached - 1 = Len(invocation.arguments)
        /\ Walked(invocation.arguments, reached - 1, bundlePath, outputFormat)
        /\ invocation # None /\ exitCode = None
    BY <1>1, WalkGoesOn
  <2>3. /\ WellFormed(invocation.arguments)
        /\ outputFormat = MeantFormat(invocation.arguments) /\ outputFormat \in FormatNames
    BY <1>3, <2>2, WalkedToTheEnd
  <2>4. WrittenSoFar(Sections(outputFormat))'
    <3>1. Sections(outputFormat) \in Seq(SectionNames)
      BY <2>3, SectionsAreListed
    <3>2. 0 \in 0..Len(Sections(outputFormat)) /\ <<>> = SubSeq(Sections(outputFormat), 1, 0)
      BY <3>1
    <3>3. outputFormat' = outputFormat /\ written' = <<>>
      BY <1>1, <2>2
    <3> QED
      BY <3>2, <3>3 DEF WrittenSoFar
  <2>5. None \notin BOOLEAN
    BY CommandLinesAssumption
  <2> QED
    BY <1>1, <2>1, <2>2, <2>3, <2>4, <2>5 DEF CommandInv
<1> QED
  BY <1>2, <1>3

\* What holds while the report is written.
LEMMA WritingGoesOn ==
    ASSUME CommandInv, Verifying, reportVerified # None
    PROVE  /\ invocation # None /\ exitCode = None /\ reportVerified \in BOOLEAN
           /\ invocation.command # "help"
           /\ Sections(outputFormat) \in Seq(SectionNames)
           /\ \E k \in 0..Len(Sections(outputFormat)) :
                  /\ written = SubSeq(Sections(outputFormat), 1, k) /\ Len(written) = k
<1>1. /\ invocation # None /\ exitCode = None /\ reportVerified \in BOOLEAN
      /\ invocation.command # "help" /\ outputFormat \in FormatNames
      /\ WrittenSoFar(Sections(outputFormat))
  BY DEF CommandInv, Verifying
<1>2. Sections(outputFormat) \in Seq(SectionNames)
  BY <1>1, SectionsAreListed
<1>3. PICK k \in 0..Len(Sections(outputFormat)) : written = SubSeq(Sections(outputFormat), 1, k)
  BY <1>1 DEF WrittenSoFar
<1>4. Len(written) = k
  BY <1>2, <1>3, SectionWritten
<1> QED
  BY <1>1, <1>2, <1>3, <1>4

LEMMA WriteSteps ==
    ASSUME CommandInv, WriteSection \/ WriteFailure \/ ReturnVerdict
    PROVE  CommandInv'
<1> DEFINE sections == Sections(outputFormat)
<1>1. /\ Verifying /\ reportVerified # None
      /\ UNCHANGED <<invocation, reached, bundlePath, outputFormat, reportVerified>>
  BY DEF WriteSection, WriteFailure, ReturnVerdict, Writing
<1>2. /\ invocation # None /\ exitCode = None /\ reportVerified \in BOOLEAN
      /\ invocation.command # "help" /\ sections \in Seq(SectionNames)
  BY <1>1, WritingGoesOn
<1>3. PICK k \in 0..Len(sections) : written = SubSeq(sections, 1, k) /\ Len(written) = k
  BY <1>1, WritingGoesOn
<1> HIDE DEF sections
<1>4. CASE WriteSection
  <2>1. k < Len(sections) /\ written' = Append(written, sections[k + 1]) /\ exitCode' = exitCode
    BY <1>3, <1>4 DEF WriteSection, Writing, sections
  <2>2. written' = SubSeq(sections, 1, k + 1) /\ k + 1 \in 0..Len(sections)
    BY <1>2, <1>3, <2>1, SectionWritten
  <2>3. WrittenSoFar(Sections(outputFormat))'
    BY <1>1, <2>2 DEF WrittenSoFar, sections
  <2> QED
    BY <1>1, <1>2, <2>1, <2>3 DEF CommandInv
<1>5. CASE WriteFailure
  <2>1. written' = written /\ exitCode' = 1 /\ Len(written) # Len(sections)
    BY <1>2, <1>3, <1>5 DEF WriteFailure, Writing, sections
  <2>2. written # sections /\ 1 # 0
    BY <2>1
  <2>3. WrittenSoFar(Sections(outputFormat))'
    BY <1>1, <1>3, <2>1 DEF WrittenSoFar, sections
  <2> QED
    BY <1>1, <1>2, <2>1, <2>2, <2>3 DEF CommandInv, sections
<1>6. CASE ReturnVerdict
  <2>1. written' = written /\ k = Len(sections)
    BY <1>3, <1>6 DEF ReturnVerdict, sections
  <2>2. written = sections
    BY <1>2, <1>3, <2>1, SectionWritten
  <2>3. WrittenSoFar(Sections(outputFormat))'
    BY <1>1, <1>3, <2>1 DEF WrittenSoFar, sections
  <2>4. exitCode' = 0 <=> reportVerified = TRUE
    <3>1. CASE reportVerified = TRUE
      BY <1>6, <3>1 DEF ReturnVerdict
    <3>2. CASE reportVerified = FALSE
      BY <1>6, <3>2 DEF ReturnVerdict
    <3> QED
      BY <1>2, <3>1, <3>2, Zenon
  <2> QED
    BY <1>1, <1>2, <2>1, <2>2, <2>3, <2>4 DEF CommandInv, sections
<1> QED
  BY <1>4, <1>5, <1>6

LEMMA RunStep ==
    ASSUME CommandInv, RunCommand
    PROVE  CommandInv'
<1>1. /\ invocation = None /\ invocation' \in CommandLines
      /\ UNCHANGED <<reached, bundlePath, outputFormat, reportVerified, written>>
      /\ exitCode' = CASE invocation'.command = "help" -> 0
                       [] invocation'.command \in {"verify", "verify-export"} -> None
                       [] OTHER -> 1
  BY DEF RunCommand
<1>2. /\ reached = 1 /\ bundlePath = None /\ outputFormat = "both" /\ reportVerified = None
      /\ written = <<>>
  BY <1>1 DEF CommandInv
<1>3. /\ Len(invocation'.arguments) \in Nat
      /\ FormatValues(invocation'.arguments) \subseteq 1..Len(invocation'.arguments)
      /\ FreeArguments(invocation'.arguments) \subseteq 1..Len(invocation'.arguments)
  BY <1>1, Places
<1>4. Walked(invocation'.arguments, 0, None, "both")
  BY <1>3 DEF Walked
<1>5. None # TRUE
  BY CommandLinesAssumption, Zenon
<1>6. None # 0 /\ None # 1 /\ invocation' # None
  BY <1>1, CommandLinesAssumption
<1>7. exitCode' # None => (exitCode' = 0 <=> invocation'.command = "help")
  BY <1>1
<1>8. exitCode' = None => invocation'.command # "help"
  BY <1>1, <1>6
<1>9. reached' \in 1..(Len(invocation'.arguments) + 1) /\ reached' - 1 = 0
  BY <1>1, <1>2, <1>3
<1> QED
  BY <1>1, <1>2, <1>4, <1>5, <1>6, <1>7, <1>8, <1>9 DEF CommandInv

LEMMA CommandInvariance == CommandSpec => []CommandInv
<1>1. CommandInit => CommandInv
  BY DEF CommandInit, CommandInv
<1>2. CommandInv /\ [CommandStep]_<<calls, commandVars>> => CommandInv'
  <2>1. CASE UNCHANGED commandVars
    BY <2>1 DEF commandVars, CommandInv, WrittenSoFar
  <2> QED
    BY <2>1, RunStep, ArgumentsStep, ReadBundleStep, WriteSteps DEF CommandStep
<1> QED
  BY <1>1, <1>2, PTL DEF CommandSpec

\* The command succeeds exactly when it was asked for help, or was told one bundle, found
\* that its report verified and wrote all of it in the format named last, for every list
\* of arguments and every write that fails (run, verify_command, verify_export_command).
THEOREM WholeReports == CommandSpec => []ExitZeroIsTheWholeReport
<1>1. ASSUME CommandInv PROVE ExitZeroIsTheWholeReport
  <2> DEFINE sections == Sections(MeantFormat(invocation.arguments))
  <2>1. CASE reportVerified = None
    <3>1. None # TRUE
      BY CommandLinesAssumption, Zenon
    <3>2. written = <<>>
      BY <1>1, <2>1 DEF CommandInv
    <3>3. exitCode # None => (exitCode = 0 <=> invocation.command = "help")
      BY <1>1, <2>1, <3>1 DEF CommandInv
    <3> QED
      BY <2>1, <3>1, <3>2, <3>3 DEF ExitZeroIsTheWholeReport
  <2>2. CASE reportVerified # None
    <3>1. /\ WellFormed(invocation.arguments) /\ sections = Sections(outputFormat)
          /\ outputFormat \in FormatNames /\ WrittenSoFar(sections)
      BY <1>1, <2>2 DEF CommandInv
    <3>2. exitCode # None =>
              (exitCode = 0 <=> \/ invocation.command = "help"
                                \/ reportVerified = TRUE /\ written = sections)
      BY <1>1, <3>1 DEF CommandInv
    <3> HIDE DEF sections
    <3>3. sections \in Seq(SectionNames)
      BY <3>1, SectionsAreListed
    <3>4. written = SubSeq(sections, 1, Len(written))
      BY <3>1, <3>3, SectionWritten DEF WrittenSoFar
    <3> QED
      BY <3>1, <3>2, <3>4 DEF ExitZeroIsTheWholeReport, sections
  <2> QED
    BY <2>1, <2>2
<1> QED
  BY <1>1, CommandInvariance, PTL

-----------------------------------------------------------------------------
(* Envelopes. *)

\* What was signed, by whom: the key and the bytes of a signature on the way.
SignedBy(signature, key, over) ==
    \/ signature = Null
    \/ \E size \in {63, 64} : signature = Bytes([size |-> size, by |-> key, over |-> over])

\* An envelope has its seven parts, its header is a sequence and its signature
\* is of what was sent.
OnItsWay(e, said) ==
    /\ e = [tag |-> e.tag, fields |-> e.fields, header |-> e.header,
            unprotected |-> e.unprotected, payload |-> e.payload,
            signature |-> e.signature, trailing |-> e.trailing]
    /\ e.header # None => Listed(e.header)
    /\ SignedBy(e.signature, said.key, SigStructure(said.header, said.payload))

\* The envelope of what was sent.
Encoded(said) ==
    EncodeCoseSign1(said.header, IF said.detached THEN None ELSE said.payload,
                    [size |-> 64, by |-> said.key,
                     over |-> SigStructure(said.header, said.payload)])

WireInv ==
    /\ edits \in Nat
    /\ wire # None =>
          /\ sent.header \in Headers
          /\ OnItsWay(wire, sent)
          /\ edits = 0 => wire = Encoded(sent)

\* The three encoders write such headers.
LEMMA EncodersWrite ==
    ASSUME NEW alg, NEW kid, NEW suite, NEW artifact, NEW uri,
           None \notin {Number(alg), Bytes(kid), Number(suite), artifact, uri}, suite >= 0,
           artifact.type = "text", artifact.size \in Nat, ~artifact.bom,
           uri.type = "text", uri.size \in Nat, ~uri.bom
    PROVE  /\ Written(ForAlg(alg, kid))
           /\ Written(SubstrateProtectedHeader(alg, kid, suite, artifact))
           /\ Written(DetachedSignatureProtectedHeader(alg, kid, uri))
<1> DEFINE a == Entry("alg", Number(alg))
           k == Entry("kid", Bytes(kid))
           s == Entry("suite_id", Number(suite))
           t == Entry("artifact_type", artifact)
           m == Entry("method_uri", uri)
<1>1. WrittenEntry(a) /\ WrittenEntry(k) /\ WrittenEntry(s) /\ WrittenEntry(t) /\ WrittenEntry(m)
  BY DEF WrittenEntry, Entry, Number, Bytes
<1>2. /\ a.label = "alg" /\ k.label = "kid" /\ s.label = "suite_id"
      /\ t.label = "artifact_type" /\ m.label = "method_uri"
  BY DEF Entry
<1> HIDE DEF a, k, s, t, m
<1>3. Written(<<a>>)
  <2>1. DOMAIN <<a>> = {1} /\ <<a>>[1] = a /\ <<a>> \in Seq({a})
    OBVIOUS
  <2>2. {<<a>>[i] : i \in DOMAIN <<a>>} = {a}
    BY <2>1
  <2> QED
    BY <1>1, <2>1, <2>2 DEF Written, Listed
<1>4. Written(<<a, k>>)
  <2>1. DOMAIN <<a, k>> = {1, 2} /\ <<a, k>>[1] = a /\ <<a, k>>[2] = k /\ <<a, k>> \in Seq({a, k})
    OBVIOUS
  <2>2. {<<a, k>>[i] : i \in DOMAIN <<a, k>>} = {a, k}
    BY <2>1
  <2> QED
    BY <1>1, <1>2, <2>1, <2>2 DEF Written, Listed
<1>5. Written(<<a, k, m>>)
  <2> DEFINE h == <<a, k, m>>
  <2>1. DOMAIN h = {1, 2, 3} /\ h[1] = a /\ h[2] = k /\ h[3] = m /\ h \in Seq({a, k, m})
    OBVIOUS
  <2> HIDE DEF h
  <2>2. {h[i] : i \in DOMAIN h} = {a, k, m}
    BY <2>1
  <2> QED
    BY <1>1, <1>2, <2>1, <2>2 DEF Written, Listed
<1>6. Written(<<a, k, s, t>>)
  <2> DEFINE h == <<a, k, s, t>>
  <2>1. /\ DOMAIN h = {1, 2, 3, 4} /\ h[1] = a /\ h[2] = k /\ h[3] = s /\ h[4] = t
        /\ h \in Seq({a, k, s, t})
    OBVIOUS
  <2> HIDE DEF h
  <2>2. {h[i] : i \in DOMAIN h} = {a, k, s, t}
    BY <2>1
  <2> QED
    BY <1>1, <1>2, <2>1, <2>2 DEF Written, Listed
<1>7. ForAlg(alg, kid) = <<a>> \/ ForAlg(alg, kid) = <<a, k>>
  <2>1. <<a>> \o <<>> = <<a>>
    <3>1. /\ <<a>> \in Seq({a}) /\ <<>> \in Seq({a}) /\ Len(<<a>>) = 1 /\ Len(<<>>) = 0
          /\ <<a>>[1] = a
      OBVIOUS
    <3>2. /\ <<a>> \o <<>> \in Seq({a}) /\ Len(<<a>> \o <<>>) = 1 /\ (<<a>> \o <<>>)[1] = a
      BY <3>1
    <3> QED
      BY <3>1, <3>2
  <2>3. <<a>> \o <<k>> = <<a, k>>
    <3>1. /\ <<a>> \in Seq({a, k}) /\ <<k>> \in Seq({a, k}) /\ Len(<<a>>) = 1 /\ Len(<<k>>) = 1
          /\ <<a>>[1] = a /\ <<k>>[1] = k
      OBVIOUS
    <3>2. /\ <<a>> \o <<k>> \in Seq({a, k}) /\ Len(<<a>> \o <<k>>) = 2
          /\ (<<a>> \o <<k>>)[1] = a /\ (<<a>> \o <<k>>)[2] = k
      BY <3>1
    <3> DEFINE both == <<a>> \o <<k>>
               pair == <<a, k>>
    <3>3. /\ pair \in Seq({a, k}) /\ Len(pair) = 2 /\ pair[1] = a /\ pair[2] = k
      OBVIOUS
    <3>4. both = pair
      <4>1. /\ both \in Seq({a, k}) /\ Len(both) = 2 /\ both[1] = a /\ both[2] = k
        BY <3>2
      <4> HIDE DEF both, pair
      <4>2. \A i \in 1..2 : both[i] = pair[i]
        BY <3>3, <4>1
      <4> QED
        BY <3>3, <4>1, <4>2
    <3> QED
      BY <3>4
  <2>2. ForAlg(alg, kid) = <<a>> \o IF kid = None THEN <<>> ELSE <<k>>
    BY DEF ForAlg, a, k
  <2> QED
    BY <2>1, <2>2, <2>3
<1>8. /\ SubstrateProtectedHeader(alg, kid, suite, artifact) = <<a, k, s, t>>
      /\ DetachedSignatureProtectedHeader(alg, kid, uri) = <<a, k, m>>
  BY DEF SubstrateProtectedHeader, DetachedSignatureProtectedHeader, a, k, s, t, m
<1> QED
  BY <1>3, <1>4, <1>5, <1>6, <1>7, <1>8

\* Whatever becomes of a header, it stays a sequence.
LEMMA AlteredIsListed ==
    ASSUME NEW header, Listed(header), NEW altered \in AlteredHeader(header)
    PROVE  Listed(altered)
<1> DEFINE fields == {header[i] : i \in DOMAIN header}
<1>1. header \in Seq(fields) /\ DOMAIN header = 1..Len(header) /\ Len(header) \in Nat
  BY DEF Listed
<1>2. ASSUME NEW n \in Nat, DOMAIN altered = 1..n,
             altered = [i \in DOMAIN altered |-> altered[i]]
      PROVE  Listed(altered)
  BY <1>2 DEF Listed
<1>3. ASSUME NEW i \in DOMAIN header, NEW item, altered = [header EXCEPT ![i] = item]
      PROVE  Listed(altered)
  BY <1>1, <1>2, <1>3
<1>4. ASSUME NEW item, altered = Append(header, item)
      PROVE  Listed(altered)
  <2>1. header \in Seq(fields \cup {item})
    BY <1>1
  <2>2. altered \in Seq(fields \cup {item})
    BY <1>4, <2>1
  <2> QED
    BY <1>2, <2>2
<1>5. ASSUME altered = SubSeq(header, 2, Len(header))
      PROVE  Listed(altered)
  <2>1. altered \in Seq(fields)
    BY <1>1, <1>5
  <2> QED
    BY <1>2, <2>1
<1>6. ASSUME NEW i \in DOMAIN header, altered = [header EXCEPT ![i].wide = TRUE]
      PROVE  Listed(altered)
  BY <1>1, <1>2, <1>6
<1>7. ASSUME NEW i \in DOMAIN header, altered = [header EXCEPT ![i].value = BehindBom(@)]
      PROVE  Listed(altered)
  BY <1>1, <1>2, <1>7
<1>8. \/ \E i \in DOMAIN header, item \in HeaderItems : altered = [header EXCEPT ![i] = item]
      \/ \E item \in HeaderItems : altered = Append(header, item)
      \/ altered = SubSeq(header, 2, Len(header))
      \/ \E i \in DOMAIN header : altered = [header EXCEPT ![i].wide = TRUE]
      \/ \E i \in DOMAIN header : altered = [header EXCEPT ![i].value = BehindBom(@)]
  <2> DEFINE A == {[header EXCEPT ![i] = item] : i \in DOMAIN header, item \in HeaderItems}
             B == {Append(header, item) : item \in HeaderItems}
             C == {[header EXCEPT ![i].wide = TRUE] : i \in DOMAIN header}
             D == {[header EXCEPT ![i].value = BehindBom(@)] :
                     i \in {k \in DOMAIN header : header[k].value.type = "text"}}
  <2>1. altered \in A \cup B \cup {SubSeq(header, 2, Len(header))} \cup C \cup D
    BY DEF AlteredHeader
  <2>2. altered \in A => \E i \in DOMAIN header, item \in HeaderItems :
                             altered = [header EXCEPT ![i] = item]
    OBVIOUS
  <2>3. altered \in B => \E item \in HeaderItems : altered = Append(header, item)
    OBVIOUS
  <2>4. altered \in C => \E i \in DOMAIN header : altered = [header EXCEPT ![i].wide = TRUE]
    OBVIOUS
  <2>5. altered \in D =>
           \E i \in DOMAIN header : altered = [header EXCEPT ![i].value = BehindBom(@)]
    OBVIOUS
  <2> HIDE DEF A, B, C, D
  <2> QED
    BY <2>1, <2>2, <2>3, <2>4, <2>5
<1> QED
  BY <1>3, <1>4, <1>5, <1>6, <1>7, <1>8, Zenon

LEMMA WireInvariance == WireSpec => []WireInv
<1>1. calls = 0 /\ WireInit => WireInv
  BY DEF WireInit, WireInv
<1>2. WireInv /\ [WireStep]_<<calls, wireVars>> => WireInv'
  <2> SUFFICES ASSUME WireInv, [WireStep]_<<calls, wireVars>>
               PROVE  WireInv'
    OBVIOUS
  <2>1. ASSUME NEW header \in Headers, NEW payload \in Payloads, NEW key \in Owners,
               NEW detached \in BOOLEAN, Send(header, payload, key, detached)
        PROVE  WireInv'
    <3> DEFINE signature == [size |-> 64, by |-> key, over |-> SigStructure(header, payload)]
    <3>1. /\ edits' = edits
          /\ sent'.header = header /\ sent'.payload = payload /\ sent'.key = key
          /\ sent'.detached = detached
          /\ wire' = EncodeCoseSign1(header, IF detached THEN None ELSE payload, signature)
      BY <2>1 DEF Send
    <3>2. wire' = Encoded(sent')
      BY <3>1 DEF Encoded
    <3>3. Listed(header)
      BY HeadersAssumption DEF Written
    <3>4. OnItsWay(wire', sent')
      BY <3>1, <3>3 DEF OnItsWay, EncodeCoseSign1, Sign1, SignedBy
    <3> QED
      BY <3>1, <3>2, <3>4 DEF WireInv
  <2>2. CASE Alter
    <3>1. /\ wire # None /\ edits' = edits + 1 /\ sent' = sent /\ edits \in Nat
          /\ OnItsWay(wire, sent) /\ sent.header \in Headers
      BY <2>2 DEF Alter, WireInv
    <3>2. edits' \in Nat /\ edits' # 0
      BY <3>1
    <3>3. CASE wire' \in AlteredBody(wire)
      <4>1. OnItsWay(wire', sent)
        BY <3>1, <3>3 DEF OnItsWay, AlteredBody, SignedBy
      <4> QED
        BY <3>1, <3>2, <4>1 DEF WireInv
    <3>4. CASE wire.signature.type = "bytes" /\ wire' = [wire EXCEPT !.signature.v.size = 63]
      <4>1. wire.signature # Null
        BY <3>4 DEF Null
      <4>2. PICK size \in {63, 64} :
               wire.signature = Bytes([size |-> size, by |-> sent.key,
                                       over |-> SigStructure(sent.header, sent.payload)])
        BY <3>1, <4>1 DEF OnItsWay, SignedBy
      <4>3. wire'.signature = Bytes([size |-> 63, by |-> sent.key,
                                     over |-> SigStructure(sent.header, sent.payload)])
        BY <3>1, <3>4, <4>2 DEF OnItsWay, Bytes
      <4>4. OnItsWay(wire', sent)
        BY <3>1, <3>4, <4>3 DEF OnItsWay, SignedBy
      <4> QED
        BY <3>1, <3>2, <4>4 DEF WireInv
    <3>5. ASSUME wire.header # None, NEW h \in AlteredHeader(wire.header),
                 wire' = [wire EXCEPT !.header = h]
          PROVE  WireInv'
      <4>1. Listed(h)
        BY <3>1, <3>5, AlteredIsListed DEF OnItsWay
      <4>2. OnItsWay(wire', sent)
        BY <3>1, <3>5, <4>1 DEF OnItsWay
      <4> QED
        BY <3>1, <3>2, <4>2 DEF WireInv
    <3> QED
      BY <2>2, <3>3, <3>4, <3>5 DEF Alter
  <2>3. CASE UNCHANGED <<calls, wireVars>>
    <3>1. wire' = wire /\ sent' = sent /\ edits' = edits
      BY <2>3 DEF wireVars
    <3> QED
      BY <3>1 DEF WireInv
  <2> QED
    BY <2>1, <2>2, <2>3 DEF WireStep
<1> QED
  BY <1>1, <1>2, PTL DEF WireSpec

\* One entry of a label is the first and the last.
LEMMA OnlyEntry ==
    ASSUME NEW header, Listed(header), NEW label,
           \A i, j \in At(header, label) : i = j
    PROVE  FirstOf(header, label) = LastOf(header, label)
<1>1. At(header, label) \subseteq Nat
  BY DEF At, Listed
<1>2. CASE At(header, label) = {}
  BY <1>2 DEF FirstOf, LastOf
<1>3. CASE At(header, label) # {}
  <2>1. PICK i \in At(header, label) : TRUE
    BY <1>3
  <2>2. At(header, label) = {i} /\ i <= i
    BY <1>1, <2>1
  <2> QED
    BY <2>2 DEF FirstOf, LastOf
<1> QED
  BY <1>2, <1>3

\* A label that is written once is found.
LEMMA EntryFound ==
    ASSUME NEW header, Written(header), NEW label
    PROVE  \/ FirstOf(header, label) = None
           \/ \E i \in DOMAIN header :
                 /\ header[i].label = label /\ WrittenEntry(header[i])
                 /\ FirstOf(header, label) = header[i].value
<1>1. At(header, label) \subseteq Nat
  BY DEF At, Written, Listed
<1>2. CASE At(header, label) = {}
  BY <1>2 DEF FirstOf
<1>3. CASE At(header, label) # {}
  <2>1. PICK i \in At(header, label) : TRUE
    BY <1>3
  <2>2. At(header, label) = {i} /\ i <= i
    BY <1>1, <2>1 DEF At, Written
  <2>3. FirstOf(header, label) = header[i].value
    BY <2>2 DEF FirstOf
  <2> QED
    BY <2>1, <2>3 DEF At, Written
<1> QED
  BY <1>2, <1>3

\* Whatever the package reads, the crate reads: no label has two entries, and no text
\* stands behind U+FEFF.
THEOREM CodecsAgree == WireSpec => []CodecsReadAlike
<1>1. ASSUME WireInv PROVE CodecsReadAlike
  <2> SUFFICES ASSUME wire # None, wire.header # None,
                      \A i \in DOMAIN wire.header :
                         wire.header[i].value.type = "text" => ~wire.header[i].value.bom,
                      NEW cose \in PackageDecode(wire)
               PROVE  cose \in DecodeCoseSign1(wire)
    BY DEF CodecsReadAlike
  <2> DEFINE h == wire.header
  <2>1. Listed(h) /\ Distinct(h) /\ BodyHolds(wire) /\ wire.payload.type \in {"bytes", "null"}
    BY <1>1 DEF WireInv, OnItsWay, PackageDecode, ItemsReadable
  <2>2. ASSUME NEW label \in IntegerLabels
        PROVE  TextRead(LastOf(h, label)) = FirstOf(h, label)
    <3>1. LastOf(h, label) = FirstOf(h, label)
      BY <2>1, OnlyEntry DEF Distinct
    <3>2. FirstOf(h, label) = None \/ \E i \in DOMAIN h : FirstOf(h, label) = h[i].value
      <4>1. CASE At(h, label) = {}
        BY <4>1 DEF FirstOf
      <4>2. CASE At(h, label) # {}
        <5>1. PICK i \in At(h, label) : At(h, label) = {i}
          BY <2>1, <4>2 DEF Distinct
        <5>2. i \in Nat /\ i \in DOMAIN h
          BY <2>1, <5>1 DEF At, Listed
        <5>3. FirstOf(h, label) = h[i].value
          BY <5>1, <5>2 DEF FirstOf
        <5> QED
          BY <5>2, <5>3
      <4> QED
        BY <4>1, <4>2
    <3>3. ~(/\ FirstOf(h, label) # None /\ FirstOf(h, label).type = "text"
            /\ FirstOf(h, label).bom)
      BY <3>2
    <3> QED
      BY <3>1, <3>3 DEF TextRead
  <2>3. /\ TextRead(LastOf(h, "alg")) = FirstOf(h, "alg")
        /\ TextRead(LastOf(h, "kid")) = FirstOf(h, "kid")
        /\ TextRead(LastOf(h, "suite_id")) = FirstOf(h, "suite_id")
        /\ TextRead(LastOf(h, "artifact_type")) = FirstOf(h, "artifact_type")
        /\ TextRead(LastOf(h, "method_uri")) = FirstOf(h, "method_uri")
    BY <2>2 DEF IntegerLabels
  <2> HIDE DEF h
  <2>4. PackageDecode(wire) # {}
    OBVIOUS
  <2>5. h = wire.header
    BY DEF h
  <2> QED
    BY <2>1, <2>3, <2>4, <2>5 DEF PackageDecode, DecodeCoseSign1
<1> QED
  BY <1>1, WireInvariance, PTL

\* What the crate decodes has the payload and the signature of the envelope.
LEMMA DecodedParts ==
    ASSUME NEW e, NEW cose \in DecodeCoseSign1(e)
    PROVE  /\ e.signature.type = "bytes" /\ cose.signature = e.signature.v
           /\ cose.payload = PayloadRead(e.payload)
  BY DEF DecodeCoseSign1, BodyHolds, Decoded

\* A signature verifies over what its signer signed, under the header it was made
\* with and for no other key, whatever items of the envelope were changed.
THEOREM SignedOnly == WireSpec => []OnlyTheSignedVerifies
<1>1. ASSUME WireInv PROVE OnlyTheSignedVerifies
  <2> SUFFICES ASSUME wire # None, NEW key \in Owners, NEW supplied \in Payloads \cup {None},
                      NEW payload \in Verifies(wire, key, supplied)
               PROVE  /\ key = sent.key /\ payload = sent.payload
                      /\ wire.header = sent.header /\ supplied \in {None, payload}
    BY DEF OnlyTheSignedVerifies
  <2>1. PICK cose \in DecodeCoseSign1(wire) : payload \in ResolvePayload(cose, supplied)
    BY DEF Verifies
  <2>2. PICK read \in DecodeCoseSign1(wire) :
           /\ read.signature.by = key
           /\ read.signature.over = SigStructure(wire.header, payload)
    BY DEF Verifies
  <2>3. wire.signature.type = "bytes" /\ read.signature = wire.signature.v
    BY <2>2, DecodedParts
  <2>4. PICK size \in {63, 64} :
           wire.signature = Bytes([size |-> size, by |-> sent.key,
                                   over |-> SigStructure(sent.header, sent.payload)])
    BY <1>1, <2>3 DEF WireInv, OnItsWay, SignedBy, Null
  <2>5. key = sent.key /\ SigStructure(wire.header, payload) = SigStructure(sent.header, sent.payload)
    BY <2>2, <2>3, <2>4 DEF Bytes
  <2>6. wire.header = sent.header /\ payload = sent.payload
    BY <2>5 DEF SigStructure
  <2>7. supplied \in {None, payload}
    BY <2>1 DEF ResolvePayload
  <2> QED
    BY <2>5, <2>6, <2>7
<1> QED
  BY <1>1, WireInvariance, PTL

\* What an encoder wrote both codecs read back as it was, or both refuse for the length
\* of its method URI.
THEOREM EncodedReads == WireSpec => []EncodedIsRead
<1>1. ASSUME WireInv PROVE EncodedIsRead
  <2> SUFFICES ASSUME wire # None, edits = 0
               PROVE  EncodedIsRead
    BY DEF EncodedIsRead
  <2> DEFINE h == sent.header
             carried == IF sent.detached THEN None ELSE sent.payload
             signature == [size |-> 64, by |-> sent.key,
                           over |-> SigStructure(h, sent.payload)]
             expected == Decoded(FirstOf(h, "alg"), FirstOf(h, "kid"), FirstOf(h, "suite_id"),
                                 FirstOf(h, "artifact_type"), FirstOf(h, "method_uri"),
                                 carried, wire.signature.v)
  <2>1. h \in Headers /\ Written(h) /\ Listed(h) /\ h # None
    BY <1>1, HeadersAssumption DEF WireInv, Written
  <2>2. /\ wire.tag = "sign1" /\ wire.fields = 4 /\ wire.header = h
        /\ wire.unprotected = "empty" /\ wire.payload = PayloadField(carried)
        /\ wire.signature = Bytes(signature) /\ wire.trailing = FALSE
    BY <1>1 DEF WireInv, Encoded, EncodeCoseSign1, Sign1
  <2>3. At(h, "retired") = {}
    BY <2>1 DEF At, Written, WrittenEntry
  <2>4. BodyHolds(wire)
    BY <2>1, <2>2, <2>3 DEF BodyHolds, Bytes
  <2>5. Distinct(h)
    BY <2>1 DEF Distinct, At, Written
  <2>6. wire.payload.type \in {"bytes", "null"} /\ PayloadRead(wire.payload) = carried
    BY <2>2 DEF PayloadField, PayloadRead, Bytes, Null
  <2>7. ASSUME NEW label \in IntegerLabels
        PROVE  TextRead(LastOf(h, label)) = FirstOf(h, label)
    <3>1. LastOf(h, label) = FirstOf(h, label)
      BY <2>1, <2>5, OnlyEntry DEF Distinct
    <3>2. FirstOf(h, label) = None \/ FirstOf(h, label).type # "text" \/ ~FirstOf(h, label).bom
      BY <2>1, EntryFound DEF WrittenEntry
    <3> QED
      BY <3>1, <3>2 DEF TextRead
  <2>8. /\ TextRead(LastOf(h, "alg")) = FirstOf(h, "alg")
        /\ TextRead(LastOf(h, "kid")) = FirstOf(h, "kid")
        /\ TextRead(LastOf(h, "suite_id")) = FirstOf(h, "suite_id")
        /\ TextRead(LastOf(h, "artifact_type")) = FirstOf(h, "artifact_type")
        /\ TextRead(LastOf(h, "method_uri")) = FirstOf(h, "method_uri")
    BY <2>7 DEF IntegerLabels
  <2>9. ItemsReadable(wire)
    <3>1. ASSUME NEW i \in DOMAIN h
          PROVE  ~h[i].wide /\ h[i].value.type \notin {"float", "undefined"}
      BY <2>1 DEF Written, WrittenEntry
    <3> QED
      BY <2>2, <2>5, <3>1 DEF ItemsReadable
  <2>10. LabelsTyped(FirstOf(h, "alg"), FirstOf(h, "kid"), FirstOf(h, "suite_id"),
                     FirstOf(h, "artifact_type"), FirstOf(h, "method_uri")) <=> ~TooLong(h)
    <3>1. FirstOf(h, "alg") # None => FirstOf(h, "alg").type = "int"
      BY <2>1, EntryFound DEF WrittenEntry
    <3>2. FirstOf(h, "kid") # None => FirstOf(h, "kid").type = "bytes"
      BY <2>1, EntryFound DEF WrittenEntry
    <3>3. FirstOf(h, "suite_id") # None =>
             FirstOf(h, "suite_id").type = "int" /\ FirstOf(h, "suite_id").n >= 0
      BY <2>1, EntryFound DEF WrittenEntry
    <3>4. FirstOf(h, "artifact_type") # None => FirstOf(h, "artifact_type").type = "text"
      BY <2>1, EntryFound DEF WrittenEntry
    <3>5. FirstOf(h, "method_uri") # None =>
             FirstOf(h, "method_uri").type = "text" /\ FirstOf(h, "method_uri").size \in Nat
      BY <2>1, EntryFound DEF WrittenEntry
    <3> QED
      BY <3>1, <3>2, <3>3, <3>4, <3>5, MaximumAssumption DEF LabelsTyped, TooLong
  <2> HIDE DEF h, carried
  <2>11. DecodeCoseSign1(wire) = IF TooLong(h) THEN {} ELSE expected
    BY <2>2, <2>4, <2>5, <2>6, <2>10 DEF DecodeCoseSign1
  <2>12. PackageDecode(wire) = IF TooLong(h) THEN {} ELSE expected
    BY <2>2, <2>4, <2>6, <2>8, <2>9, <2>10 DEF PackageDecode
  <2> QED
    BY <2>11, <2>12 DEF EncodedIsRead, h, carried
<1> QED
  BY <1>1, WireInvariance, PTL

-----------------------------------------------------------------------------
(* Proofs about a log. *)

\* An answer is the one the code gives to the question.
ProofInv ==
    proofQuestion # None =>
        proofQuestion \in ProofQuestions /\ proved = Proved(proofQuestion)

LEMMA ProofInvariant == ProofSpec => []ProofInv
<1>1. ProofInit => ProofInv
  BY DEF ProofInit, ProofInv
<1>2. ProofInv /\ [ProofStep]_<<calls, proofVars>> => ProofInv'
  <2>1. ASSUME ProofStep PROVE ProofInv'
    BY <2>1 DEF ProofStep, ProofInv, Proved, RootOf, LeavesOf, FirstRoot, ForkedAt
  <2>2. ASSUME ProofInv, UNCHANGED <<calls, proofVars>> PROVE ProofInv'
    BY <2>2 DEF ProofInv, proofVars
  <2> QED
    BY <2>1, <2>2
<1> QED
  BY <1>1, <1>2, PTL DEF ProofSpec

\* The leaves of a log.
LEMMA LogLeaves ==
    ASSUME NEW size \in Nat
    PROVE  /\ LeavesOf(size) \in Seq({<<k>> : k \in Nat}) /\ Len(LeavesOf(size)) = size
           /\ \A k \in 1..size : LeavesOf(size)[k] = MerkleLeafHash(k)
  BY DEF LeavesOf, MerkleLeafHash

LEMMA InclusionAnswered ==
    ASSUME NEW T, NEW proof \in Seq(T), NEW head \in Nat, NEW size \in Nat, NEW index \in Nat
    PROVE  LET shown == RootOf(head) \in
                           RootFromInclusionProof(index, size, MerkleLeafHash(index + 1), proof)
               path == AuditPath(LeavesOf(head), index)
           IN  /\ shown => index < head /\ proof = path
               /\ ~shown /\ head = size => index >= size \/ proof # path
<1> DEFINE leaf == MerkleLeafHash(index + 1)
           leaves == LeavesOf(head)
           shown == MerkleRoot(leaves) \in RootFromInclusionProof(index, size, leaf, proof)
<1>1. /\ leaves \in Seq({<<k>> : k \in Nat}) /\ Len(leaves) = head
      /\ \A k \in 1..head : leaves[k] = MerkleLeafHash(k)
  BY LogLeaves
<1>2. \A k \in 1..Len(leaves) : \E x : leaves[k] = MerkleLeafHash(x)
  BY <1>1
<1> HIDE DEF leaves
<1>3. ASSUME shown PROVE index < head /\ proof = AuditPath(leaves, index)
  <2>1. PICK k \in 1..Len(leaves) : leaf = leaves[k] /\ proof = AuditPath(leaves, k - 1)
    <3>1. \E y : leaf = MerkleLeafHash(y)
      OBVIOUS
    <3> HIDE DEF leaf
    <3> QED
      BY <1>1, <1>2, <1>3, <3>1, InclusionIsSound
  <2>2. <<index + 1>> = <<k>>
    BY <1>1, <2>1 DEF MerkleLeafHash
  <2>3. index + 1 = k
    <3>1. \A a, b : <<a>> = <<b>> => a = b
      OBVIOUS
    <3> QED
      BY <2>2, <3>1
  <2>4. k - 1 = index /\ index < head
    BY <1>1, <2>3
  <2> QED
    BY <2>1, <2>4
<1>4. ASSUME ~shown, head = size, index < size PROVE proof # AuditPath(leaves, index)
  <2>1. /\ index \in 0..(Len(leaves) - 1) /\ leaf = leaves[index + 1] /\ size = Len(leaves)
    BY <1>1, <1>4
  <2> HIDE DEF leaf
  <2>2. shown <=> leaf = leaves[index + 1] /\ proof = AuditPath(leaves, index)
    BY <1>1, <2>1, InclusionIsTheAuditPath
  <2> QED
    BY <1>4, <2>1, <2>2
<1> HIDE DEF leaf
<1> QED
  BY <1>3, <1>4 DEF RootOf, leaves, leaf

LEMMA ConsistencyAnswered ==
    ASSUME NEW T, NEW proof \in Seq(T), NEW from \in Nat \ {0}, NEW to \in Nat, NEW root
    PROVE  RootOf(to) \in RootFromConsistencyProof(from, to, root, proof)
              <=> /\ from <= to /\ root = TreeHash(LeavesOf(from))
                  /\ proof = ConsistencyPath(LeavesOf(to), from)
<1> DEFINE leaves == LeavesOf(to)
           prefix == LeavesOf(from)
<1>1. /\ leaves \in Seq({<<k>> : k \in Nat}) /\ Len(leaves) = to
      /\ prefix \in Seq({<<k>> : k \in Nat}) /\ Len(prefix) = from /\ from >= 1
      /\ \A k \in 1..to : leaves[k] = MerkleLeafHash(k)
      /\ \A k \in 1..from : prefix[k] = MerkleLeafHash(k)
  BY LogLeaves
<1> HIDE DEF leaves, prefix
<1>2. MerkleRoot(prefix) = TreeHash(prefix)
  <2>1. prefix # <<>>
    BY <1>1
  <2> QED
    BY <1>1, <2>1, RootIsTreeHash
<1>3. CASE from <= to
  <2>1. SubSeq(leaves, 1, from) = prefix
    <3>1. /\ SubSeq(leaves, 1, from) \in Seq({<<k>> : k \in Nat}) /\ Len(SubSeq(leaves, 1, from)) = from
          /\ \A k \in 1..from : SubSeq(leaves, 1, from)[k] = leaves[k]
      BY <1>1, <1>3
    <3>2. \A k \in 1..from : SubSeq(leaves, 1, from)[k] = prefix[k]
      BY <1>1, <1>3, <3>1
    <3> HIDE DEF leaves, prefix
    <3> QED
      BY <1>1, <3>1, <3>2, SameSequence
  <2>2. from \in 1..Len(leaves)
    BY <1>1, <1>3
  <2>3. MerkleRoot(leaves) \in RootFromConsistencyProof(from, Len(leaves), root, proof)
          <=> /\ root = MerkleRoot(SubSeq(leaves, 1, from))
              /\ proof = ConsistencyPath(leaves, from)
    BY <1>1, <2>2, ConsistencyIsOneHistory
  <2> QED
    BY <1>1, <1>2, <1>3, <2>1, <2>3 DEF RootOf, leaves, prefix
<1>4. CASE ~(from <= to)
  <2>1. from # to /\ to <= from
    BY <1>4
  <2>2. RebuiltRoots(from, to, root, proof) = {}
    BY <2>1 DEF RebuiltRoots
  <2>3. RootFromConsistencyProof(from, to, root, proof) = {}
    BY <2>1, <2>2 DEF RootFromConsistencyProof
  <2> QED
    BY <1>4, <2>3
<1> QED
  BY <1>3, <1>4

\* Against any head a leaf is proved only by its audit path there, and that path proves
\* it against the head of its own log, for logs of every length and every list of
\* digests as a proof (root_from_inclusion_proof).
THEOREM OnlyAuditPaths == ProofSpec => []OnlyTheAuditPathProves
<1>1. ProofInv => OnlyTheAuditPathProves
  <2> SUFFICES ASSUME ProofInv, AskedFor("inclusion") PROVE OnlyTheAuditPathProves
    BY DEF OnlyTheAuditPathProves
  <2> DEFINE q == proofQuestion
  <2>1. q \in ProofQuestions /\ proved = Proved(q) /\ q.kind = "inclusion"
    BY DEF ProofInv, AskedFor
  <2>2. /\ q.proof \in Seq({q.proof[k] : k \in DOMAIN q.proof})
        /\ q.head \in Nat /\ q.size \in Nat /\ q.index \in Nat
    BY <2>1, ProofQuestionsAssumption
  <2>3. proved <=> RootOf(q.head) \in
                      RootFromInclusionProof(q.index, q.size, MerkleLeafHash(q.index + 1), q.proof)
    BY <2>1 DEF Proved
  <2> HIDE DEF q
  <2>4. /\ proved => q.index < q.head /\ q.proof = AuditPath(LeavesOf(q.head), q.index)
        /\ ~proved /\ q.head = q.size =>
              q.index >= q.size \/ q.proof # AuditPath(LeavesOf(q.head), q.index)
    BY <2>2, <2>3, InclusionAnswered
  <2> QED
    BY <2>4 DEF OnlyTheAuditPathProves, q
<1> QED
  BY <1>1, ProofInvariant, PTL

\* A head is proved consistent with a newer one exactly when it is a head of the same
\* history and the proof is the consistency path, for logs of every length
\* (root_from_consistency_proof).
THEOREM OnlyOneHistory == ProofSpec => []OnlyOneHistoryIsConsistent
<1>1. ProofInv => OnlyOneHistoryIsConsistent
  <2> SUFFICES ASSUME ProofInv, AskedFor("consistency") PROVE OnlyOneHistoryIsConsistent
    BY DEF OnlyOneHistoryIsConsistent
  <2> DEFINE q == proofQuestion
  <2>1. q \in ProofQuestions /\ proved = Proved(q) /\ q.kind = "consistency"
    BY DEF ProofInv, AskedFor
  <2>2. /\ q.proof \in Seq({q.proof[k] : k \in DOMAIN q.proof})
        /\ q.from \in Nat \ {0} /\ q.to \in Nat
    BY <2>1, ProofQuestionsAssumption
  <2>3. proved <=> RootOf(q.to) \in RootFromConsistencyProof(q.from, q.to, FirstRoot(q), q.proof)
    BY <2>1 DEF Proved
  <2> HIDE DEF q
  <2>4. proved <=> /\ q.from <= q.to /\ FirstRoot(q) = TreeHash(LeavesOf(q.from))
                   /\ q.proof = ConsistencyPath(LeavesOf(q.to), q.from)
    BY <2>2, <2>3, ConsistencyAnswered
  <2> QED
    BY <2>4 DEF OnlyOneHistoryIsConsistent, q
<1> QED
  BY <1>1, ProofInvariant, PTL

-----------------------------------------------------------------------------
(* Archives: the order of the paths. *)

LEMMA LeastDifference ==
    ASSUME NEW l \in Seq(Nat), NEW r \in Seq(Nat), l # r,
           ~(Len(l) < Len(r) /\ SubSeq(r, 1, Len(l)) = l),
           ~(Len(r) < Len(l) /\ SubSeq(l, 1, Len(r)) = r)
    PROVE  \E i \in DOMAIN l \cap DOMAIN r :
              l[i] # r[i] /\ \A j \in 1..(i - 1) : l[j] = r[j]
<1> DEFINE apart == {i \in 1..Len(l) : i <= Len(r) /\ l[i] # r[i]}
<1>1. apart # {}
  <2> SUFFICES ASSUME apart = {} PROVE FALSE
    OBVIOUS
  <2>1. \A i \in 1..Len(l) : i <= Len(r) => l[i] = r[i]
    <3> SUFFICES ASSUME NEW i \in 1..Len(l), i <= Len(r), l[i] # r[i] PROVE FALSE
      OBVIOUS
    <3>1. i \in apart
      BY ONLY i \in 1..Len(l), i <= Len(r), l[i] # r[i] DEF apart
    <3> QED
      BY ONLY <3>1, apart = {}
  <2>2. CASE Len(l) = Len(r)
    <3>1. \A i \in 1..Len(l) : l[i] = r[i]
      BY <2>1, <2>2
    <3>2. l = r
      BY ONLY <2>2, <3>1, l \in Seq(Nat), r \in Seq(Nat)
    <3> QED
      BY <3>2
  <2>3. CASE Len(l) < Len(r)
    <3>1. SubSeq(r, 1, Len(l)) = l
      BY <2>1, <2>3
    <3> QED
      BY <2>3, <3>1
  <2>4. CASE Len(r) < Len(l)
    <3>1. SubSeq(l, 1, Len(r)) = r
      BY <2>1, <2>4
    <3> QED
      BY <2>4, <3>1
  <2> QED
    BY <2>2, <2>3, <2>4
<1>2. apart \in SUBSET Nat
  OBVIOUS
<1>3. PICK i \in apart : \A j \in apart : i <= j
  <2> HIDE DEF apart
  <2> QED
    BY <1>1, <1>2, LeastElement
<1>4. ASSUME NEW j \in 1..(i - 1) PROVE l[j] = r[j]
  <2>0. i \in 1..Len(l) /\ i \in 1..Len(r) /\ Len(l) \in Nat /\ Len(r) \in Nat
    <3>1. Len(l) \in Nat /\ Len(r) \in Nat
      BY ONLY l \in Seq(Nat), r \in Seq(Nat)
    <3>2. i \in 1..Len(l) /\ i <= Len(r)
      BY ONLY i \in apart DEF apart
    <3> QED
      BY ONLY <3>1, <3>2
  <2>1. j \in 1..Len(l) /\ j \in 1..Len(r) /\ ~(i <= j)
    BY ONLY <2>0, j \in 1..(i - 1), SMTT(20)
  <2> QED
    BY <1>3, <2>1
<1> QED
  BY <1>3, <1>4

\* str::cmp orders texts strictly and totally.
LEMMA PathsCompare ==
    ASSUME NEW l \in Seq(Nat), NEW r \in Seq(Nat)
    PROVE  l = r \/ Before(l, r) \/ Before(r, l)
<1> SUFFICES ASSUME l # r, ~(Len(l) < Len(r) /\ SubSeq(r, 1, Len(l)) = l),
                    ~(Len(r) < Len(l) /\ SubSeq(l, 1, Len(r)) = r)
             PROVE  Before(l, r) \/ Before(r, l)
  BY DEF Before
<1>1. PICK i \in DOMAIN l \cap DOMAIN r : l[i] # r[i] /\ \A j \in 1..(i - 1) : l[j] = r[j]
  BY LeastDifference
<1>2. l[i] < r[i] \/ r[i] < l[i]
  BY <1>1
<1> QED
  BY <1>1, <1>2 DEF Before

LEMMA NoPathBeforeItself ==
    ASSUME NEW l \in Seq(Nat)
    PROVE  ~Before(l, l)
  BY DEF Before

LEMMA PathsChain ==
    ASSUME NEW l \in Seq(Nat), NEW m \in Seq(Nat), NEW r \in Seq(Nat), Before(l, m), Before(m, r)
    PROVE  Before(l, r)
<1> DEFINE Shorter(a, b) == Len(a) < Len(b) /\ SubSeq(b, 1, Len(a)) = a
           Less(a, b, i) == i \in DOMAIN a \cap DOMAIN b /\ a[i] < b[i]
                            /\ \A j \in 1..(i - 1) : a[j] = b[j]
<1>0. \A a, b \in Seq(Nat) :
         /\ Before(a, b) <=> Shorter(a, b) \/ \E i : Less(a, b, i)
         /\ Shorter(a, b) => \A i \in 1..Len(a) : i \in 1..Len(b) /\ a[i] = b[i]
  <2> SUFFICES ASSUME NEW a \in Seq(Nat), NEW b \in Seq(Nat)
               PROVE  /\ Before(a, b) <=> Shorter(a, b) \/ \E i : Less(a, b, i)
                      /\ Shorter(a, b) => \A i \in 1..Len(a) : i \in 1..Len(b) /\ a[i] = b[i]
    OBVIOUS
  <2>1. Before(a, b) <=> Shorter(a, b) \/ \E i : Less(a, b, i)
    BY Zenon DEF Before
  <2>2. ASSUME Shorter(a, b), NEW i \in 1..Len(a) PROVE i \in 1..Len(b) /\ a[i] = b[i]
    BY <2>2
  <2> QED
    BY <2>1, <2>2
<1>1. CASE Shorter(l, m) /\ Shorter(m, r)
  <2>1. Len(l) < Len(r) /\ \A i \in 1..Len(l) : r[i] = l[i]
    BY <1>0, <1>1
  <2>2. Shorter(l, r)
    BY <2>1
  <2> QED
    BY <1>0, <2>2
<1>2. ASSUME NEW i, Less(l, m, i), Shorter(m, r) PROVE Before(l, r)
  <2>0. \A j \in 1..Len(m) : j \in 1..Len(r) /\ m[j] = r[j]
    BY <1>0, <1>2
  <2>2. i \in 1..Len(m) /\ i \in 1..Len(l) /\ i \in 1..Len(r) /\ m[i] = r[i] /\ l[i] < r[i]
    BY <1>2, <2>0
  <2>3. ASSUME NEW j \in 1..(i - 1) PROVE l[j] = r[j]
    <3>1. j \in 1..Len(m) /\ l[j] = m[j]
      BY <1>2, <2>2
    <3> QED
      BY <2>0, <3>1
  <2>1. Less(l, r, i)
    BY <2>2, <2>3
  <2> QED
    BY <1>0, <2>1
<1>3. ASSUME NEW i, Shorter(l, m), Less(m, r, i) PROVE Before(l, r)
  <2>0. \A j \in 1..Len(l) : j \in 1..Len(m) /\ l[j] = m[j]
    BY <1>0, <1>3
  <2>3. i \in 1..Len(m) /\ i \in 1..Len(r) /\ m[i] < r[i]
    BY <1>3
  <2>4. \A j \in 1..(i - 1) : j \in 1..Len(m) /\ m[j] = r[j]
    BY <1>3, <2>3
  <2>1. CASE i <= Len(l)
    <3>2. i \in 1..Len(l) /\ l[i] < r[i]
      BY <2>0, <2>1, <2>3
    <3>3. \A j \in 1..(i - 1) : l[j] = r[j]
      BY <2>0, <2>3, <2>4, <3>2
    <3>1. Less(l, r, i)
      BY <2>3, <3>2, <3>3
    <3> QED
      BY <1>0, <3>1
  <2>2. CASE ~(i <= Len(l))
    <3>1. Len(l) < Len(r) /\ \A j \in 1..Len(l) : r[j] = l[j]
      <4>1. Len(l) < i
        BY <2>2, <2>3
      <4> QED
        BY <2>0, <2>3, <2>4, <4>1
    <3>2. Shorter(l, r)
      BY <3>1
    <3> QED
      BY <1>0, <3>2
  <2> QED
    BY <2>1, <2>2
<1>4. ASSUME NEW i, NEW k, Less(l, m, i), Less(m, r, k) PROVE Before(l, r)
  <2>0. /\ i \in 1..Len(l) /\ i \in 1..Len(m) /\ l[i] < m[i]
        /\ k \in 1..Len(m) /\ k \in 1..Len(r) /\ m[k] < r[k]
    BY <1>4
  <2>1. PICK least \in 1..Len(m) : least <= i /\ least <= k /\ (least = i \/ least = k)
    BY <2>0
  <2>2. \A j \in 1..(least - 1) : j \in 1..(i - 1) /\ j \in 1..(k - 1)
    BY <2>0, <2>1
  <2>3. \A j \in 1..(least - 1) : l[j] = r[j]
    BY <1>4, <2>2
  <2>4. least \in 1..Len(l) /\ least \in 1..Len(r)
    BY <2>0, <2>1
  <2>5. l[least] < r[least]
    <3>1. CASE i < k
      <4>2. i \in 1..(k - 1)
        BY <2>0, <3>1
      <4>1. m[i] = r[i]
        BY <1>4, <4>2
      <4>3. least = i
        BY <2>0, <2>1, <3>1
      <4> QED
        BY <2>0, <4>1, <4>3
    <3>2. CASE k < i
      <4>2. k \in 1..(i - 1)
        BY ONLY <2>0, <3>2, l \in Seq(Nat)
      <4>1. l[k] = m[k]
        BY <1>4, <4>2
      <4>3. least = k
        BY ONLY <2>0, <2>1, <3>2, m \in Seq(Nat)
      <4> QED
        BY <2>0, <4>1, <4>3
    <3>3. CASE i = k
      <4>1. least = i
        BY <2>1, <3>3
      <4>2. l[i] \in Nat /\ m[i] \in Nat
        BY ONLY <2>0, l \in Seq(Nat), m \in Seq(Nat), SMTT(20)
      <4>3. r[i] \in Nat
        BY ONLY <2>0, <3>3, r \in Seq(Nat), SMTT(20)
      <4>4. l[i] < m[i] /\ m[i] < r[i]
        BY <2>0, <3>3
      <4> QED
        BY ONLY <4>1, <4>2, <4>3, <4>4
    <3> QED
      BY <2>0, <3>1, <3>2, <3>3
  <2>6. Less(l, r, least)
    BY <2>3, <2>4, <2>5
  <2> QED
    BY <1>0, <2>6
<1>5. /\ Shorter(l, m) \/ \E i : Less(l, m, i)
      /\ Shorter(m, r) \/ \E i : Less(m, r, i)
  BY <1>0
<1> QED
  BY <1>1, <1>2, <1>3, <1>4, <1>5

Texts(E) == \A e \in E : e.path \in Seq(Nat)

\* What stands in front of the k-th entry, and that entry.
Front(s, k) ==
    {j \in DOMAIN s : Before(s[j].path, s[k].path) \/ (s[j].path = s[k].path /\ j <= k)}

LEMMA FrontsGrow ==
    ASSUME NEW E, Texts(E), NEW s \in Seq(E), NEW j \in DOMAIN s, NEW k \in DOMAIN s, j # k
    PROVE  \/ Front(s, j) \subseteq Front(s, k) /\ k \notin Front(s, j)
           \/ Front(s, k) \subseteq Front(s, j) /\ j \notin Front(s, k)
<1>0. \A i \in DOMAIN s : i \in Nat /\ s[i].path \in Seq(Nat)
  BY DEF Texts
<1>1. ASSUME NEW a \in DOMAIN s, NEW b \in DOMAIN s,
             Before(s[a].path, s[b].path) \/ (s[a].path = s[b].path /\ a < b)
      PROVE  Front(s, a) \subseteq Front(s, b) /\ b \notin Front(s, a)
  <2>1. ASSUME NEW i \in Front(s, a) PROVE i \in Front(s, b)
    <3>1. i \in DOMAIN s /\ (Before(s[i].path, s[a].path) \/ (s[i].path = s[a].path /\ i <= a))
      BY Zenon DEF Front
    <3>2. Before(s[i].path, s[b].path) \/ (s[i].path = s[b].path /\ i <= b)
      <4>1. CASE Before(s[i].path, s[a].path)
        BY <1>0, <1>1, <3>1, <4>1, PathsChain
      <4>2. CASE s[i].path = s[a].path /\ i <= a
        BY <1>0, <1>1, <3>1, <4>2
      <4> QED
        BY <3>1, <4>1, <4>2
    <3> QED
      BY <3>1, <3>2, Zenon DEF Front
  <2>2. ASSUME b \in Front(s, a) PROVE FALSE
    <3>1. Before(s[b].path, s[a].path) \/ (s[b].path = s[a].path /\ b <= a)
      BY <2>2, Zenon DEF Front
    <3>2. ~Before(s[a].path, s[a].path) /\ ~Before(s[b].path, s[b].path)
      BY <1>0, NoPathBeforeItself
    <3>3. CASE Before(s[a].path, s[b].path)
      BY <1>0, <3>1, <3>2, <3>3, PathsChain
    <3>4. CASE s[a].path = s[b].path /\ a < b
      BY <1>0, <3>1, <3>2, <3>4
    <3> QED
      BY <1>1, <3>3, <3>4
  <2> QED
    BY <2>1, <2>2
<1>2. \/ Before(s[j].path, s[k].path) \/ (s[j].path = s[k].path /\ j < k)
      \/ Before(s[k].path, s[j].path) \/ (s[k].path = s[j].path /\ k < j)
  <2>1. s[j].path = s[k].path \/ Before(s[j].path, s[k].path) \/ Before(s[k].path, s[j].path)
    BY <1>0, PathsCompare
  <2>2. j < k \/ k < j
    BY <1>0
  <2> QED
    BY <2>1, <2>2
<1> QED
  BY <1>1, <1>2

\* Every place is taken by one entry, and those of other paths stand in the order of the paths.
LEMMA EveryPlaceTaken ==
    ASSUME NEW E, Texts(E), NEW s \in Seq(E)
    PROVE  /\ \A j, k \in DOMAIN s : Position(s, j) = Position(s, k) => j = k
           /\ \A k \in DOMAIN s : Position(s, k) \in DOMAIN s
           /\ \A p \in DOMAIN s : \E k \in DOMAIN s : Position(s, k) = p
           /\ \A j, k \in DOMAIN s :
                 Before(s[j].path, s[k].path) => Position(s, j) < Position(s, k)
<1> DEFINE n == Len(s)
<1>0. n \in Nat /\ DOMAIN s = 1..n
  OBVIOUS
<1> HIDE DEF n
<1>1. n \in Nat /\ DOMAIN s = 1..n /\ IsFiniteSet(1..n) /\ Cardinality(1..n) = n
  <2>1. IsFiniteSet(1..n) /\ Cardinality(1..n) = IF 1 > n THEN 0 ELSE n - 1 + 1
    BY <1>0, FS_Interval
  <2> QED
    BY <1>0, <2>1
<1>2. \A k \in DOMAIN s :
         /\ Front(s, k) \subseteq DOMAIN s /\ k \in Front(s, k)
         /\ IsFiniteSet(Front(s, k)) /\ Cardinality(Front(s, k)) = Position(s, k)
         /\ Position(s, k) \in 1..n
  <2> SUFFICES ASSUME NEW k \in DOMAIN s
               PROVE  /\ Front(s, k) \subseteq DOMAIN s /\ k \in Front(s, k)
                      /\ IsFiniteSet(Front(s, k)) /\ Cardinality(Front(s, k)) = Position(s, k)
                      /\ Position(s, k) \in 1..n
    OBVIOUS
  <2>1. Front(s, k) \subseteq DOMAIN s
    BY DEF Front
  <2>2. k \in Front(s, k)
    BY <1>1 DEF Front
  <2>3. IsFiniteSet(Front(s, k)) /\ Cardinality(Front(s, k)) <= n
    BY <1>1, <2>1, FS_Subset
  <2>4. Cardinality(Front(s, k)) = Position(s, k)
    BY Zenon DEF Front, Position
  <2>5. Cardinality(Front(s, k)) \in Nat /\ Cardinality(Front(s, k)) # 0
    BY <2>2, <2>3, FS_CardinalityType, FS_EmptySet
  <2> QED
    BY <1>1, <2>1, <2>2, <2>3, <2>4, <2>5
<1>3. ASSUME NEW a \in DOMAIN s, NEW b \in DOMAIN s,
             Front(s, a) \subseteq Front(s, b), b \notin Front(s, a)
      PROVE  Position(s, a) < Position(s, b)
  <2>1. Cardinality(Front(s, a)) <= Cardinality(Front(s, b))
        /\ Cardinality(Front(s, a)) # Cardinality(Front(s, b))
    <3>1. Front(s, a) # Front(s, b)
      BY <1>2, <1>3
    <3> QED
      BY <1>2, <1>3, <3>1, FS_Subset
  <2> QED
    BY <1>1, <1>2, <2>1
<1>4. \A j, k \in DOMAIN s : Position(s, j) = Position(s, k) => j = k
  <2> SUFFICES ASSUME NEW j \in DOMAIN s, NEW k \in DOMAIN s, j # k,
                      Position(s, j) = Position(s, k)
               PROVE  FALSE
    OBVIOUS
  <2>1. Position(s, j) < Position(s, k) \/ Position(s, k) < Position(s, j)
    BY <1>3, FrontsGrow
  <2> QED
    BY <1>1, <1>2, <2>1
<1>5. ASSUME NEW p \in DOMAIN s PROVE \E k \in DOMAIN s : Position(s, k) = p
  <2> DEFINE place == [k \in 1..n |-> Position(s, k)]
  <2>1. place \in [1..n -> 1..n] /\ \A j, k \in 1..n : place[j] = place[k] => j = k
    BY <1>1, <1>2, <1>4
  <2>2. place \in Surjection(1..n, 1..n)
    <3> HIDE DEF place
    <3>1. place \in Injection(1..n, 1..n)
      BY <2>1 DEF Injection, IsInjective
    <3> QED
      BY <1>1, <3>1, FS_Injection
  <2>3. \E k \in 1..n : place[k] = p
    BY <1>1, <2>2 DEF Surjection
  <2> QED
    BY <1>1, <2>3
<1>6. ASSUME NEW j \in DOMAIN s, NEW k \in DOMAIN s, Before(s[j].path, s[k].path)
      PROVE  Position(s, j) < Position(s, k)
  <2>0. s[j].path \in Seq(Nat) /\ s[k].path \in Seq(Nat)
    BY DEF Texts
  <2>1. j \in Front(s, k)
    BY <1>6, Zenon DEF Front
  <2>2. j # k
    BY <1>6, <2>0, NoPathBeforeItself
  <2>3. Front(s, j) \subseteq Front(s, k) /\ k \notin Front(s, j)
    BY <2>1, <2>2, FrontsGrow
  <2> QED
    BY <1>3, <2>3
<1> QED
  BY <1>1, <1>2, <1>4, <1>5, <1>6

\* Sorted arranges the entries, and strictly if their paths are distinct.
LEMMA SortedInOrder ==
    ASSUME NEW E, Texts(E), NEW s \in Seq(E)
    PROVE  /\ Sorted(s) \in Seq(E) /\ Len(Sorted(s)) = Len(s)
           /\ \A k \in DOMAIN s :
                 Position(s, k) \in DOMAIN s /\ Sorted(s)[Position(s, k)] = s[k]
           /\ \A p \in DOMAIN s : \E k \in DOMAIN s : p = Position(s, k) /\ Sorted(s)[p] = s[k]
           /\ PathsDistinct(s) =>
                 \A p, q \in DOMAIN s : p < q => Before(Sorted(s)[p].path, Sorted(s)[q].path)
<1> DEFINE at(p) == CHOOSE k \in DOMAIN s : Position(s, k) = p
<1>0. Len(s) \in Nat /\ DOMAIN s = 1..Len(s)
  OBVIOUS
<1>1. \A p \in DOMAIN s : at(p) \in DOMAIN s /\ Position(s, at(p)) = p
  BY EveryPlaceTaken
<1>2. Sorted(s) = [p \in DOMAIN s |-> s[at(p)]]
  BY Zenon DEF Sorted
<1>3. \A k \in DOMAIN s : Position(s, k) \in DOMAIN s /\ at(Position(s, k)) = k
  BY <1>1, EveryPlaceTaken
<1> HIDE DEF at
<1>4. Sorted(s) \in Seq(E) /\ Len(Sorted(s)) = Len(s)
  BY <1>0, <1>1, <1>2
<1>5. ASSUME PathsDistinct(s), NEW p \in DOMAIN s, NEW q \in DOMAIN s, p < q
      PROVE  Before(Sorted(s)[p].path, Sorted(s)[q].path)
  <2>1. s[at(p)].path \in Seq(Nat) /\ s[at(q)].path \in Seq(Nat)
    BY <1>1 DEF Texts
  <2>2. s[at(p)].path # s[at(q)].path
    <3>1. at(p) # at(q)
      BY <1>0, <1>1, <1>5
    <3> QED
      BY <1>1, <1>5, <3>1 DEF PathsDistinct
  <2>3. ~Before(s[at(q)].path, s[at(p)].path)
    <3>1. ~(q < p)
      BY <1>0, <1>5
    <3> QED
      BY <1>1, <3>1, EveryPlaceTaken
  <2>4. Before(s[at(p)].path, s[at(q)].path)
    BY <2>1, <2>2, <2>3, PathsCompare
  <2> QED
    BY <1>2, <2>4
<1> QED
  BY <1>1, <1>2, <1>3, <1>4, <1>5

\* The order in which entries were added does not matter.
Reordered(r, s, order) ==
    /\ order \in [DOMAIN s -> DOMAIN s] /\ \A k \in DOMAIN s : \E j \in DOMAIN s : order[j] = k
    /\ r = [k \in DOMAIN s |-> s[order[k]]]

LEMMA OrderIsForgotten ==
    ASSUME NEW E, Texts(E), NEW s \in Seq(E), NEW order, NEW r, Reordered(r, s, order)
    PROVE  /\ r \in Seq(E) /\ Len(r) = Len(s)
           /\ PathsDistinct(r) <=> PathsDistinct(s)
           /\ PathsDistinct(s) => Sorted(r) = Sorted(s)
<1> USE DEF Reordered
<1>0. Len(s) \in Nat /\ DOMAIN s = 1..Len(s) /\ IsFiniteSet(DOMAIN s)
  <2>1. Len(s) \in Nat /\ DOMAIN s = 1..Len(s)
    OBVIOUS
  <2> QED
    BY <2>1, FS_Interval
<1>1. r \in Seq(E) /\ Len(r) = Len(s) /\ DOMAIN r = DOMAIN s
  BY <1>0
<1>2. \A j, k \in DOMAIN s : order[j] = order[k] => j = k
  <2>1. order \in Surjection(DOMAIN s, DOMAIN s)
    BY DEF Surjection
  <2>2. order \in Injection(DOMAIN s, DOMAIN s)
    BY <1>0, <2>1, FS_SurjSameCardinalityImpliesInj
  <2> QED
    BY <2>2 DEF Injection, IsInjective
<1>3. PathsDistinct(r) <=> PathsDistinct(s)
  <2>1. ASSUME PathsDistinct(s) PROVE PathsDistinct(r)
    BY <1>1, <1>2, <2>1 DEF PathsDistinct
  <2>2. ASSUME PathsDistinct(r), NEW i \in DOMAIN s, NEW j \in DOMAIN s, s[i].path = s[j].path
        PROVE  i = j
    <3>1. PICK a \in DOMAIN s : order[a] = i
      OBVIOUS
    <3>2. PICK b \in DOMAIN s : order[b] = j
      OBVIOUS
    <3>3. a = b
      BY <1>1, <2>2, <3>1, <3>2 DEF PathsDistinct
    <3> QED
      BY <3>1, <3>2, <3>3
  <2> QED
    BY <2>1, <2>2 DEF PathsDistinct
<1>4. ASSUME PathsDistinct(s), NEW k \in DOMAIN s PROVE Position(r, k) = Position(s, order[k])
  <2> DEFINE image == [j \in Front(r, k) |-> order[j]]
  <2>1. \A j \in DOMAIN s : j \in Front(r, k) <=> j = k \/ Before(s[order[j]].path, s[order[k]].path)
    <3> SUFFICES ASSUME NEW j \in DOMAIN s
                 PROVE  j \in Front(r, k)
                            <=> j = k \/ Before(s[order[j]].path, s[order[k]].path)
      OBVIOUS
    <3>1. j \in Front(r, k) <=> \/ Before(r[j].path, r[k].path)
                                \/ (r[j].path = r[k].path /\ j <= k)
      BY <1>1, Zenon DEF Front
    <3>2. r[j] = s[order[j]] /\ r[k] = s[order[k]]
      OBVIOUS
    <3>3. r[j].path = r[k].path <=> j = k
      BY <1>1, <1>3, <1>4 DEF PathsDistinct
    <3>4. k <= k
      BY <1>0
    <3> QED
      BY <3>1, <3>2, <3>3, <3>4
  <2>2. \A i \in DOMAIN s : i \in Front(s, order[k])
                               <=> i = order[k] \/ Before(s[i].path, s[order[k]].path)
    <3> SUFFICES ASSUME NEW i \in DOMAIN s
                 PROVE  i \in Front(s, order[k])
                            <=> i = order[k] \/ Before(s[i].path, s[order[k]].path)
      OBVIOUS
    <3>1. i \in Front(s, order[k]) <=> \/ Before(s[i].path, s[order[k]].path)
                                        \/ (s[i].path = s[order[k]].path /\ i <= order[k])
      BY Zenon DEF Front
    <3>2. s[i].path = s[order[k]].path <=> i = order[k]
      BY <1>4 DEF PathsDistinct
    <3>3. order[k] <= order[k]
      BY <1>0
    <3> QED
      BY <3>1, <3>2, <3>3
  <2>3. Front(r, k) \subseteq DOMAIN s /\ Front(s, order[k]) \subseteq DOMAIN s
    BY <1>1 DEF Front
  <2>4. image \in [Front(r, k) -> Front(s, order[k])]
    BY <2>1, <2>2, <2>3
  <2>5. \A i \in Front(s, order[k]) : \E j \in Front(r, k) : image[j] = i
    BY <2>1, <2>2, <2>3
  <2>6. \A i, j \in Front(r, k) : image[i] = image[j] => i = j
    BY <1>2, <2>3
  <2>7. image \in Bijection(Front(r, k), Front(s, order[k]))
    <3> HIDE DEF image
    <3> QED
      <4>1. image \in Injection(Front(r, k), Front(s, order[k]))
        BY ONLY <2>4, <2>6 DEF Injection, IsInjective
      <4>2. image \in Surjection(Front(r, k), Front(s, order[k]))
        BY ONLY <2>4, <2>5 DEF Surjection
      <4> QED
        BY <4>1, <4>2 DEF Bijection
  <2>8. Cardinality(Front(r, k)) = Cardinality(Front(s, order[k]))
    <3>1. ExistsBijection(Front(r, k), Front(s, order[k]))
      BY <2>7 DEF ExistsBijection
    <3>2. IsFiniteSet(Front(r, k))
      BY <1>0, <2>3, FS_Subset
    <3> QED
      BY <3>1, <3>2, FS_Bijection
  <2> QED
    BY <2>8, Zenon DEF Front, Position
<1>5. ASSUME PathsDistinct(s) PROVE Sorted(r) = Sorted(s)
  <2>1. Sorted(r) \in Seq(E) /\ Len(Sorted(r)) = Len(s) /\ Sorted(s) \in Seq(E) /\ Len(Sorted(s)) = Len(s)
    BY <1>1, SortedInOrder
  <2>2. ASSUME NEW p \in 1..Len(s) PROVE Sorted(r)[p] = Sorted(s)[p]
    <3>0. p \in DOMAIN r /\ r \in Seq(E)
      BY <1>0, <1>1
    <3>1. PICK k \in DOMAIN s : p = Position(r, k) /\ Sorted(r)[p] = r[k]
      BY <1>1, <3>0, SortedInOrder
    <3>2. order[k] \in DOMAIN s /\ p = Position(s, order[k]) /\ r[k] = s[order[k]]
      BY <1>4, <1>5, <3>1
    <3>3. Sorted(s)[p] = s[order[k]]
      <4>1. PICK i : i = order[k]
        OBVIOUS
      <4>2. Sorted(s)[Position(s, i)] = s[i]
        BY ONLY <3>2, <4>1, Texts(E), s \in Seq(E), SortedInOrder
      <4> QED
        BY <3>2, <4>1, <4>2
    <3> QED
      BY <3>1, <3>2, <3>3
  <2> QED
    BY <2>1, <2>2, SMTT(20)
<1> QED
  BY <1>1, <1>3, <1>5

-----------------------------------------------------------------------------
(* Archives: the sections. *)

LEMMA LocalsGrow ==
    ASSUME NEW t, Len(t) \in Nat
    PROVE  /\ LocalSections(t)[0] = <<>>
           /\ \A k \in 1..Len(t) :
                 LocalSections(t)[k] = LocalSections(t)[k - 1] \o LocalSection(t[k])
<1> DEFINE Grows(f, m) == f = [k \in 0..m |-> IF k = 0 THEN <<>>
                                              ELSE f[k - 1] \o LocalSection(t[k])]
           soFar == {m \in Nat : \E f : Grows(f, m)}
<1>1. 0 \in soFar
  <2>1. Grows([k \in 0..0 |-> <<>>], 0)
    OBVIOUS
  <2> QED
    BY <2>1
<1>2. ASSUME NEW m \in Nat, m \in soFar PROVE m + 1 \in soFar
  <2>1. PICK f : Grows(f, m)
    BY <1>2
  <2> DEFINE g == [k \in 0..(m + 1) |-> IF k <= m THEN f[k] ELSE f[m] \o LocalSection(t[m + 1])]
  <2>2. ASSUME NEW k \in 0..(m + 1)
        PROVE  g[k] = IF k = 0 THEN <<>> ELSE g[k - 1] \o LocalSection(t[k])
    <3>1. CASE k <= m
      <4>1. k \in 0..m /\ g[k] = f[k] /\ (k # 0 => g[k - 1] = f[k - 1])
        BY <3>1
      <4>2. f[k] = IF k = 0 THEN <<>> ELSE f[k - 1] \o LocalSection(t[k])
        BY <2>1, <4>1
      <4> QED
        BY <4>1, <4>2
    <3>2. CASE ~(k <= m)
      <4>1. k = m + 1 /\ k # 0 /\ k - 1 = m /\ g[m] = f[m] /\ g[k] = f[m] \o LocalSection(t[k])
        BY <3>2
      <4> QED
        BY <4>1
    <3> QED
      BY <3>1, <3>2
  <2>3. Grows(g, m + 1)
    BY <2>2
  <2> HIDE DEF Grows, g
  <2> QED
    BY <2>3
<1>3. \E f : Grows(f, Len(t))
  <2>1. Nat \subseteq soFar
    <3> HIDE DEF soFar
    <3> QED
      BY <1>1, <1>2, EveryNumber
  <2> QED
    BY <2>1
<1>4. LocalSections(t) = CHOOSE f : Grows(f, Len(t))
  BY Zenon DEF LocalSections
<1>5. Grows(LocalSections(t), Len(t))
  <2> HIDE DEF Grows
  <2> QED
    BY <1>3, <1>4
<1>6. ASSUME NEW k \in 0..Len(t)
      PROVE  LocalSections(t)[k] = IF k = 0 THEN <<>> ELSE LocalSections(t)[k - 1] \o LocalSection(t[k])
  BY <1>5
<1>7. 0 \in 0..Len(t) /\ \A k \in 1..Len(t) : k \in 0..Len(t) /\ k # 0
  OBVIOUS
<1> QED
  BY <1>6, <1>7

LEMMA CentralsGrow ==
    ASSUME NEW t, Len(t) \in Nat
    PROVE  /\ CentralSections(t)[0] = <<>>
           /\ \A k \in 1..Len(t) :
                 CentralSections(t)[k]
                     = CentralSections(t)[k - 1] \o CentralSection(t[k], OffsetOf(t, k))
<1> DEFINE Grows(f, m) == f = [k \in 0..m |-> IF k = 0 THEN <<>>
                                  ELSE f[k - 1] \o CentralSection(t[k], OffsetOf(t, k))]
           soFar == {m \in Nat : \E f : Grows(f, m)}
<1>1. 0 \in soFar
  <2>1. Grows([k \in 0..0 |-> <<>>], 0)
    OBVIOUS
  <2> QED
    BY <2>1
<1>2. ASSUME NEW m \in Nat, m \in soFar PROVE m + 1 \in soFar
  <2>1. PICK f : Grows(f, m)
    BY <1>2
  <2> DEFINE g == [k \in 0..(m + 1) |->
                      IF k <= m THEN f[k]
                      ELSE f[m] \o CentralSection(t[m + 1], OffsetOf(t, m + 1))]
  <2>2. ASSUME NEW k \in 0..(m + 1)
        PROVE  g[k] = IF k = 0 THEN <<>> ELSE g[k - 1] \o CentralSection(t[k], OffsetOf(t, k))
    <3>1. CASE k <= m
      <4>1. k \in 0..m /\ g[k] = f[k] /\ (k # 0 => g[k - 1] = f[k - 1])
        BY <3>1
      <4>2. f[k] = IF k = 0 THEN <<>> ELSE f[k - 1] \o CentralSection(t[k], OffsetOf(t, k))
        BY <2>1, <4>1
      <4> QED
        BY <4>1, <4>2
    <3>2. CASE ~(k <= m)
      <4>1. k = m + 1 /\ k # 0 /\ k - 1 = m /\ g[m] = f[m]
        BY <3>2
      <4>2. g[m + 1] = f[m] \o CentralSection(t[m + 1], OffsetOf(t, m + 1))
        OBVIOUS
      <4> HIDE DEF g
      <4> QED
        BY <4>1, <4>2
    <3> QED
      BY <3>1, <3>2
  <2>3. Grows(g, m + 1)
    BY <2>2
  <2> HIDE DEF Grows, g
  <2> QED
    BY <2>3
<1>3. \E f : Grows(f, Len(t))
  <2>1. Nat \subseteq soFar
    <3> HIDE DEF soFar
    <3> QED
      BY <1>1, <1>2, EveryNumber
  <2> QED
    BY <2>1
<1>4. CentralSections(t) = CHOOSE f : Grows(f, Len(t))
  BY Zenon DEF CentralSections
<1>5. Grows(CentralSections(t), Len(t))
  <2> HIDE DEF Grows
  <2> QED
    BY <1>3, <1>4
<1>6. ASSUME NEW k \in 0..Len(t)
      PROVE  CentralSections(t)[k] = IF k = 0 THEN <<>> ELSE CentralSections(t)[k - 1] \o CentralSection(t[k], OffsetOf(t, k))
  BY <1>5
<1>7. 0 \in 0..Len(t) /\ \A k \in 1..Len(t) : k \in 0..Len(t) /\ k # 0
  OBVIOUS
<1> QED
  BY <1>6, <1>7

\* What is read of the central directory after a header more.
Turn(bytes, soFar) ==
    UNION {{[next |-> turn.next, entries |-> Append(before.entries, turn.entry)] :
               turn \in CentralEntry(bytes, before.next)} : before \in soFar}

LEMMA DirectoryGrows ==
    ASSUME NEW bytes, NEW start, NEW count \in Nat
    PROVE  \E read : /\ CentralEntries(bytes, start, count) = read[count]
                     /\ read[0] = {[next |-> start, entries |-> <<>>]}
                     /\ \A k \in 1..count : read[k] = Turn(bytes, read[k - 1])
<1> DEFINE Grows(f, m) == f = [k \in 0..m |-> IF k = 0 THEN {[next |-> start, entries |-> <<>>]}
                                              ELSE Turn(bytes, f[k - 1])]
           soFar == {m \in Nat : \E f : Grows(f, m)}
<1>1. 0 \in soFar
  <2>1. Grows([k \in 0..0 |-> {[next |-> start, entries |-> <<>>]}], 0)
    OBVIOUS
  <2> QED
    BY <2>1
<1>2. ASSUME NEW m \in Nat, m \in soFar PROVE m + 1 \in soFar
  <2>1. PICK f : Grows(f, m)
    BY <1>2
  <2> DEFINE g == [k \in 0..(m + 1) |-> IF k <= m THEN f[k] ELSE Turn(bytes, f[m])]
  <2>2. ASSUME NEW k \in 0..(m + 1)
        PROVE  g[k] = IF k = 0 THEN {[next |-> start, entries |-> <<>>]}
                      ELSE Turn(bytes, g[k - 1])
    <3>1. CASE k <= m
      <4>1. k \in 0..m /\ g[k] = f[k] /\ (k # 0 => g[k - 1] = f[k - 1])
        BY <3>1
      <4>2. f[k] = IF k = 0 THEN {[next |-> start, entries |-> <<>>]} ELSE Turn(bytes, f[k - 1])
        BY <2>1, <4>1
      <4> QED
        BY <4>1, <4>2
    <3>2. CASE ~(k <= m)
      <4>1. k = m + 1 /\ k # 0 /\ k - 1 = m /\ g[m] = f[m] /\ g[k] = Turn(bytes, f[m])
        BY <3>2
      <4> QED
        BY <4>1
    <3> QED
      BY <3>1, <3>2
  <2>3. Grows(g, m + 1)
    BY <2>2
  <2> HIDE DEF Grows, g
  <2> QED
    BY <2>3
<1>3. \E f : Grows(f, count)
  <2>1. Nat \subseteq soFar
    <3> HIDE DEF soFar
    <3> QED
      BY <1>1, <1>2, EveryNumber
  <2> QED
    BY <2>1
<1> DEFINE read == CHOOSE f : Grows(f, count)
<1>4. CentralEntries(bytes, start, count) = read[count]
  BY Zenon DEF CentralEntries, Turn
<1>5. Grows(read, count)
  <2> HIDE DEF Grows
  <2> QED
    BY <1>3
<1> HIDE DEF read
<1>6. ASSUME NEW k \in 0..count
      PROVE  read[k] = IF k = 0 THEN {[next |-> start, entries |-> <<>>]}
                       ELSE Turn(bytes, read[k - 1])
  BY <1>5
<1>7. 0 \in 0..count /\ \A k \in 1..count : k \in 0..count /\ k # 0
  OBVIOUS
<1> QED
  BY <1>4, <1>6, <1>7

\* A string stands in another, behind so many of its cells.
Standing(bytes, at, part) ==
    /\ at \in Nat /\ at + Len(part) <= Len(bytes)
    /\ \A i \in 1..Len(part) : bytes[at + i] = part[i]

LEMMA OneBehindOther ==
    ASSUME NEW T, NEW a \in Seq(T), NEW b \in Seq(T), NEW m, m = Len(a)
    PROVE  /\ a \o b \in Seq(T) /\ Len(a \o b) = m + Len(b) /\ m \in Nat /\ Len(b) \in Nat
           /\ \A i \in 1..m : (a \o b)[i] = a[i]
           /\ \A i \in 1..Len(b) : (a \o b)[m + i] = b[i]
<1>1. a \o b \in Seq(T) /\ Len(a \o b) = m + Len(b) /\ m \in Nat /\ Len(b) \in Nat
  OBVIOUS
<1>2. \A i \in 1..m : (a \o b)[i] = a[i]
  OBVIOUS
<1>3. ASSUME NEW i \in 1..Len(b) PROVE (a \o b)[m + i] = b[i]
  <2>1. m + i \in 1..(Len(a) + Len(b)) /\ ~(m + i <= Len(a)) /\ m + i - Len(a) = i
    OBVIOUS
  <2> QED
    BY <2>1
<1> QED
  BY <1>1, <1>2, <1>3

LEMMA LocalSectionCells ==
    ASSUME NEW S, NEW e \in [path : Seq(Nat), bytes : Seq(S)], NEW T, S \subseteq T,
           \A v \in Nat : Byte(v) \in T, \A i \in 1..LocalLen : Cell(LocalHeader(e), i) \in T
    PROVE  /\ LocalSection(e) \in Seq(T)
           /\ Len(LocalSection(e)) = LocalLen + Len(e.path) + Len(e.bytes)
           /\ \A i \in 1..LocalLen : LocalSection(e)[i] = Cell(LocalHeader(e), i)
           /\ \A i \in 1..Len(e.path) : LocalSection(e)[LocalLen + i] = Byte(e.path[i])
           /\ \A i \in 1..Len(e.bytes) :
                 LocalSection(e)[LocalLen + Len(e.path) + i] = e.bytes[i]
<1> DEFINE header == Header(LocalHeader(e), LocalLen)
           name == NameCells(e.path)
<1>1. header \in Seq(T) /\ Len(header) = LocalLen /\ \A i \in 1..LocalLen : header[i] = Cell(LocalHeader(e), i)
  <2> HIDE DEF LocalLen
  <2>1. header = [i \in 1..LocalLen |-> Cell(LocalHeader(e), i)]
    BY Zenon DEF Header
  <2>2. LocalLen \in Nat
    BY DEF LocalLen
  <2> HIDE DEF header
  <2> QED
    BY <2>1, <2>2
<1>2. name \in Seq(T) /\ Len(name) = Len(e.path) /\ \A i \in 1..Len(e.path) : name[i] = Byte(e.path[i])
  <2>1. name = [i \in DOMAIN e.path |-> Byte(e.path[i])]
    BY Zenon DEF NameCells
  <2>2. e.path \in Seq(Nat) /\ DOMAIN e.path = 1..Len(e.path) /\ Len(e.path) \in Nat
    OBVIOUS
  <2> HIDE DEF name
  <2> QED
    BY <2>1, <2>2
<1>3. e.bytes \in Seq(T) /\ Len(e.bytes) \in Nat /\ Len(e.path) \in Nat
  OBVIOUS
<1>4. LocalSection(e) = (header \o name) \o e.bytes
  BY Zenon DEF LocalSection
<1>5. LocalLen \in Nat
  BY DEF LocalLen
<1> HIDE DEF header, name
<1>6. /\ header \o name \in Seq(T) /\ Len(header \o name) = LocalLen + Len(e.path)
      /\ \A i \in 1..LocalLen : (header \o name)[i] = Cell(LocalHeader(e), i)
      /\ \A i \in 1..Len(e.path) : (header \o name)[LocalLen + i] = Byte(e.path[i])
  <2>1. /\ header \o name \in Seq(T) /\ Len(header \o name) = LocalLen + Len(name)
        /\ \A i \in 1..LocalLen : (header \o name)[i] = header[i]
        /\ \A i \in 1..Len(name) : (header \o name)[LocalLen + i] = name[i]
    BY <1>1, <1>2, OneBehindOther
  <2> QED
    BY <1>1, <1>2, <2>1
<1> DEFINE front == header \o name
<1>7. /\ front \in Seq(T) /\ Len(front) = LocalLen + Len(e.path)
      /\ \A i \in 1..LocalLen : front[i] = Cell(LocalHeader(e), i)
      /\ \A i \in 1..Len(e.path) : front[LocalLen + i] = Byte(e.path[i])
      /\ LocalSection(e) = front \o e.bytes
  BY <1>4, <1>6
<1> DEFINE m == LocalLen + Len(e.path)
<1> HIDE DEF front
<1>8. /\ LocalSection(e) \in Seq(T) /\ Len(LocalSection(e)) = m + Len(e.bytes)
      /\ \A i \in 1..m : LocalSection(e)[i] = front[i]
      /\ \A i \in 1..Len(e.bytes) : LocalSection(e)[m + i] = e.bytes[i]
  <2>1. PICK rest : rest = e.bytes
    OBVIOUS
  <2>2. front \in Seq(T) /\ rest \in Seq(T) /\ m = Len(front)
    BY <1>3, <1>7, <2>1
  <2>3. /\ front \o rest \in Seq(T) /\ Len(front \o rest) = m + Len(rest)
        /\ \A i \in 1..m : (front \o rest)[i] = front[i]
        /\ \A i \in 1..Len(rest) : (front \o rest)[m + i] = rest[i]
    BY ONLY <2>2, OneBehindOther, SMTT(20)
  <2> QED
    BY <1>7, <2>1, <2>3
<1>9. /\ \A i \in 1..LocalLen : i \in 1..m
      /\ \A i \in 1..Len(e.path) : LocalLen + i \in 1..m
  BY <1>3, <1>5
<1> QED
  BY <1>7, <1>8, <1>9

\* The cells of a name and of a header are among these.
CellsFit(T, header, length) ==
    (\A v \in Nat : Byte(v) \in T) /\ \A i \in 1..length : Cell(header, i) \in T

LEMMA CentralSectionCells ==
    ASSUME NEW path \in Seq(Nat), NEW offset, NEW e, e.path = path, NEW T,
           CellsFit(T, CentralHeader(e, offset), CentralLen)
    PROVE  /\ CentralSection(e, offset) \in Seq(T)
           /\ Len(CentralSection(e, offset)) = CentralLen + Len(path)
           /\ \A i \in 1..CentralLen :
                 CentralSection(e, offset)[i] = Cell(CentralHeader(e, offset), i)
           /\ \A i \in 1..Len(path) : CentralSection(e, offset)[CentralLen + i] = Byte(path[i])
<1> USE DEF CellsFit
<1> DEFINE header == Header(CentralHeader(e, offset), CentralLen)
           name == NameCells(path)
<1>1. /\ header \in Seq(T) /\ Len(header) = CentralLen
      /\ \A i \in 1..CentralLen : header[i] = Cell(CentralHeader(e, offset), i)
  <2> HIDE DEF CentralLen
  <2>1. header = [i \in 1..CentralLen |-> Cell(CentralHeader(e, offset), i)]
    BY Zenon DEF Header
  <2>2. CentralLen \in Nat
    BY DEF CentralLen
  <2> HIDE DEF header
  <2> QED
    BY <2>1, <2>2
<1>2. name \in Seq(T) /\ Len(name) = Len(path) /\ \A i \in 1..Len(path) : name[i] = Byte(path[i])
  <2>1. name = [i \in DOMAIN path |-> Byte(path[i])]
    BY Zenon DEF NameCells
  <2>2. DOMAIN path = 1..Len(path) /\ Len(path) \in Nat
    OBVIOUS
  <2> HIDE DEF name
  <2> QED
    BY <2>1, <2>2
<1>4. CentralSection(e, offset) = header \o name
  BY Zenon DEF CentralSection
<1>5. CentralLen \in Nat /\ Len(path) \in Nat
  BY DEF CentralLen
<1> HIDE DEF header, name
<1>6. /\ header \o name \in Seq(T) /\ Len(header \o name) = CentralLen + Len(name)
      /\ \A i \in 1..CentralLen : (header \o name)[i] = header[i]
      /\ \A i \in 1..Len(name) : (header \o name)[CentralLen + i] = name[i]
  <2>1. header \in Seq(T) /\ name \in Seq(T) /\ CentralLen = Len(header)
    BY <1>1, <1>2
  <2> QED
    BY ONLY <2>1, OneBehindOther
<1> QED
  BY <1>1, <1>2, <1>4, <1>6

\* What stands in a string stands in one that continues it.
LEMMA StandsOn ==
    ASSUME NEW T, NEW a \in Seq(T), NEW b \in Seq(T), NEW part \in Seq(T), NEW at, Standing(a, at, part)
    PROVE  Standing(a \o b, at, part)
<1>1. at \in Nat /\ at + Len(part) <= Len(a) /\ \A i \in 1..Len(part) : a[at + i] = part[i]
  BY DEF Standing
<1>2. /\ Len(a \o b) = Len(a) + Len(b) /\ Len(a) \in Nat /\ Len(b) \in Nat /\ Len(part) \in Nat
      /\ \A i \in 1..Len(a) : (a \o b)[i] = a[i]
  BY OneBehindOther
<1>3. \A i \in 1..Len(part) : at + i \in 1..Len(a)
  BY <1>1, <1>2
<1>4. \A i \in 1..Len(part) : (a \o b)[at + i] = part[i]
  BY <1>1, <1>2, <1>3
<1> QED
  BY <1>1, <1>2, <1>4 DEF Standing

LEMMA StandsBehind ==
    ASSUME NEW T, NEW a \in Seq(T), NEW b \in Seq(T), NEW part \in Seq(T), NEW at, Standing(b, at, part)
    PROVE  Standing(a \o b, Len(a) + at, part)
<1>1. at \in Nat /\ at + Len(part) <= Len(b) /\ \A i \in 1..Len(part) : b[at + i] = part[i]
  BY DEF Standing
<1>2. /\ Len(a \o b) = Len(a) + Len(b) /\ Len(a) \in Nat /\ Len(b) \in Nat /\ Len(part) \in Nat
      /\ \A i \in 1..Len(b) : (a \o b)[Len(a) + i] = b[i]
  BY OneBehindOther
<1>3. \A i \in 1..Len(part) : at + i \in 1..Len(b) /\ Len(a) + at + i = Len(a) + (at + i)
  BY <1>1, <1>2
<1>4. ASSUME NEW i \in 1..Len(part) PROVE (a \o b)[Len(a) + at + i] = part[i]
  <2>1. at + i \in 1..Len(b) /\ Len(a) + at + i = Len(a) + (at + i)
    BY <1>3
  <2>2. (a \o b)[Len(a) + (at + i)] = b[at + i]
    BY <1>2, <2>1
  <2> QED
    BY <1>1, <2>1, <2>2
<1> QED
  BY <1>1, <1>2, <1>4 DEF Standing

\* Sections one behind the other each stand behind those before it.
LEMMA SectionsStand ==
    ASSUME NEW T, NEW n \in Nat, NEW part, \A k \in 1..n : part[k] \in Seq(T),
           NEW whole, whole[0] = <<>>, \A k \in 1..n : whole[k] = whole[k - 1] \o part[k]
    PROVE  /\ \A k \in 0..n : whole[k] \in Seq(T)
           /\ \A k \in 1..n : /\ Len(whole[k]) = Len(whole[k - 1]) + Len(part[k])
                              /\ Standing(whole[n], Len(whole[k - 1]), part[k])
<1> DEFINE Stand(m) == /\ \A k \in 0..m : whole[k] \in Seq(T)
                       /\ \A k \in 1..m : /\ Len(whole[k]) = Len(whole[k - 1]) + Len(part[k])
                                          /\ Standing(whole[m], Len(whole[k - 1]), part[k])
           standing == {m \in Nat : m <= n => Stand(m)}
<1>1. Stand(0)
  <2>1. \A k \in 0..0 : k = 0
    OBVIOUS
  <2>2. <<>> \in Seq(T)
    OBVIOUS
  <2>3. 1..0 = {}
    OBVIOUS
  <2> QED
    BY <2>1, <2>2, <2>3
<1>2. ASSUME NEW m \in Nat, m + 1 <= n, Stand(m) PROVE Stand(m + 1)
  <2>1. /\ m \in 0..m /\ m + 1 \in 1..n /\ whole[m] \in Seq(T) /\ part[m + 1] \in Seq(T)
        /\ whole[m + 1] = whole[m] \o part[m + 1]
    <3>1. m \in 0..m /\ m + 1 \in 1..n /\ m + 1 - 1 = m
      BY <1>2
    <3>2. whole[m] \in Seq(T)
      BY <1>2, <3>1
    <3> HIDE DEF Stand, standing
    <3>3. part[m + 1] \in Seq(T)
      BY <3>1, Zenon
    <3>4. PICK k \in 1..n : k = m + 1
      BY <3>1
    <3>5. whole[k] = whole[k - 1] \o part[k]
      BY Zenon
    <3>6. k - 1 = m
      BY ONLY <3>4, m \in Nat
    <3> QED
      BY <3>1, <3>2, <3>3, <3>4, <3>5, <3>6
  <2>2. whole[m + 1] \in Seq(T) /\ Len(whole[m + 1]) = Len(whole[m]) + Len(part[m + 1])
    BY <2>1, OneBehindOther
  <2>3. Standing(whole[m + 1], Len(whole[m]), part[m + 1])
    <3>1. Standing(part[m + 1], 0, part[m + 1])
      BY <2>1 DEF Standing
    <3>2. Standing(whole[m + 1], Len(whole[m]) + 0, part[m + 1])
      BY <2>1, <3>1, StandsBehind
    <3>3. Len(whole[m]) + 0 = Len(whole[m])
      BY <2>1
    <3> QED
      BY <3>2, <3>3
  <2>4. ASSUME NEW k \in 1..m
        PROVE  /\ Len(whole[k]) = Len(whole[k - 1]) + Len(part[k])
               /\ Standing(whole[m + 1], Len(whole[k - 1]), part[k])
    <3>1. Len(whole[k]) = Len(whole[k - 1]) + Len(part[k]) /\ Standing(whole[m], Len(whole[k - 1]), part[k])
      BY <1>2, Zenon
    <3>2. part[k] \in Seq(T)
      <4>1. k \in 1..n
        BY <1>2
      <4> QED
        BY <4>1
    <3> QED
      BY <2>1, <3>1, <3>2, StandsOn
  <2>5. \A k \in 0..(m + 1) : whole[k] \in Seq(T)
    <3>1. \A k \in 0..(m + 1) : k \in 0..m \/ k = m + 1
      OBVIOUS
    <3>2. \A k \in 0..m : whole[k] \in Seq(T)
      BY <1>2, Zenon
    <3> QED
      BY <2>2, <3>1, <3>2
  <2>6. \A k \in 1..(m + 1) : k \in 1..m \/ (k = m + 1 /\ k - 1 = m)
    OBVIOUS
  <2> QED
    BY <2>2, <2>3, <2>4, <2>5, <2>6
<1> HIDE DEF Stand
<1>3. 0 \in standing /\ \A m \in Nat : m \in standing => m + 1 \in standing
  <2>1. 0 \in standing
    BY <1>1
  <2>2. ASSUME NEW m \in Nat, m \in standing PROVE m + 1 \in standing
    BY <1>2, <2>2
  <2> QED
    BY <2>1, <2>2
<1>4. Nat \subseteq standing
  <2> HIDE DEF standing
  <2> QED
    BY <1>3, EveryNumber
<1>5. Stand(n)
  BY <1>4
<1> QED
  BY <1>5, Zenon DEF Stand

\* What an archive of sorted entries looks like: where the sections start, and what they are.
Laid(bytes, t, locals, centrals) ==
    /\ locals \in [0..Len(t) -> Nat] /\ centrals \in [0..Len(t) -> Nat]
    /\ locals[0] = 0 /\ centrals[0] = locals[Len(t)] /\ centrals[0] <= centrals[Len(t)]
    /\ Len(bytes) = centrals[Len(t)] + EocdLen
    /\ \A k \in 1..Len(t) :
          /\ locals[k] = locals[k - 1] + LocalLen + Len(t[k].path) + Len(t[k].bytes)
          /\ centrals[k] = centrals[k - 1] + CentralLen + Len(t[k].path)
          /\ Standing(bytes, locals[k - 1], LocalSection(t[k]))
          /\ Standing(bytes, centrals[k - 1], CentralSection(t[k], locals[k - 1]))
    /\ Standing(bytes, centrals[Len(t)],
                Header(Eocd(Len(t), centrals[Len(t)] - centrals[0], centrals[0]), EocdLen))

LocalStarts(t) == [k \in 0..Len(t) |-> Len(LocalSections(t)[k])]
CentralStarts(t) ==
    [k \in 0..Len(t) |-> Len(LocalSections(t)[Len(t)]) + Len(CentralSections(t)[k])]

LEMMA HeaderCells ==
    ASSUME NEW header, NEW length \in Nat, NEW T, \A i \in 1..length : Cell(header, i) \in T
    PROVE  Header(header, length) \in Seq(T) /\ Len(Header(header, length)) = length
<1> DEFINE cells == [i \in 1..length |-> Cell(header, i)]
<1>1. Header(header, length) = cells
  BY Zenon DEF Header
<1>2. cells \in [1..length -> T]
  BY Zenon
<1> HIDE DEF cells
<1>3. cells \in Seq(T) /\ Len(cells) = length
  BY ONLY <1>2, length \in Nat
<1> QED
  BY <1>1, <1>3, Zenon

LEMMA SectionsLaid ==
    ASSUME NEW S, NEW t \in Seq([path : Seq(Nat), bytes : Seq(S)]), NEW n, n = Len(t),
           NEW locals, locals = LocalSections(t)[n], NEW centrals, centrals = CentralSections(t)[n],
           NEW end, end = Header(Eocd(n, Len(centrals), Len(locals)), EocdLen)
    PROVE  /\ \E T : locals \o centrals \o end \in Seq(T)
           /\ Laid(locals \o centrals \o end, t, LocalStarts(t), CentralStarts(t))
<1> DEFINE entry == [path : Seq(Nat), bytes : Seq(S)]
<1>19. t \in Seq(entry)
  OBVIOUS
<1>0. \A e \in entry : /\ e.path \in Seq(Nat) /\ e.bytes \in Seq(S)
                        /\ Len(e.path) \in Nat /\ Len(e.bytes) \in Nat
  OBVIOUS
<1> HIDE DEF entry
<1>1. n \in Nat /\ n = Len(t) /\ \A k \in 1..n : t[k] \in entry
  BY <1>19
<1> DEFINE L == LocalSections(t)
           C == CentralSections(t)
           T == S \cup {Byte(v) : v \in Nat} \cup {end[i] : i \in 1..EocdLen}
                \cup {Cell(LocalHeader(e), i) : e \in entry, i \in 1..LocalLen}
                \cup {Cell(CentralHeader(e, offset), i) : e \in entry, offset \in Nat,
                                                         i \in 1..CentralLen}
           part == [k \in 1..n |-> LocalSection(t[k])]
           row == [k \in 1..n |-> CentralSection(t[k], OffsetOf(t, k))]
<1>2. /\ S \subseteq T /\ (\A v \in Nat : Byte(v) \in T) /\ (\A i \in 1..EocdLen : end[i] \in T)
      /\ \A e \in entry : \A i \in 1..LocalLen : Cell(LocalHeader(e), i) \in T
      /\ \A e \in entry : \A offset \in Nat : \A i \in 1..CentralLen :
            Cell(CentralHeader(e, offset), i) \in T
  <2> HIDE DEF EocdLen, LocalLen, CentralLen
  <2>1. S \subseteq T
    OBVIOUS
  <2>2. \A v \in Nat : Byte(v) \in T
    OBVIOUS
  <2>3. \A i \in 1..EocdLen : end[i] \in T
    OBVIOUS
  <2>4. \A e \in entry : \A i \in 1..LocalLen : Cell(LocalHeader(e), i) \in T
    OBVIOUS
  <2>5. \A e \in entry : \A offset \in Nat : \A i \in 1..CentralLen :
            Cell(CentralHeader(e, offset), i) \in T
    OBVIOUS
  <2> QED
    BY <2>1, <2>2, <2>3, <2>4, <2>5
<1> HIDE DEF T
<1>3. \A k \in 1..n : /\ part[k] = LocalSection(t[k]) /\ part[k] \in Seq(T)
                       /\ Len(part[k]) = LocalLen + Len(t[k].path) + Len(t[k].bytes)
  <2> SUFFICES ASSUME NEW k \in 1..n
               PROVE  /\ part[k] = LocalSection(t[k]) /\ part[k] \in Seq(T)
                      /\ Len(part[k]) = LocalLen + Len(t[k].path) + Len(t[k].bytes)
    OBVIOUS
  <2>1. part[k] = LocalSection(t[k]) /\ t[k] \in entry
    BY <1>1
  <2>2. \A i \in 1..LocalLen : Cell(LocalHeader(t[k]), i) \in T
    BY <1>2, <2>1
  <2>3. t[k] \in [path : Seq(Nat), bytes : Seq(S)]
    BY <2>1 DEF entry
  <2>4. LocalSection(t[k]) \in Seq(T)
        /\ Len(LocalSection(t[k])) = LocalLen + Len(t[k].path) + Len(t[k].bytes)
    BY ONLY <1>2, <2>2, <2>3, LocalSectionCells
  <2> HIDE DEF part
  <2> QED
    BY <2>1, <2>4
<1>4. L[0] = <<>> /\ \A k \in 1..n : L[k] = L[k - 1] \o part[k]
  BY <1>1, LocalsGrow
<1> HIDE DEF part
<1>5. /\ \A k \in 0..n : L[k] \in Seq(T)
      /\ \A k \in 1..n : /\ Len(L[k]) = Len(L[k - 1]) + Len(part[k])
                         /\ Standing(L[n], Len(L[k - 1]), part[k])
  <2> HIDE DEF L
  <2> QED
    BY <1>1, <1>3, <1>4, SectionsStand
<1>6. \A k \in 1..n : OffsetOf(t, k) = Len(L[k - 1]) /\ OffsetOf(t, k) \in Nat
  <2> SUFFICES ASSUME NEW k \in 1..n PROVE OffsetOf(t, k) = Len(L[k - 1]) /\ OffsetOf(t, k) \in Nat
    OBVIOUS
  <2>1. OffsetOf(t, k) = Len(L[k - 1])
    BY Zenon DEF OffsetOf
  <2>2. L[k - 1] \in Seq(T)
    BY <1>1, <1>5
  <2> HIDE DEF L
  <2> QED
    BY <2>1, <2>2
<1>7. \A k \in 1..n : /\ row[k] = CentralSection(t[k], OffsetOf(t, k)) /\ row[k] \in Seq(T)
                       /\ Len(row[k]) = CentralLen + Len(t[k].path)
  <2> SUFFICES ASSUME NEW k \in 1..n
               PROVE  /\ row[k] = CentralSection(t[k], OffsetOf(t, k)) /\ row[k] \in Seq(T)
                      /\ Len(row[k]) = CentralLen + Len(t[k].path)
    OBVIOUS
  <2>1. t[k] \in entry /\ t[k].path \in Seq(Nat) /\ OffsetOf(t, k) \in Nat
    BY <1>0, <1>1, <1>6
  <2>2. CellsFit(T, CentralHeader(t[k], OffsetOf(t, k)), CentralLen)
    BY <1>2, <2>1 DEF CellsFit
  <2> QED
    BY <1>2, <2>1, <2>2, CentralSectionCells
<1>8. C[0] = <<>> /\ \A k \in 1..n : C[k] = C[k - 1] \o row[k]
  BY <1>1, CentralsGrow
<1> HIDE DEF row
<1>9. /\ \A k \in 0..n : C[k] \in Seq(T)
      /\ \A k \in 1..n : /\ Len(C[k]) = Len(C[k - 1]) + Len(row[k])
                         /\ Standing(C[n], Len(C[k - 1]), row[k])
  <2> HIDE DEF C
  <2> QED
    BY <1>1, <1>7, <1>8, SectionsStand
<1> HIDE DEF L, C
<1>10. end \in Seq(T) /\ Len(end) = EocdLen
  <2> DEFINE header == Eocd(n, Len(centrals), Len(locals))
  <2>1. EocdLen \in Nat
    BY DEF EocdLen
  <2>2. end = [i \in 1..EocdLen |-> Cell(header, i)]
    BY Zenon DEF Header
  <2> HIDE DEF header, EocdLen
  <2>3. \A i \in 1..EocdLen : Cell(header, i) \in T
    <3> SUFFICES ASSUME NEW i \in 1..EocdLen PROVE Cell(header, i) \in T
      OBVIOUS
    <3>1. end[i] = Cell(header, i)
      BY <2>2, Zenon
    <3> QED
      BY <1>2, <3>1, Zenon
  <2>4. Header(header, EocdLen) \in Seq(T) /\ Len(Header(header, EocdLen)) = EocdLen
    BY <2>1, <2>3, HeaderCells
  <2>5. end = Header(header, EocdLen)
    BY Zenon DEF header
  <2> QED
    BY <2>4, <2>5, Zenon
<1>11. locals = L[n] /\ centrals = C[n] /\ locals \in Seq(T) /\ centrals \in Seq(T)
  BY <1>1, <1>5, <1>9 DEF L, C
<1> DEFINE both == locals \o centrals
           bytes == both \o end
           starts == LocalStarts(t)
           rows == CentralStarts(t)
<1>12. both \in Seq(T) /\ Len(both) = Len(locals) + Len(centrals) /\ Len(locals) \in Nat /\ Len(centrals) \in Nat
  BY <1>11, OneBehindOther
<1> HIDE DEF both
<1>13. bytes \in Seq(T) /\ Len(bytes) = Len(locals) + Len(centrals) + EocdLen
  <2>0. both \in Seq(T) /\ end \in Seq(T) /\ Len(both) = Len(both)
    BY <1>10, <1>12
  <2>1. both \o end \in Seq(T) /\ Len(both \o end) = Len(both) + Len(end)
    BY ONLY <2>0, OneBehindOther
  <2>2. bytes = both \o end
    OBVIOUS
  <2> QED
    BY ONLY <1>10, <1>12, <2>1, <2>2
<1> HIDE DEF bytes
<1>14. /\ \A k \in 0..n : starts[k] = Len(L[k]) /\ starts[k] \in Nat
       /\ \A k \in 0..n : rows[k] = Len(locals) + Len(C[k]) /\ rows[k] \in Nat
       /\ starts \in [0..n -> Nat] /\ rows \in [0..n -> Nat]
  <2>1. \A k \in 0..n : Len(L[k]) \in Nat /\ Len(C[k]) \in Nat
    BY <1>5, <1>9
  <2>2. starts = [k \in 0..n |-> Len(L[k])] /\ rows = [k \in 0..n |-> Len(locals) + Len(C[k])]
    BY Zenon DEF LocalStarts, CentralStarts, L, C
  <2> HIDE DEF starts, rows
  <2>3. /\ \A k \in 0..n : starts[k] = Len(L[k])
        /\ \A k \in 0..n : rows[k] = Len(locals) + Len(C[k])
    BY <2>2
  <2>4. \A k \in 0..n : Len(L[k]) \in Nat /\ Len(locals) + Len(C[k]) \in Nat
    <3> SUFFICES ASSUME NEW k \in 0..n
                 PROVE  Len(L[k]) \in Nat /\ Len(locals) + Len(C[k]) \in Nat
      OBVIOUS
    <3>1. Len(L[k]) \in Nat /\ Len(C[k]) \in Nat
      BY <2>1
    <3> QED
      BY ONLY <1>12, <3>1
  <2>5. starts \in [0..n -> Nat] /\ rows \in [0..n -> Nat]
    BY <2>2, <2>4
  <2> QED
    BY <2>3, <2>4, <2>5
<1>15. starts[0] = 0 /\ rows[0] = starts[n] /\ Len(bytes) = rows[n] + EocdLen
       /\ rows[n] = Len(locals) + Len(centrals) /\ rows[0] = Len(locals)
  <2>1. 0 \in 0..n /\ n \in 0..n /\ Len(L[0]) = 0 /\ Len(C[0]) = 0
    BY <1>1, <1>4, <1>8
  <2> HIDE DEF starts, rows
  <2>2. /\ starts[0] = 0 /\ starts[n] = Len(locals)
        /\ rows[0] = Len(locals) + 0 /\ rows[n] = Len(locals) + Len(centrals)
    BY <1>11, <1>14, <2>1
  <2> QED
    BY <1>12, <1>13, <2>2
<1> HIDE DEF starts, rows
<1>16. ASSUME NEW k \in 1..n
       PROVE  /\ starts[k] = starts[k - 1] + LocalLen + Len(t[k].path) + Len(t[k].bytes)
              /\ rows[k] = rows[k - 1] + CentralLen + Len(t[k].path)
              /\ Standing(bytes, starts[k - 1], LocalSection(t[k]))
              /\ Standing(bytes, rows[k - 1], CentralSection(t[k], starts[k - 1]))
  <2>0. /\ k \in 0..n /\ k - 1 \in 0..n /\ Len(L[k - 1]) \in Nat /\ Len(C[k - 1]) \in Nat
        /\ Len(t[k].path) \in Nat /\ Len(t[k].bytes) \in Nat /\ LocalLen \in Nat /\ CentralLen \in Nat
    <3>1. k \in 0..n /\ k - 1 \in 0..n
      BY <1>1
    <3>2. LocalLen \in Nat /\ CentralLen \in Nat
      BY DEF LocalLen, CentralLen
    <3>3. Len(L[k - 1]) \in Nat /\ Len(C[k - 1]) \in Nat
      BY ONLY <1>5, <1>9, <3>1
    <3>4. t[k] \in entry
      BY ONLY <1>1, k \in 1..n
    <3>5. Len(t[k].path) \in Nat /\ Len(t[k].bytes) \in Nat
      BY ONLY <1>0, <3>4
    <3> QED
      BY <3>1, <3>2, <3>3, <3>5
  <2>1. Len(L[k]) = Len(L[k - 1]) + (LocalLen + Len(t[k].path) + Len(t[k].bytes))
    BY <1>3, <1>5
  <2>2. Len(C[k]) = Len(C[k - 1]) + (CentralLen + Len(t[k].path))
    BY <1>7, <1>9
  <2>3. starts[k] = Len(L[k]) /\ starts[k - 1] = Len(L[k - 1])
        /\ rows[k] = Len(locals) + Len(C[k]) /\ rows[k - 1] = Len(locals) + Len(C[k - 1])
    BY <1>14, <2>0
  <2>4. Standing(bytes, starts[k - 1], LocalSection(t[k]))
    <3>1. Standing(locals, Len(L[k - 1]), part[k])
      BY <1>5, <1>11
    <3>2. Standing(both, Len(L[k - 1]), part[k])
      BY <1>3, <1>11, <3>1, StandsOn DEF both
    <3>3. Standing(bytes, Len(L[k - 1]), part[k])
      BY <1>3, <1>10, <1>12, <3>2, StandsOn DEF bytes
    <3> QED
      BY <1>3, <2>3, <3>3
  <2>5. Standing(bytes, rows[k - 1], CentralSection(t[k], starts[k - 1]))
    <3>1. Standing(centrals, Len(C[k - 1]), row[k])
      BY <1>9, <1>11
    <3>2. Standing(both, Len(locals) + Len(C[k - 1]), row[k])
      BY <1>7, <1>11, <3>1, StandsBehind DEF both
    <3>3. Standing(bytes, Len(locals) + Len(C[k - 1]), row[k])
      BY <1>7, <1>10, <1>12, <3>2, StandsOn DEF bytes
    <3>4. row[k] = CentralSection(t[k], starts[k - 1])
      BY <1>6, <1>7, <2>3
    <3> QED
      BY <2>3, <3>3, <3>4
  <2>6. starts[k] = starts[k - 1] + LocalLen + Len(t[k].path) + Len(t[k].bytes)
    <3> DEFINE a == Len(L[k - 1]) b == LocalLen c == Len(t[k].path) d == Len(t[k].bytes)
               x == starts[k - 1] y == starts[k]
    <3>1. a \in Nat /\ b \in Nat /\ c \in Nat /\ d \in Nat /\ x = a /\ y = a + (b + c + d)
      BY ONLY <2>0, <2>1, <2>3
    <3> HIDE DEF a, b, c, d, x, y
    <3>2. y = x + b + c + d
      BY ONLY <3>1
    <3> QED
      BY ONLY <3>2 DEF b, c, d, x, y
  <2>7. rows[k] = rows[k - 1] + CentralLen + Len(t[k].path)
    <3> DEFINE base == Len(locals) a == Len(C[k - 1]) b == CentralLen c == Len(t[k].path)
               x == rows[k - 1] y == rows[k]
    <3>1. /\ base \in Nat /\ a \in Nat /\ b \in Nat /\ c \in Nat
          /\ x = base + a /\ y = base + (a + (b + c))
      BY ONLY <1>12, <2>0, <2>2, <2>3
    <3> HIDE DEF base, a, b, c, x, y
    <3>2. y = x + b + c
      BY ONLY <3>1
    <3> QED
      BY ONLY <3>2 DEF b, c, x, y
  <2> QED
    BY <2>4, <2>5, <2>6, <2>7
<1>17. Standing(bytes, rows[n], Header(Eocd(n, rows[n] - rows[0], rows[0]), EocdLen))
  <2>1. rows[n] - rows[0] = Len(centrals) /\ rows[0] = Len(locals)
    BY <1>12, <1>15
  <2>2. end = Header(Eocd(n, rows[n] - rows[0], rows[0]), EocdLen)
    BY <2>1
  <2>3. Standing(end, 0, end)
    BY <1>10 DEF Standing
  <2>4. Standing(bytes, Len(both) + 0, end)
    BY <1>10, <1>12, <2>3, StandsBehind DEF bytes
  <2>5. Len(both) + 0 = rows[n]
    BY <1>12, <1>15
  <2> QED
    BY <2>2, <2>4, <2>5
<1>18. Laid(bytes, t, starts, rows)
  <2>1. rows[0] <= rows[n]
    BY ONLY <1>12, <1>15
  <2> QED
    BY <1>14, <2>1, <1>15, <1>16, <1>17 DEF Laid
<1>20. bytes = locals \o centrals \o end
  BY DEF both, bytes
<1> QED
  BY <1>13, <1>18, <1>20 DEF starts, rows

-----------------------------------------------------------------------------
(* Archives: an archive reads back. *)

LEMMA SliceOfStanding ==
    ASSUME NEW T, NEW bytes \in Seq(T), NEW P, NEW part \in Seq(P), NEW at, Standing(bytes, at, part)
    PROVE  Slice(bytes, at, Len(part)) = part
<1>1. /\ at \in Nat /\ at + Len(part) <= Len(bytes) /\ \A i \in 1..Len(part) : bytes[at + i] = part[i]
      /\ Len(part) \in Nat /\ Len(bytes) \in Nat
  BY DEF Standing
<1> DEFINE slice == SubSeq(bytes, at + 1, at + Len(part))
<1>2. slice \in Seq(T) /\ Len(slice) = Len(part) /\ \A i \in 1..Len(part) : slice[i] = bytes[at + i]
  BY <1>1
<1> HIDE DEF slice
<1>3. \A i \in 1..Len(part) : slice[i] = part[i]
  BY <1>1, <1>2
<1>4. slice = part
  BY <1>2, <1>3
<1> QED
  BY <1>4 DEF Slice, slice

\* A part that stands in a string has its own parts stand there.
LEMMA PartStands ==
    ASSUME NEW bytes, Len(bytes) \in Nat, NEW part, NEW at, Standing(bytes, at, part),
           Len(part) \in Nat, NEW m \in Nat, NEW inner, Len(inner) \in Nat,
           m + Len(inner) <= Len(part), \A i \in 1..Len(inner) : part[m + i] = inner[i]
    PROVE  Standing(bytes, at + m, inner)
<1>1. at \in Nat /\ at + Len(part) <= Len(bytes) /\ \A i \in 1..Len(part) : bytes[at + i] = part[i]
  BY DEF Standing
<1>2. ASSUME NEW i \in 1..Len(inner) PROVE bytes[at + m + i] = inner[i]
  <2>1. m + i \in 1..Len(part) /\ at + m + i = at + (m + i)
    BY <1>1
  <2> QED
    BY <1>1, <2>1
<1>3. at + m \in Nat /\ at + m + Len(inner) <= Len(bytes)
  BY <1>1
<1> QED
  BY <1>2, <1>3 DEF Standing

\* The parts of a local section, where it stands.
LEMMA LocalParts ==
    ASSUME NEW S, NEW e \in [path : Seq(Nat), bytes : Seq(S)],
           NEW T, NEW bytes \in Seq(T), NEW at, Standing(bytes, at, LocalSection(e))
    PROVE  /\ at \in Nat /\ at + LocalLen + Len(e.path) + Len(e.bytes) <= Len(bytes)
           /\ bytes[at + 1] = Cell(LocalHeader(e), 1)
           /\ Standing(bytes, at + LocalLen, NameCells(e.path))
           /\ Standing(bytes, at + LocalLen + Len(e.path), e.bytes)
<1> DEFINE U == S \cup {Byte(v) : v \in Nat} \cup {Cell(LocalHeader(e), i) : i \in 1..LocalLen}
           section == LocalSection(e)
<1>1. S \subseteq U /\ (\A v \in Nat : Byte(v) \in U) /\ \A i \in 1..LocalLen : Cell(LocalHeader(e), i) \in U
  OBVIOUS
<1> HIDE DEF U
<1>2. /\ section \in Seq(U) /\ Len(section) = LocalLen + Len(e.path) + Len(e.bytes)
      /\ \A i \in 1..LocalLen : section[i] = Cell(LocalHeader(e), i)
      /\ \A i \in 1..Len(e.path) : section[LocalLen + i] = Byte(e.path[i])
      /\ \A i \in 1..Len(e.bytes) : section[LocalLen + Len(e.path) + i] = e.bytes[i]
  BY <1>1, LocalSectionCells
<1>3. Len(e.path) \in Nat /\ Len(e.bytes) \in Nat /\ LocalLen \in Nat /\ 1 \in 1..LocalLen
  BY DEF LocalLen
<1> HIDE DEF section
<1>4. Len(section) \in Nat /\ Len(bytes) \in Nat
  BY <1>2
<1>5. at \in Nat /\ at + Len(section) <= Len(bytes) /\ \A i \in 1..Len(section) : bytes[at + i] = section[i]
  BY DEF Standing, section
<1>6. bytes[at + 1] = Cell(LocalHeader(e), 1)
  <2>1. 1 \in 1..Len(section)
    BY <1>2, <1>3
  <2> QED
    BY <1>2, <1>3, <1>5, <2>1
<1>7. /\ Len(NameCells(e.path)) = Len(e.path)
      /\ \A i \in 1..Len(e.path) : NameCells(e.path)[i] = Byte(e.path[i])
  <2>1. NameCells(e.path) = [i \in DOMAIN e.path |-> Byte(e.path[i])]
    BY Zenon DEF NameCells
  <2>2. DOMAIN e.path = 1..Len(e.path) /\ Len(e.path) \in Nat
    OBVIOUS
  <2> QED
    BY <2>1, <2>2
<1>9. Standing(bytes, at, section)
  BY DEF section
<1>8. Standing(bytes, at + LocalLen, NameCells(e.path))
  <2>1. LocalLen + Len(NameCells(e.path)) <= Len(section)
    BY <1>2, <1>3, <1>7
  <2>2. \A i \in 1..Len(NameCells(e.path)) : section[LocalLen + i] = NameCells(e.path)[i]
    BY <1>2, <1>7
  <2>3. Len(NameCells(e.path)) \in Nat
    BY <1>3, <1>7
  <2> QED
    BY <1>3, <1>4, <1>9, <2>1, <2>2, <2>3, PartStands
<1>10. Standing(bytes, at + LocalLen + Len(e.path), e.bytes)
  <2> DEFINE m == LocalLen + Len(e.path)
  <2>1. m \in Nat /\ m + Len(e.bytes) <= Len(section) /\ at + m = at + LocalLen + Len(e.path)
    BY <1>2, <1>3, <1>5
  <2>2. \A i \in 1..Len(e.bytes) : section[m + i] = e.bytes[i]
    BY <1>2
  <2> HIDE DEF m
  <2>3. Standing(bytes, at + m, e.bytes)
    BY <1>3, <1>4, <1>9, <2>1, <2>2, PartStands
  <2> QED
    BY <2>1, <2>3
<1>11. at + LocalLen + Len(e.path) + Len(e.bytes) <= Len(bytes)
  BY <1>2, <1>3, <1>5
<1> QED
  BY <1>5, <1>6, <1>8, <1>10, <1>11

LEMMA LocalRead ==
    ASSUME NEW S, NEW e \in [path : Seq(Nat), bytes : Seq(S)],
           NEW T, NEW bytes \in Seq(T), NEW at, Standing(bytes, at, LocalSection(e))
    PROVE  LocalPayload(bytes, CentralHeader(e, at), NameCells(e.path)) = {e.bytes}
<1> DEFINE name == NameCells(e.path)
           central == CentralHeader(e, at)
           local == LocalHeader(e)
           start == at + LocalLen + Len(name)
<1>1. /\ at \in Nat /\ at + LocalLen + Len(e.path) + Len(e.bytes) <= Len(bytes)
      /\ bytes[at + 1] = Cell(local, 1)
      /\ Standing(bytes, at + LocalLen, name)
      /\ Standing(bytes, at + LocalLen + Len(e.path), e.bytes)
  BY LocalParts
<1>2. name \in Seq({Byte(v) : v \in Nat}) /\ Len(name) = Len(e.path)
  <2>1. name = [i \in DOMAIN e.path |-> Byte(e.path[i])]
    BY Zenon DEF NameCells
  <2>2. DOMAIN e.path = 1..Len(e.path) /\ Len(e.path) \in Nat /\ e.path \in Seq(Nat)
    OBVIOUS
  <2> DEFINE B == {Byte(v) : v \in Nat}
  <2>3. \A i \in 1..Len(e.path) : Byte(e.path[i]) \in B
    <3>1. \A i \in 1..Len(e.path) : e.path[i] \in Nat
      BY <2>2
    <3>2. \A v \in Nat : Byte(v) \in B
      OBVIOUS
    <3> QED
      BY ONLY <3>1, <3>2
  <2> HIDE DEF name, B
  <2>4. name \in Seq(B) /\ Len(name) = Len(e.path)
    BY ONLY <2>1, <2>2, <2>3
  <2> QED
    BY <2>4 DEF B
<1>3. /\ local.flags = 0 /\ local.method = 0 /\ local.crc = central.crc /\ central.offset = at
      /\ local.compressed = central.compressed /\ local.uncompressed = central.uncompressed
      /\ local.extraLength = 0 /\ local.nameLength = Len(e.path) /\ local.signature = "local"
      /\ central.compressed = Len(e.bytes) /\ central.crc = e.bytes
  BY DEF LocalHeader, CentralHeader, Crc32
<1>4. e.bytes \in Seq(S) /\ Len(e.bytes) \in Nat /\ Len(e.path) \in Nat
  OBVIOUS
<1> HIDE DEF name, central, local
<1>5. Slice(bytes, at + LocalLen, Len(name)) = name
  BY <1>1, <1>2, SliceOfStanding
<1>6. start = at + LocalLen + Len(e.path)
  BY <1>2
<1>7. Slice(bytes, start, central.compressed) = e.bytes
  BY <1>1, <1>3, <1>4, <1>6, SliceOfStanding, SMTT(20)
<1>8. HeaderAt(bytes, central.offset) = local /\ Stands(bytes, central.offset, "local", LocalLen)
  BY <1>1, <1>3, <1>4, SMTT(20) DEF HeaderAt, Stands, Cell, LocalLen
<1>9. /\ start <= Len(bytes) /\ start + central.compressed <= Len(bytes)
      /\ ChecksumFits(Slice(bytes, start, central.compressed), central)
  <2>1. start <= Len(bytes) /\ start + central.compressed <= Len(bytes)
    <3>1. Len(bytes) \in Nat /\ LocalLen \in Nat
      BY DEF LocalLen
    <3> QED
      BY <1>1, <1>3, <1>4, <1>6, <3>1
  <2> QED
    BY <1>3, <1>7, <2>1 DEF ChecksumFits, Crc32
<1> DEFINE taken == /\ Stands(bytes, central.offset, "local", LocalLen)
                    /\ local.flags = 0 /\ local.method = 0
                    /\ local.crc = central.crc
                    /\ local.compressed = central.compressed
                    /\ local.uncompressed = central.uncompressed
                    /\ local.extraLength = 0 /\ local.nameLength = Len(name)
                    /\ start <= Len(bytes) /\ Slice(bytes, at + LocalLen, Len(name)) = name
                    /\ start + central.compressed <= Len(bytes)
                    /\ ChecksumFits(Slice(bytes, start, central.compressed), central)
<1>10. taken
  BY <1>2, <1>3, <1>5, <1>8, <1>9
<1>11. LocalPayload(bytes, central, name)
         = IF taken THEN {Slice(bytes, start, central.compressed)} ELSE {}
  <2> HIDE DEF taken, start
  <2>1. central.offset = at /\ HeaderAt(bytes, central.offset) = local
    BY <1>3, <1>8
  <2> QED
    BY ONLY <2>1, Zenon DEF LocalPayload, taken, start
<1> QED
  BY <1>7, <1>10, <1>11 DEF name, central

\* The parts of a central section, where it stands.
LEMMA CentralParts ==
    ASSUME NEW path \in Seq(Nat), NEW e, e.path = path, NEW offset,
           NEW T, NEW bytes \in Seq(T), NEW at, Standing(bytes, at, CentralSection(e, offset))
    PROVE  /\ at \in Nat /\ at + CentralLen + Len(path) <= Len(bytes)
           /\ bytes[at + 1] = Cell(CentralHeader(e, offset), 1)
           /\ Standing(bytes, at + CentralLen, NameCells(path))
<1> DEFINE U == {Byte(v) : v \in Nat} \cup {Cell(CentralHeader(e, offset), i) : i \in 1..CentralLen}
           section == CentralSection(e, offset)
           name == NameCells(path)
<1>1. CellsFit(U, CentralHeader(e, offset), CentralLen)
  BY DEF CellsFit
<1> HIDE DEF U
<1>2. /\ section \in Seq(U) /\ Len(section) = CentralLen + Len(path)
      /\ \A i \in 1..CentralLen : section[i] = Cell(CentralHeader(e, offset), i)
      /\ \A i \in 1..Len(path) : section[CentralLen + i] = Byte(path[i])
  BY <1>1, CentralSectionCells
<1>3. Len(path) \in Nat /\ CentralLen \in Nat /\ 1 \in 1..CentralLen /\ Len(bytes) \in Nat
  BY DEF CentralLen
<1>4. Standing(bytes, at, section)
  OBVIOUS
<1> HIDE DEF section
<1>5. at \in Nat /\ at + Len(section) <= Len(bytes) /\ \A i \in 1..Len(section) : bytes[at + i] = section[i]
  BY <1>4 DEF Standing
<1>6. bytes[at + 1] = Cell(CentralHeader(e, offset), 1)
  <2>1. 1 \in 1..Len(section)
    BY <1>2, <1>3
  <2> QED
    BY <1>2, <1>3, <1>5, <2>1
<1>7. Len(name) = Len(path) /\ \A i \in 1..Len(path) : name[i] = Byte(path[i])
  <2>1. name = [i \in DOMAIN path |-> Byte(path[i])]
    BY Zenon DEF NameCells
  <2>2. DOMAIN path = 1..Len(path) /\ Len(path) \in Nat
    OBVIOUS
  <2> QED
    BY <2>1, <2>2
<1> HIDE DEF name
<1>8. Standing(bytes, at + CentralLen, name)
  <2>1. CentralLen + Len(name) <= Len(section) /\ Len(section) \in Nat /\ Len(name) \in Nat
    BY <1>2, <1>3, <1>7
  <2>2. \A i \in 1..Len(name) : section[CentralLen + i] = name[i]
    BY <1>2, <1>7
  <2> QED
    BY <1>3, <1>4, <2>1, <2>2, PartStands
<1>9. at + CentralLen + Len(path) <= Len(bytes)
  BY <1>2, <1>3, <1>5
<1> QED
  BY <1>5, <1>6, <1>8, <1>9 DEF name

\* One turn of the loop reads the entry whose central section stands at the cursor.
LEMMA TurnRead ==
    ASSUME NEW S, NEW e \in [path : Seq(Nat), bytes : Seq(S)], IsAscii(e.path),
           NEW T, NEW bytes \in Seq(T), NEW at, Standing(bytes, at, LocalSection(e)),
           NEW cursor, Standing(bytes, cursor, CentralSection(e, at))
    PROVE  CentralEntry(bytes, cursor)
             = {[next |-> cursor + CentralLen + Len(e.path), entry |-> e]}
<1> DEFINE name == NameCells(e.path)
           central == CentralHeader(e, at)
           next == cursor + CentralLen + Len(e.path)
           sliced == Slice(bytes, cursor + CentralLen, central.nameLength)
<1>1. /\ cursor \in Nat /\ next <= Len(bytes)
      /\ bytes[cursor + 1] = Cell(central, 1)
      /\ Standing(bytes, cursor + CentralLen, name)
  BY CentralParts
<1>2. e.path \in Seq(Nat) /\ DOMAIN e.path = 1..Len(e.path) /\ Len(e.path) \in Nat
  OBVIOUS
<1>3. name \in Seq({Byte(v) : v \in Nat}) /\ Len(name) = Len(e.path) /\ DOMAIN name = DOMAIN e.path
      /\ \A i \in DOMAIN name : name[i] = Byte(e.path[i])
  <2>1. name = [i \in DOMAIN e.path |-> Byte(e.path[i])]
    BY Zenon DEF NameCells
  <2> DEFINE B == {Byte(v) : v \in Nat}
  <2>2. \A i \in 1..Len(e.path) : Byte(e.path[i]) \in B
    <3>1. \A i \in 1..Len(e.path) : e.path[i] \in Nat
      BY <1>2
    <3>2. \A v \in Nat : Byte(v) \in B
      OBVIOUS
    <3> QED
      BY ONLY <3>1, <3>2
  <2> HIDE DEF name, B
  <2>3. name \in Seq(B) /\ Len(name) = Len(e.path) /\ DOMAIN name = DOMAIN e.path
    BY ONLY <1>2, <2>1, <2>2
  <2>4. \A i \in DOMAIN name : name[i] = Byte(e.path[i])
    BY ONLY <2>1
  <2> QED
    BY <2>3, <2>4 DEF B
<1>4. /\ central.flags = 0 /\ central.method = 0 /\ central.compressed = central.uncompressed
      /\ central.extraLength = 0 /\ central.commentLength = 0
      /\ central.nameLength = Len(e.path) /\ central.signature = "central"
  BY DEF CentralHeader
<1>5. LocalPayload(bytes, central, name) = {e.bytes}
  BY LocalRead
<1> HIDE DEF name, central
<1>6. sliced = name
  BY <1>1, <1>3, <1>4, SliceOfStanding
<1>7. \A i \in DOMAIN name : name[i].of.signature = "byte" /\ name[i].of.value = e.path[i]
  BY <1>3 DEF Byte, Cell
<1>8. PathOf(name) = e.path
  <2>1. PathOf(name) = [i \in DOMAIN e.path |-> e.path[i]]
    BY <1>3, <1>7 DEF PathOf
  <2> QED
    BY <1>2, <2>1
<1>9. HeaderAt(bytes, cursor) = central /\ Stands(bytes, cursor, "central", CentralLen)
  <2>1. Len(bytes) \in Nat /\ CentralLen \in Nat
    BY DEF CentralLen
  <2>2. cursor + CentralLen <= Len(bytes)
    BY <1>1, <1>2, <2>1
  <2> QED
    BY <1>1, <1>4, <2>2 DEF HeaderAt, Stands, Cell
<1>10. BundleEntry(PathOf(name), e.bytes) = e
  BY <1>8 DEF BundleEntry
<1>11. CentralEntry(bytes, cursor)
         = {[next |-> next, entry |-> BundleEntry(PathOf(name), payload)] :
                payload \in LocalPayload(bytes, central, name)}
  <2> DEFINE going == cursor + CentralLen + central.nameLength
             taken == /\ central.flags = 0 /\ central.method = 0
                      /\ central.compressed = central.uncompressed
                      /\ central.extraLength = 0 /\ central.commentLength = 0
                      /\ going <= Len(bytes)
                      /\ \A i \in DOMAIN sliced : sliced[i].of.signature = "byte"
                      /\ IsAscii(PathOf(sliced))
             turns == {[next |-> going, entry |-> BundleEntry(PathOf(sliced), payload)] :
                          payload \in LocalPayload(bytes, central, sliced)}
  <2>1. CentralEntry(bytes, cursor)
          = IF ~Stands(bytes, cursor, "central", CentralLen) THEN {}
            ELSE IF taken THEN turns ELSE {}
    <3> HIDE DEF taken, turns, sliced
    <3> QED
      BY ONLY <1>9, Zenon DEF CentralEntry, taken, turns, sliced
  <2>2. going = next
    BY <1>4
  <2>3. taken
    BY <1>1, <1>4, <1>6, <1>7, <1>8, <2>2
  <2> HIDE DEF taken, turns, sliced, going
  <2>4. CentralEntry(bytes, cursor) = turns
    BY <1>9, <2>1, <2>3
  <2>5. turns = {[next |-> next, entry |-> BundleEntry(PathOf(name), payload)] :
                    payload \in LocalPayload(bytes, central, name)}
    <3> HIDE DEF next
    <3> QED
      BY ONLY <1>6, <2>2, Zenon DEF turns
  <2> QED
    BY <2>4, <2>5
<1> HIDE DEF next
<1> QED
  <2>1. {[next |-> next, entry |-> BundleEntry(PathOf(name), payload)] : payload \in {e.bytes}}
          = {[next |-> next, entry |-> BundleEntry(PathOf(name), e.bytes)]}
    OBVIOUS
  <2>2. CentralEntry(bytes, cursor) = {[next |-> next, entry |-> e]}
    BY <1>5, <1>10, <1>11, <2>1
  <2> QED
    BY <2>2 DEF next

\* The loop reads what is laid there, and ends at the end record.
LEMMA DirectoryRead ==
    ASSUME NEW S, NEW t \in Seq([path : Seq(Nat), bytes : Seq(S)]),
           \A k \in 1..Len(t) : IsAscii(t[k].path),
           NEW T, NEW bytes \in Seq(T), NEW locals, NEW centrals, Laid(bytes, t, locals, centrals)
    PROVE  CentralEntries(bytes, centrals[0], Len(t))
             = {[next |-> centrals[Len(t)], entries |-> t]}
<1> DEFINE entry == [path : Seq(Nat), bytes : Seq(S)]
           n == Len(t)
<1>1. n \in Nat /\ DOMAIN t = 1..n /\ \A k \in 1..n : t[k] \in entry /\ IsAscii(t[k].path)
  <2>1. t \in Seq(entry) /\ \A k \in 1..n : IsAscii(t[k].path)
    OBVIOUS
  <2> HIDE DEF entry
  <2> QED
    BY ONLY <2>1
<1>2. PICK read : /\ CentralEntries(bytes, centrals[0], n) = read[n]
                  /\ read[0] = {[next |-> centrals[0], entries |-> <<>>]}
                  /\ \A k \in 1..n : read[k] = Turn(bytes, read[k - 1])
  <2> HIDE DEF n
  <2>1. PICK directory : directory = CentralEntries(bytes, centrals[0], n)
    OBVIOUS
  <2> QED
    BY ONLY <1>1, <2>1, DirectoryGrows
<1>3. \A k \in 1..n : /\ centrals[k] = centrals[k - 1] + CentralLen + Len(t[k].path)
                       /\ Standing(bytes, locals[k - 1], LocalSection(t[k]))
                       /\ Standing(bytes, centrals[k - 1], CentralSection(t[k], locals[k - 1]))
  BY DEF Laid
<1>4. \A k \in 1..n : CentralEntry(bytes, centrals[k - 1]) = {[next |-> centrals[k], entry |-> t[k]]}
  <2> SUFFICES ASSUME NEW k \in 1..n
               PROVE  CentralEntry(bytes, centrals[k - 1]) = {[next |-> centrals[k], entry |-> t[k]]}
    OBVIOUS
  <2>1. /\ centrals[k] = centrals[k - 1] + CentralLen + Len(t[k].path)
        /\ Standing(bytes, locals[k - 1], LocalSection(t[k]))
        /\ Standing(bytes, centrals[k - 1], CentralSection(t[k], locals[k - 1]))
        /\ t[k] \in [path : Seq(Nat), bytes : Seq(S)] /\ IsAscii(t[k].path)
    BY <1>1, <1>3
  <2> QED
    BY ONLY <2>1, bytes \in Seq(T), TurnRead
<1> HIDE DEF n, entry
<1> DEFINE front(k) == SubSeq(t, 1, k)
           readTo == {k \in Nat : k <= n => read[k] = {[next |-> centrals[k], entries |-> front(k)]}}
<1>5. 0 \in readTo
  <2>1. front(0) = <<>>
    OBVIOUS
  <2> QED
    BY <1>2, <2>1
<1>6. ASSUME NEW k \in Nat, k \in readTo PROVE k + 1 \in readTo
  <2> SUFFICES ASSUME k + 1 <= n
               PROVE  read[k + 1] = {[next |-> centrals[k + 1], entries |-> front(k + 1)]}
    OBVIOUS
  <2>1. read[k] = {[next |-> centrals[k], entries |-> front(k)]}
    BY <1>1, <1>6
  <2>2. PICK j \in 1..n : j = k + 1
    BY <1>1
  <2>3. j - 1 = k
    BY ONLY <2>2, k \in Nat
  <2>4. read[j] = Turn(bytes, read[k])
    BY <1>2, <2>3
  <2>5. CentralEntry(bytes, centrals[k]) = {[next |-> centrals[j], entry |-> t[j]]}
    BY <1>4, <2>3
  <2>6. Append(front(k), t[j]) = front(j)
    BY <1>1, <2>2 DEF n
  <2> DEFINE before == [next |-> centrals[k], entries |-> front(k)]
  <2>7. Turn(bytes, {before})
          = {[next |-> turn.next, entries |-> Append(before.entries, turn.entry)] :
                turn \in CentralEntry(bytes, before.next)}
    <3> HIDE DEF before
    <3> QED
      BY DEF Turn
  <2>8. before.next = centrals[k] /\ before.entries = front(k)
    OBVIOUS
  <2> HIDE DEF before, front
  <2>9. Turn(bytes, {before}) = {[next |-> centrals[j], entries |-> front(j)]}
    <3> DEFINE turn1 == [next |-> centrals[j], entry |-> t[j]]
    <3>1. turn1.next = centrals[j] /\ turn1.entry = t[j]
      OBVIOUS
    <3> HIDE DEF turn1
    <3>2. CentralEntry(bytes, before.next) = {turn1}
      BY <2>5, <2>8 DEF turn1
    <3>3. Turn(bytes, {before})
            = {[next |-> turn1.next, entries |-> Append(before.entries, turn1.entry)]}
      BY <2>7, <3>2
    <3> QED
      BY <2>6, <2>8, <3>1, <3>3
  <2> QED
    BY <2>1, <2>2, <2>4, <2>9 DEF before
<1>7. Nat \subseteq readTo
  <2> HIDE DEF readTo
  <2> QED
    BY <1>5, <1>6, EveryNumber
<1>8. read[n] = {[next |-> centrals[n], entries |-> front(n)]}
  <2>1. n \in readTo /\ n <= n
    <3> HIDE DEF readTo
    <3> QED
      BY <1>1, <1>7
  <2> QED
    BY <2>1
<1>9. front(n) = t
  BY <1>1 DEF n
<1> QED
  BY <1>2, <1>8, <1>9 DEF n

\* A record at the very end is the one that is found.
EndTaken(bytes, eocd, at) ==
    /\ eocd.disk = 0 /\ eocd.centralDisk = 0 /\ eocd.onDisk = eocd.total
    /\ eocd.commentLength = 0
    /\ eocd.offset < Len(bytes) /\ eocd.offset + eocd.size <= at

ReadTo(bytes, eocd) ==
    {directory.entries : directory \in
        {d \in CentralEntries(bytes, eocd.offset, eocd.total) : d.next = eocd.offset + eocd.size}}

LEMMA LastEnd ==
    ASSUME NEW bytes, NEW at, at \in EocdOffsets(bytes), at \in Nat,
           \A j \in EocdOffsets(bytes) : j \in Nat /\ j <= at,
           NEW eocd, bytes[at + 1].of = eocd
    PROVE  ReadStoredZip(bytes) = IF EndTaken(bytes, eocd, at) THEN ReadTo(bytes, eocd) ELSE {}
<1> DEFINE found == EocdOffsets(bytes)
           last == CHOOSE i \in found : \A j \in found : j <= i
<1>0. found = EocdOffsets(bytes)
  OBVIOUS
<1> HIDE DEF found
<1>4. last \in found /\ \A j \in found : j <= last
  BY <1>0
<1>8. ReadStoredZip(bytes)
        = IF found = {} THEN {}
          ELSE IF EndTaken(bytes, HeaderAt(bytes, last), last)
               THEN ReadTo(bytes, HeaderAt(bytes, last)) ELSE {}
  BY ONLY Zenon DEF ReadStoredZip, EndTaken, ReadTo, found, last
<1> HIDE DEF last
<1>5. last = at
  <2>1. last \in Nat /\ last <= at /\ at <= last
    BY <1>0, <1>4
  <2> QED
    BY <2>1
<1>6. HeaderAt(bytes, last) = eocd
  BY <1>5 DEF HeaderAt
<1>7. found # {}
  BY <1>0
<1> QED
  BY <1>5, <1>6, <1>7, <1>8

LEMMA EndFound ==
    ASSUME NEW bytes, Len(bytes) \in Nat, NEW at \in Nat, Len(bytes) = at + EocdLen,
           NEW eocd, bytes[at + 1].of = eocd, bytes[at + 1].at = 1, eocd.signature = "eocd"
    PROVE  ReadStoredZip(bytes) = IF EndTaken(bytes, eocd, at) THEN ReadTo(bytes, eocd) ELSE {}
<1>1. EocdLen = 22
  BY DEF EocdLen
<1>2. at \in EocdOffsets(bytes)
  BY <1>1 DEF EocdOffsets, Stands
<1>3. \A j \in EocdOffsets(bytes) : j \in Nat /\ j <= at
  BY <1>1 DEF EocdOffsets, Stands
<1> QED
  BY <1>2, <1>3, LastEnd

LEMMA ReadsBack ==
    ASSUME NEW S, NEW t \in Seq([path : Seq(Nat), bytes : Seq(S)]),
           \A k \in 1..Len(t) : IsAscii(t[k].path),
           NEW T, NEW bytes \in Seq(T), NEW locals, NEW centrals, Laid(bytes, t, locals, centrals)
    PROVE  ReadStoredZip(bytes) = {t}
<1> DEFINE n == Len(t)
           eocd == Eocd(n, centrals[n] - centrals[0], centrals[0])
           end == Header(eocd, EocdLen)
           at == centrals[n]
<1>1. /\ Standing(bytes, at, end) /\ centrals \in [0..n -> Nat] /\ centrals[0] <= at
      /\ Len(bytes) = at + EocdLen
  BY Zenon DEF Laid
<1>2. n \in Nat /\ Len(bytes) \in Nat /\ EocdLen \in Nat /\ 1 \in 1..EocdLen
  BY DEF EocdLen
<1>3. centrals[0] \in Nat /\ at \in Nat
  <2>1. 0 \in 0..n /\ n \in 0..n
    BY <1>2
  <2>2. \A k \in 0..n : centrals[k] \in Nat
    BY <1>1
  <2> HIDE DEF n
  <2> QED
    BY ONLY <2>1, <2>2
<1>4. CentralEntries(bytes, centrals[0], n) = {[next |-> at, entries |-> t]}
  BY DirectoryRead, Zenon
<1>5. /\ eocd.signature = "eocd" /\ eocd.disk = 0 /\ eocd.centralDisk = 0
      /\ eocd.onDisk = n /\ eocd.total = n /\ eocd.commentLength = 0
      /\ eocd.size = at - centrals[0] /\ eocd.offset = centrals[0]
  BY DEF Eocd
<1> HIDE DEF n, eocd
<1>6. bytes[at + 1] = Cell(eocd, 1)
  <2>1. end = [i \in 1..EocdLen |-> Cell(eocd, i)]
    BY Zenon DEF Header
  <2> HIDE DEF end
  <2>2. Len(end) = EocdLen /\ end[1] = Cell(eocd, 1)
    BY ONLY <1>2, <2>1
  <2>3. \A i \in 1..Len(end) : bytes[at + i] = end[i]
    BY <1>1, Zenon DEF Standing
  <2> QED
    BY <1>2, <2>2, <2>3
<1>7. eocd.offset + eocd.size = at
  BY <1>3, <1>5
<1> HIDE DEF at
<1>8. EndTaken(bytes, eocd, at)
  BY <1>1, <1>2, <1>3, <1>5, <1>7 DEF EndTaken, EocdLen
<1>9. ReadTo(bytes, eocd) = {t}
  <2> DEFINE d1 == [next |-> at, entries |-> t]
  <2>1. d1.next = at /\ d1.entries = t
    OBVIOUS
  <2>2. CentralEntries(bytes, eocd.offset, eocd.total) = {d1}
    BY <1>4, <1>5
  <2> HIDE DEF d1
  <2>3. {d \in {d1} : d.next = at} = {d1}
    BY <2>1
  <2>4. {directory.entries : directory \in {d1}} = {t}
    BY <2>1
  <2> QED
    BY <1>7, <2>2, <2>3, <2>4 DEF ReadTo
<1>10. bytes[at + 1].of = eocd /\ bytes[at + 1].at = 1
  BY <1>6 DEF Cell
<1> QED
  BY <1>1, <1>2, <1>3, <1>5, <1>8, <1>9, <1>10, EndFound

\* What to_zip_bytes asks of the entries besides distinct paths, and what it writes.
Packable(entries, sorted) ==
    /\ \A k \in DOMAIN entries :
          /\ IsAscii(entries[k].path) /\ Len(entries[k].path) <= MaxU16
          /\ Len(entries[k].bytes) <= MaxU32
    /\ Len(entries) <= MaxU16
    /\ Len(LocalSections(sorted)[Len(sorted)]) <= MaxU32
    /\ Len(CentralSections(sorted)[Len(sorted)]) <= MaxU32

ArchiveOf(sorted) ==
    LET locals == LocalSections(sorted)[Len(sorted)]
        centrals == CentralSections(sorted)[Len(sorted)]
    IN  locals \o centrals \o Header(Eocd(Len(sorted), Len(centrals), Len(locals)), EocdLen)

LEMMA ZipBytesAre ==
    ASSUME NEW s
    PROVE  ToZipBytes(s) = IF PathsDistinct(s) /\ Packable(s, Sorted(s)) THEN {ArchiveOf(Sorted(s))} ELSE {}
<1> DEFINE sorted == Sorted(s)
           locals == LocalSections(sorted)[Len(sorted)]
           centrals == CentralSections(sorted)[Len(sorted)]
           every == \A k \in DOMAIN s : /\ IsAscii(s[k].path) /\ Len(s[k].path) <= MaxU16
                                        /\ Len(s[k].bytes) <= MaxU32
           fits == Len(s) <= MaxU16 /\ Len(locals) <= MaxU32 /\ Len(centrals) <= MaxU32
           archive == locals \o centrals \o Header(Eocd(Len(sorted), Len(centrals), Len(locals)), EocdLen)
<1>1. ToZipBytes(s) = IF PathsDistinct(s) /\ every /\ fits THEN {archive} ELSE {}
  BY DEF ToZipBytes
<1>2. Packable(s, sorted) <=> every /\ fits
  BY Zenon DEF Packable
<1>3. ArchiveOf(sorted) = archive
  BY Zenon DEF ArchiveOf
<1> HIDE DEF sorted, every, fits, archive
<1> QED
  BY <1>1, <1>2, <1>3 DEF sorted

LEMMA PackedReadsBack ==
    ASSUME NEW S, NEW s \in Seq([path : Seq(Nat), bytes : Seq(S)]), NEW bytes \in ToZipBytes(s)
    PROVE  PathsDistinct(s) /\ ReadStoredZip(bytes) = {Sorted(s)}
<1> DEFINE E == [path : Seq(Nat), bytes : Seq(S)]
           t == Sorted(s)
<1>1. Texts(E) /\ s \in Seq(E)
  BY DEF Texts
<1>2. PathsDistinct(s) /\ Packable(s, t) /\ bytes = ArchiveOf(t)
  BY ZipBytesAre
<1>3. /\ t \in Seq(E) /\ Len(t) = Len(s)
      /\ \A p \in DOMAIN s : \E k \in DOMAIN s : t[p] = s[k]
  BY <1>1, SortedInOrder
<1>4. \A k \in DOMAIN s : IsAscii(s[k].path)
  BY <1>2 DEF Packable
<1> HIDE DEF E, t
<1>5. DOMAIN s = 1..Len(s) /\ DOMAIN t = 1..Len(t)
  BY <1>1, <1>3
<1>6. \A k \in 1..Len(t) : IsAscii(t[k].path)
  BY <1>3, <1>4, <1>5
<1> DEFINE locals == LocalSections(t)[Len(t)]
           centrals == CentralSections(t)[Len(t)]
           end == Header(Eocd(Len(t), Len(centrals), Len(locals)), EocdLen)
           whole == locals \o centrals \o end
<1>7. whole = bytes
  BY <1>2 DEF ArchiveOf
<1>8. (\E T : whole \in Seq(T)) /\ Laid(whole, t, LocalStarts(t), CentralStarts(t))
  <2> HIDE DEF locals, centrals, end
  <2>1. locals = LocalSections(t)[Len(t)] /\ centrals = CentralSections(t)[Len(t)]
        /\ end = Header(Eocd(Len(t), Len(centrals), Len(locals)), EocdLen)
    BY DEF locals, centrals, end
  <2>2. t \in Seq([path : Seq(Nat), bytes : Seq(S)])
    BY <1>3 DEF E
  <2> QED
    BY ONLY <2>1, <2>2, SectionsLaid
<1> HIDE DEF whole
<1>9. PICK T : bytes \in Seq(T)
  BY <1>7, <1>8
<1>10. Laid(bytes, t, LocalStarts(t), CentralStarts(t))
  BY <1>7, <1>8
<1>11. t \in Seq([path : Seq(Nat), bytes : Seq(S)])
  BY <1>3 DEF E
<1>12. ReadStoredZip(bytes) = {t}
  BY ONLY <1>6, <1>9, <1>10, <1>11, ReadsBack
<1> QED
  BY <1>2, <1>12 DEF t

LEMMA PackedInAnyOrder ==
    ASSUME NEW E, Texts(E), NEW s \in Seq(E),
           NEW order \in [DOMAIN s -> DOMAIN s], \A k \in DOMAIN s : \E j \in DOMAIN s : order[j] = k
    PROVE  ToZipBytes([k \in DOMAIN s |-> s[order[k]]]) = ToZipBytes(s)
<1> DEFINE r == [k \in DOMAIN s |-> s[order[k]]]
<1>1. /\ r \in Seq(E) /\ Len(r) = Len(s) /\ DOMAIN r = DOMAIN s
      /\ PathsDistinct(r) <=> PathsDistinct(s)
      /\ PathsDistinct(s) => Sorted(r) = Sorted(s)
  <2>1. Reordered(r, s, order)
    BY DEF Reordered
  <2>2. DOMAIN r = DOMAIN s
    OBVIOUS
  <2> HIDE DEF r
  <2>3. /\ r \in Seq(E) /\ Len(r) = Len(s)
        /\ PathsDistinct(r) <=> PathsDistinct(s)
        /\ PathsDistinct(s) => Sorted(r) = Sorted(s)
    BY <2>1, OrderIsForgotten
  <2> QED
    BY <2>2, <2>3
<1>2. \A k \in DOMAIN s : order[k] \in DOMAIN s /\ r[k] = s[order[k]]
  OBVIOUS
<1>3. \A k \in DOMAIN s : \E j \in DOMAIN s : order[j] = k
  OBVIOUS
<1> HIDE DEF r
<1>4. ASSUME NEW t PROVE Packable(r, t) <=> Packable(s, t)
  <2> DEFINE Fine(e) == IsAscii(e.path) /\ Len(e.path) <= MaxU16 /\ Len(e.bytes) <= MaxU32
  <2>1. ASSUME NEW q, DOMAIN q = DOMAIN s, Len(q) = Len(s)
        PROVE  Packable(q, t) <=>
                  /\ \A k \in DOMAIN s : Fine(q[k])
                  /\ Len(s) <= MaxU16 /\ Len(LocalSections(t)[Len(t)]) <= MaxU32
                  /\ Len(CentralSections(t)[Len(t)]) <= MaxU32
    BY ONLY <2>1, Zenon DEF Packable
  <2> HIDE DEF Fine
  <2>2. (\A k \in DOMAIN s : Fine(r[k])) <=> (\A k \in DOMAIN s : Fine(s[k]))
    BY <1>2, <1>3
  <2> QED
    BY <1>1, <2>1, <2>2
<1>5. ToZipBytes(r) = ToZipBytes(s)
  BY <1>1, <1>4, ZipBytesAre
<1> QED
  BY <1>5 DEF r

-----------------------------------------------------------------------------

\* What is in the bundle are entries: add_entry takes no other.
BundleInv == bundle \in Seq(Entries)

LEMMA BundleInductive ==
    /\ BundleInit => BundleInv
    /\ BundleInv /\ [BundleStep]_<<calls, bundleVars>> => BundleInv'
<1>1. BundleInit => BundleInv
  BY DEF BundleInit, BundleInv
<1>2. ASSUME BundleInv, [BundleStep]_<<calls, bundleVars>> PROVE BundleInv'
  <2>1. ASSUME NEW entry \in Entries, AddEntry(entry) PROVE BundleInv'
    BY <1>2, <2>1 DEF AddEntry, BundleInv
  <2>2. CASE AlterArchive
    BY <1>2, <2>2 DEF AlterArchive, BundleInv
  <2>3. CASE UNCHANGED <<calls, bundleVars>>
    BY <1>2, <2>3 DEF bundleVars, BundleInv
  <2> QED
    BY <1>2, <2>1, <2>2, <2>3 DEF BundleStep
<1> QED
  BY <1>1, <1>2

LEMMA EntriesAreTexts ==
    \E S : Entries \subseteq [path : Seq(Nat), bytes : Seq(S)]
<1> DEFINE cells(e) == {e.bytes[i] : i \in DOMAIN e.bytes}
           S == UNION {cells(e) : e \in Entries}
<1>1. ASSUME NEW e \in Entries PROVE e \in [path : Seq(Nat), bytes : Seq(S)]
  <2>1. e \in [path : Seq(Nat), bytes : Seq(cells(e))]
    BY EntriesAssumption
  <2>2. cells(e) \subseteq S
    OBVIOUS
  <2> HIDE DEF cells, S
  <2> QED
    BY <2>1, <2>2
<1> QED
  BY <1>1

LEMMA PackedIsReadNow == BundleInv => PackedIsRead
<1> SUFFICES ASSUME BundleInv, edit = None PROVE PackedIsRead
  BY DEF PackedIsRead
<1>1. PICK S : Entries \subseteq [path : Seq(Nat), bytes : Seq(S)]
  BY EntriesAreTexts
<1> DEFINE E == [path : Seq(Nat), bytes : Seq(S)]
           places == DOMAIN bundle
<1>2. bundle \in Seq(E) /\ Texts(E)
  <2>1. Texts(E)
    BY DEF Texts
  <2>2. bundle \in Seq(Entries) /\ Entries \subseteq E
    BY <1>1 DEF BundleInv
  <2> HIDE DEF E
  <2> QED
    BY <2>1, <2>2
<1>3. ASSUME NEW order \in [places -> places], \A k \in places : \E j \in places : order[j] = k
      PROVE  ToZipBytes([k \in places |-> bundle[order[k]]]) = ToZipBytes(bundle)
  <2> HIDE DEF E
  <2> QED
    BY ONLY <1>2, <1>3, PackedInAnyOrder
<1>4. ASSUME NEW bytes \in ToZipBytes(bundle)
      PROVE  \E entries \in ReadStoredZip(bytes) :
                /\ Contents(entries) = Contents(bundle) /\ Len(entries) = Len(bundle)
                /\ \A i, j \in DOMAIN entries :
                      i < j => Before(entries[i].path, entries[j].path)
  <2>1. PathsDistinct(bundle) /\ ReadStoredZip(bytes) = {Sorted(bundle)}
    BY <1>2, PackedReadsBack
  <2> DEFINE t == Sorted(bundle)
  <2> HIDE DEF E
  <2>2. /\ t \in Seq(E) /\ Len(t) = Len(bundle)
        /\ \A k \in DOMAIN bundle : Position(bundle, k) \in DOMAIN bundle /\ t[Position(bundle, k)] = bundle[k]
        /\ \A p \in DOMAIN bundle : \E k \in DOMAIN bundle : p = Position(bundle, k) /\ t[p] = bundle[k]
        /\ \A p, q \in DOMAIN bundle : p < q => Before(t[p].path, t[q].path)
    BY <1>2, <2>1, SortedInOrder
  <2> HIDE DEF t
  <2>3. DOMAIN t = DOMAIN bundle
    BY <1>2, <2>2
  <2>4. Contents(t) = Contents(bundle)
    BY <2>2, <2>3 DEF Contents
  <2> QED
    BY <2>1, <2>2, <2>3, <2>4 DEF t
<1> QED
  BY <1>3, <1>4 DEF PackedIsRead

\* For every set of entries, however many are added and in whatever order: every order of
\* adding them packs to the same archive, and the archive reads back as exactly what was
\* added, sorted by path (to_zip_bytes against read_stored_zip).
THEOREM PackedReads == BundleSpec => []PackedIsRead
<1>1. BundleInit => BundleInv
  BY BundleInductive
<1>2. BundleInv /\ [BundleStep]_<<calls, bundleVars>> => BundleInv'
  BY BundleInductive
<1>3. BundleInv => PackedIsRead
  BY PackedIsReadNow
<1> QED
  BY <1>1, <1>2, <1>3, PTL DEF BundleSpec

-----------------------------------------------------------------------------
(* Archives: cell by cell. *)

LEMMA Rising ==
    ASSUME NEW n \in Nat, NEW f \in [0..n -> Nat], \A k \in 1..n : f[k - 1] < f[k]
    PROVE  /\ \A j, k \in 0..n : j <= k => f[j] <= f[k]
           /\ \A i \in Nat : f[0] < i /\ i <= f[n] => \E k \in 1..n : f[k - 1] < i /\ i <= f[k]
<1>0. \A k \in 0..n : f[k] \in Nat
  OBVIOUS
<1>1. \A m \in Nat : m + 1 <= n => f[m] < f[m + 1]
  <2> SUFFICES ASSUME NEW m \in Nat, m + 1 <= n PROVE f[m] < f[m + 1]
    OBVIOUS
  <2>1. PICK k \in 1..n : k = m + 1 /\ k - 1 = m
    OBVIOUS
  <2> QED
    BY <2>1
<1>2. ASSUME NEW j \in 0..n PROVE \A k \in 0..n : j <= k => f[j] <= f[k]
  <2> DEFINE above == {k \in Nat : j <= k /\ k <= n => f[j] <= f[k]}
  <2>1. 0 \in above
    BY <1>0
  <2>2. ASSUME NEW k \in Nat, k \in above PROVE k + 1 \in above
    <3> SUFFICES ASSUME j <= k + 1, k + 1 <= n PROVE f[j] <= f[k + 1]
      OBVIOUS
    <3>1. CASE j = k + 1
      BY <1>0, <3>1
    <3>2. CASE j <= k
      <4>1. f[j] <= f[k] /\ f[k] < f[k + 1] /\ f[j] \in Nat /\ f[k] \in Nat /\ f[k + 1] \in Nat
        BY <1>0, <1>1, <2>2, <3>2
      <4> QED
        BY <4>1
    <3> QED
      BY <3>1, <3>2
  <2>3. Nat \subseteq above
    <3> HIDE DEF above
    <3> QED
      BY <2>1, <2>2, EveryNumber
  <2> QED
    BY <2>3
<1>3. ASSUME NEW i \in Nat, f[0] < i, i <= f[n] PROVE \E k \in 1..n : f[k - 1] < i /\ i <= f[k]
  <2> DEFINE short == {m \in Nat : m <= n /\ ~(\E k \in 1..n : f[k - 1] < i /\ i <= f[k]) => f[m] < i}
  <2>1. 0 \in short
    BY <1>3
  <2>2. ASSUME NEW m \in Nat, m \in short PROVE m + 1 \in short
    <3> SUFFICES ASSUME m + 1 <= n, ~(\E k \in 1..n : f[k - 1] < i /\ i <= f[k])
                 PROVE  f[m + 1] < i
      OBVIOUS
    <3>1. PICK k \in 1..n : k = m + 1 /\ k - 1 = m
      OBVIOUS
    <3>2. f[m] < i
      BY <2>2
    <3>3. f[m + 1] \in Nat
      BY <1>0
    <3> QED
      BY <3>1, <3>2, <3>3
  <2>3. Nat \subseteq short
    <3> HIDE DEF short
    <3> QED
      BY <2>1, <2>2, EveryNumber
  <2>4. n \in short
    BY <2>3
  <2>5. f[n] \in Nat
    BY <1>0
  <2> QED
    BY <1>3, <2>4, <2>5
<1> QED
  BY <1>2, <1>3

\* Payloads that hold no header: strings of bytes.
PlainCells == {Byte(v) : v \in Nat}
PlainEntries == [path : Seq(Nat), bytes : Seq(PlainCells)]

EndOf(t, centrals) == Eocd(Len(t), centrals[Len(t)] - centrals[0], centrals[0])

\* An archive of sorted entries, cell by cell.
Sketched(bytes, t, locals, centrals) ==
    /\ locals \in [0..Len(t) -> Nat] /\ centrals \in [0..Len(t) -> Nat]
    /\ locals[0] = 0 /\ centrals[0] = locals[Len(t)]
    /\ Len(bytes) = centrals[Len(t)] + EocdLen
    /\ \A k \in 1..Len(t) :
          /\ locals[k] = locals[k - 1] + LocalLen + Len(t[k].path) + Len(t[k].bytes)
          /\ centrals[k] = centrals[k - 1] + CentralLen + Len(t[k].path)

Painted(bytes, t, locals, centrals) ==
    /\ \A k \in 1..Len(t) :
          /\ \A d \in 1..LocalLen : bytes[locals[k - 1] + d] = Cell(LocalHeader(t[k]), d)
          /\ \A d \in 1..Len(t[k].path) : bytes[locals[k - 1] + LocalLen + d] = Byte(t[k].path[d])
          /\ \A d \in 1..Len(t[k].bytes) :
                bytes[locals[k - 1] + LocalLen + Len(t[k].path) + d] = t[k].bytes[d]
    /\ \A k \in 1..Len(t) :
          /\ \A d \in 1..CentralLen :
                bytes[centrals[k - 1] + d] = Cell(CentralHeader(t[k], locals[k - 1]), d)
          /\ \A d \in 1..Len(t[k].path) : bytes[centrals[k - 1] + CentralLen + d] = Byte(t[k].path[d])
    /\ \A d \in 1..EocdLen : bytes[centrals[Len(t)] + d] = Cell(EndOf(t, centrals), d)

LEMMA LocalPaint ==
    ASSUME NEW S, NEW e \in [path : Seq(Nat), bytes : Seq(S)], NEW bytes, NEW at,
           Standing(bytes, at, LocalSection(e))
    PROVE  /\ \A d \in 1..LocalLen : bytes[at + d] = Cell(LocalHeader(e), d)
           /\ \A d \in 1..Len(e.path) : bytes[at + LocalLen + d] = Byte(e.path[d])
           /\ \A d \in 1..Len(e.bytes) : bytes[at + LocalLen + Len(e.path) + d] = e.bytes[d]
<1> DEFINE U == S \cup {Byte(v) : v \in Nat} \cup {Cell(LocalHeader(e), i) : i \in 1..LocalLen}
           section == LocalSection(e)
<1>1. S \subseteq U /\ (\A v \in Nat : Byte(v) \in U) /\ \A i \in 1..LocalLen : Cell(LocalHeader(e), i) \in U
  OBVIOUS
<1> HIDE DEF U
<1>2. /\ section \in Seq(U) /\ Len(section) = LocalLen + Len(e.path) + Len(e.bytes)
      /\ \A i \in 1..LocalLen : section[i] = Cell(LocalHeader(e), i)
      /\ \A i \in 1..Len(e.path) : section[LocalLen + i] = Byte(e.path[i])
      /\ \A i \in 1..Len(e.bytes) : section[LocalLen + Len(e.path) + i] = e.bytes[i]
  BY <1>1, LocalSectionCells
<1>3. Len(e.path) \in Nat /\ Len(e.bytes) \in Nat /\ LocalLen \in Nat
  BY DEF LocalLen
<1> HIDE DEF section
<1>5. at \in Nat /\ \A i \in 1..Len(section) : bytes[at + i] = section[i]
  BY DEF Standing, section
<1> DEFINE p == Len(e.path) b == Len(e.bytes)
<1>6. ASSUME NEW d \in 1..LocalLen PROVE bytes[at + d] = Cell(LocalHeader(e), d)
  <2>1. d \in 1..Len(section)
    BY <1>2, <1>3
  <2> QED
    BY <1>2, <1>5, <2>1
<1>7. ASSUME NEW d \in 1..Len(e.path) PROVE bytes[at + LocalLen + d] = Byte(e.path[d])
  <2>1. LocalLen + d \in 1..Len(section) /\ at + LocalLen + d = at + (LocalLen + d)
    BY <1>2, <1>3, <1>5
  <2> QED
    BY <1>2, <1>5, <2>1
<1>8. ASSUME NEW d \in 1..Len(e.bytes) PROVE bytes[at + LocalLen + Len(e.path) + d] = e.bytes[d]
  <2>1. /\ LocalLen + Len(e.path) + d \in 1..Len(section)
        /\ at + LocalLen + Len(e.path) + d = at + (LocalLen + Len(e.path) + d)
    BY <1>2, <1>3, <1>5
  <2> QED
    BY <1>2, <1>5, <2>1
<1> QED
  BY <1>6, <1>7, <1>8

LEMMA CentralPaint ==
    ASSUME NEW path \in Seq(Nat), NEW e, e.path = path, NEW offset, NEW bytes, NEW at,
           Standing(bytes, at, CentralSection(e, offset))
    PROVE  /\ \A d \in 1..CentralLen : bytes[at + d] = Cell(CentralHeader(e, offset), d)
           /\ \A d \in 1..Len(path) : bytes[at + CentralLen + d] = Byte(path[d])
<1> DEFINE U == {Byte(v) : v \in Nat} \cup {Cell(CentralHeader(e, offset), i) : i \in 1..CentralLen}
           section == CentralSection(e, offset)
<1>1. CellsFit(U, CentralHeader(e, offset), CentralLen)
  BY DEF CellsFit
<1> HIDE DEF U
<1>2. /\ section \in Seq(U) /\ Len(section) = CentralLen + Len(path)
      /\ \A i \in 1..CentralLen : section[i] = Cell(CentralHeader(e, offset), i)
      /\ \A i \in 1..Len(path) : section[CentralLen + i] = Byte(path[i])
  BY <1>1, CentralSectionCells
<1>3. Len(path) \in Nat /\ CentralLen \in Nat
  BY DEF CentralLen
<1>4. Standing(bytes, at, section)
  OBVIOUS
<1> HIDE DEF section
<1>5. at \in Nat /\ \A i \in 1..Len(section) : bytes[at + i] = section[i]
  BY <1>4 DEF Standing
<1>6. ASSUME NEW d \in 1..CentralLen PROVE bytes[at + d] = Cell(CentralHeader(e, offset), d)
  <2>1. d \in 1..Len(section)
    BY <1>2, <1>3
  <2> QED
    BY <1>2, <1>5, <2>1
<1>7. ASSUME NEW d \in 1..Len(path) PROVE bytes[at + CentralLen + d] = Byte(path[d])
  <2>1. CentralLen + d \in 1..Len(section) /\ at + CentralLen + d = at + (CentralLen + d)
    BY <1>2, <1>3, <1>5
  <2> QED
    BY <1>2, <1>5, <2>1
<1> QED
  BY <1>6, <1>7

LEMMA LaidIsPainted ==
    ASSUME NEW t \in Seq(PlainEntries), NEW bytes, NEW locals, NEW centrals,
           Laid(bytes, t, locals, centrals)
    PROVE  Sketched(bytes, t, locals, centrals) /\ Painted(bytes, t, locals, centrals)
<1>1. Sketched(bytes, t, locals, centrals)
  BY Zenon DEF Laid, Sketched
<1>2. ASSUME NEW k \in 1..Len(t)
      PROVE  /\ \A d \in 1..LocalLen : bytes[locals[k - 1] + d] = Cell(LocalHeader(t[k]), d)
             /\ \A d \in 1..Len(t[k].path) : bytes[locals[k - 1] + LocalLen + d] = Byte(t[k].path[d])
             /\ \A d \in 1..Len(t[k].bytes) :
                   bytes[locals[k - 1] + LocalLen + Len(t[k].path) + d] = t[k].bytes[d]
             /\ \A d \in 1..CentralLen :
                   bytes[centrals[k - 1] + d] = Cell(CentralHeader(t[k], locals[k - 1]), d)
             /\ \A d \in 1..Len(t[k].path) :
                   bytes[centrals[k - 1] + CentralLen + d] = Byte(t[k].path[d])
  <2>0. t[k] \in PlainEntries
    OBVIOUS
  <2>1. t[k] \in [path : Seq(Nat), bytes : Seq(PlainCells)] /\ t[k].path \in Seq(Nat)
    BY ONLY <2>0 DEF PlainEntries
  <2>2. /\ Standing(bytes, locals[k - 1], LocalSection(t[k]))
        /\ Standing(bytes, centrals[k - 1], CentralSection(t[k], locals[k - 1]))
    BY Zenon DEF Laid
  <2>3. /\ \A d \in 1..LocalLen : bytes[locals[k - 1] + d] = Cell(LocalHeader(t[k]), d)
        /\ \A d \in 1..Len(t[k].path) : bytes[locals[k - 1] + LocalLen + d] = Byte(t[k].path[d])
        /\ \A d \in 1..Len(t[k].bytes) :
              bytes[locals[k - 1] + LocalLen + Len(t[k].path) + d] = t[k].bytes[d]
    <3>1. PICK e, at : e = t[k] /\ at = locals[k - 1]
      OBVIOUS
    <3>2. e \in [path : Seq(Nat), bytes : Seq(PlainCells)] /\ Standing(bytes, at, LocalSection(e))
      BY <2>1, <2>2, <3>1
    <3>3. /\ \A d \in 1..LocalLen : bytes[at + d] = Cell(LocalHeader(e), d)
          /\ \A d \in 1..Len(e.path) : bytes[at + LocalLen + d] = Byte(e.path[d])
          /\ \A d \in 1..Len(e.bytes) : bytes[at + LocalLen + Len(e.path) + d] = e.bytes[d]
      BY ONLY <3>2, LocalPaint
    <3> QED
      BY <3>1, <3>3
  <2>4. /\ \A d \in 1..CentralLen :
              bytes[centrals[k - 1] + d] = Cell(CentralHeader(t[k], locals[k - 1]), d)
        /\ \A d \in 1..Len(t[k].path) :
              bytes[centrals[k - 1] + CentralLen + d] = Byte(t[k].path[d])
    BY ONLY <2>1, <2>2, CentralPaint
  <2> QED
    BY <2>3, <2>4
<1>3. ASSUME NEW d \in 1..EocdLen
      PROVE  bytes[centrals[Len(t)] + d] = Cell(EndOf(t, centrals), d)
  <2> DEFINE end == Header(EndOf(t, centrals), EocdLen)
  <2>1. Standing(bytes, centrals[Len(t)], end)
    BY Zenon DEF Laid, EndOf
  <2>2. end = [i \in 1..EocdLen |-> Cell(EndOf(t, centrals), i)]
    BY Zenon DEF Header
  <2>3. EocdLen \in Nat
    BY DEF EocdLen
  <2> HIDE DEF end
  <2>4. d \in 1..Len(end) /\ end[d] = Cell(EndOf(t, centrals), d)
    BY <2>2, <2>3
  <2> QED
    BY <2>1, <2>4, Zenon DEF Standing
<1> QED
  BY <1>1, <1>2, <1>3 DEF Painted

\* The lengths and the places of a sketch.
LEMMA SketchRises ==
    ASSUME NEW t \in Seq(PlainEntries), NEW bytes, NEW L, NEW C, Sketched(bytes, t, L, C),
           NEW n, n = Len(t)
    PROVE  /\ n \in Nat
           /\ \A k \in 1..n : /\ t[k] \in PlainEntries
                              /\ t[k].path \in Seq(Nat) /\ t[k].bytes \in Seq(PlainCells)
                              /\ Len(t[k].path) \in Nat /\ Len(t[k].bytes) \in Nat
                              /\ k \in 0..n /\ k - 1 \in 0..n
           /\ \A k \in 0..n : L[k] \in Nat /\ C[k] \in Nat
           /\ \A j, k \in 0..n : j <= k => L[j] <= L[k] /\ C[j] <= C[k]
           /\ \A i \in Nat : L[0] < i /\ i <= L[n] => \E k \in 1..n : L[k - 1] < i /\ i <= L[k]
           /\ \A i \in Nat : C[0] < i /\ i <= C[n] => \E k \in 1..n : C[k - 1] < i /\ i <= C[k]
<1>1. n \in Nat
  OBVIOUS
<1>2. \A k \in 1..n : t[k] \in PlainEntries /\ k \in 0..n /\ k - 1 \in 0..n
  OBVIOUS
<1>3. \A k \in 1..n : /\ t[k].path \in Seq(Nat) /\ t[k].bytes \in Seq(PlainCells)
                       /\ Len(t[k].path) \in Nat /\ Len(t[k].bytes) \in Nat
  BY ONLY <1>2 DEF PlainEntries
<1>4. /\ L \in [0..n -> Nat] /\ C \in [0..n -> Nat]
      /\ \A k \in 1..n : /\ L[k] = L[k - 1] + LocalLen + Len(t[k].path) + Len(t[k].bytes)
                         /\ C[k] = C[k - 1] + CentralLen + Len(t[k].path)
  BY Zenon DEF Sketched
<1>5. \A k \in 0..n : L[k] \in Nat /\ C[k] \in Nat
  BY <1>4
<1>6. \A k \in 1..n : L[k - 1] < L[k] /\ C[k - 1] < C[k]
  <2> SUFFICES ASSUME NEW k \in 1..n PROVE L[k - 1] < L[k] /\ C[k - 1] < C[k]
    OBVIOUS
  <2> DEFINE a == L[k - 1] b == C[k - 1] p == Len(t[k].path) q == Len(t[k].bytes)
  <2>1. a \in Nat /\ b \in Nat /\ p \in Nat /\ q \in Nat
    BY <1>2, <1>3, <1>5
  <2>2. L[k] = a + LocalLen + p + q /\ C[k] = b + CentralLen + p
    BY <1>4
  <2> HIDE DEF a, b, p, q
  <2>3. a < L[k] /\ b < C[k]
    BY <2>1, <2>2 DEF LocalLen, CentralLen
  <2> QED
    BY <2>3 DEF a, b
<1>7. /\ \A j, k \in 0..n : j <= k => L[j] <= L[k]
      /\ \A i \in Nat : L[0] < i /\ i <= L[n] => \E k \in 1..n : L[k - 1] < i /\ i <= L[k]
  BY ONLY <1>1, <1>4, <1>6, Rising
<1>8. /\ \A j, k \in 0..n : j <= k => C[j] <= C[k]
      /\ \A i \in Nat : C[0] < i /\ i <= C[n] => \E k \in 1..n : C[k - 1] < i /\ i <= C[k]
  BY ONLY <1>1, <1>4, <1>6, Rising
<1> QED
  BY <1>1, <1>2, <1>3, <1>5, <1>7, <1>8

\* What can stand at a place of an archive.
Place(bytes, t, L, C, i) ==
    \/ bytes[i] \in PlainCells
    \/ \E k \in 1..Len(t) : \E d \in 1..LocalLen :
          i = L[k - 1] + d /\ bytes[i] = Cell(LocalHeader(t[k]), d)
    \/ \E k \in 1..Len(t) : \E d \in 1..CentralLen :
          i = C[k - 1] + d /\ bytes[i] = Cell(CentralHeader(t[k], L[k - 1]), d)
    \/ \E d \in 1..EocdLen : i = C[Len(t)] + d /\ bytes[i] = Cell(EndOf(t, C), d)

LEMMA ElementsOf ==
    ASSUME NEW S, NEW s \in Seq(S)
    PROVE  \A j \in 1..Len(s) : s[j] \in S
  OBVIOUS

LEMMA EveryPlace ==
    ASSUME NEW t \in Seq(PlainEntries), NEW bytes, NEW L, NEW C,
           Sketched(bytes, t, L, C), Painted(bytes, t, L, C), NEW i \in 1..Len(bytes)
    PROVE  Place(bytes, t, L, C, i)
<1> DEFINE n == Len(t)
<1>0. n = Len(t)
  OBVIOUS
<1> HIDE DEF n
<1>1. /\ n \in Nat
      /\ \A k \in 1..n : /\ t[k] \in PlainEntries
                         /\ t[k].path \in Seq(Nat) /\ t[k].bytes \in Seq(PlainCells)
                         /\ Len(t[k].path) \in Nat /\ Len(t[k].bytes) \in Nat
                         /\ k \in 0..n /\ k - 1 \in 0..n
      /\ \A k \in 0..n : L[k] \in Nat /\ C[k] \in Nat
      /\ \A j \in Nat : L[0] < j /\ j <= L[n] => \E k \in 1..n : L[k - 1] < j /\ j <= L[k]
      /\ \A j \in Nat : C[0] < j /\ j <= C[n] => \E k \in 1..n : C[k - 1] < j /\ j <= C[k]
  BY <1>0, SketchRises
<1>2. /\ L[0] = 0 /\ C[0] = L[n] /\ Len(bytes) = C[n] + EocdLen
      /\ \A k \in 1..n : /\ L[k] = L[k - 1] + LocalLen + Len(t[k].path) + Len(t[k].bytes)
                         /\ C[k] = C[k - 1] + CentralLen + Len(t[k].path)
  BY <1>0, Zenon DEF Sketched
<1>3. i \in Nat /\ 1 <= i /\ i <= C[n] + EocdLen /\ EocdLen \in Nat /\ LocalLen \in Nat /\ CentralLen \in Nat
  BY <1>1, <1>2 DEF EocdLen, LocalLen, CentralLen
<1>4. C[0] \in Nat /\ C[n] \in Nat
  BY <1>1
<1>5. \A v \in Nat : Byte(v) \in PlainCells
  BY DEF PlainCells
<1>6. CASE i <= C[0]
  <2>0. L[0] < i /\ i <= L[n] /\ i \in Nat
    BY ONLY <1>2, <1>3, <1>4, <1>6
  <2>1. PICK k \in 1..n : L[k - 1] < i /\ i <= L[k]
    BY <1>1, <2>0, Zenon
  <2> DEFINE a == L[k - 1] p == Len(t[k].path) q == Len(t[k].bytes) d == i - a
  <2>2. a \in Nat /\ p \in Nat /\ q \in Nat /\ L[k] = a + LocalLen + p + q /\ a < i /\ i <= L[k]
    BY <1>1, <1>2, <2>1
  <2>3. /\ \A j \in 1..LocalLen : bytes[a + j] = Cell(LocalHeader(t[k]), j)
        /\ \A j \in 1..p : bytes[a + LocalLen + j] = Byte(t[k].path[j])
        /\ \A j \in 1..q : bytes[a + LocalLen + p + j] = t[k].bytes[j]
    BY <1>0, Zenon DEF Painted
  <2>4. t[k].path \in Seq(Nat) /\ t[k].bytes \in Seq(PlainCells)
    BY <1>1
  <2>5. (\A j \in 1..p : t[k].path[j] \in Nat) /\ (\A j \in 1..q : t[k].bytes[j] \in PlainCells)
    <3>1. \A j \in 1..p : t[k].path[j] \in Nat
      BY <2>4, ElementsOf, Zenon
    <3>2. \A j \in 1..q : t[k].bytes[j] \in PlainCells
      BY <2>4, ElementsOf, Zenon
    <3> QED
      BY ONLY <3>1, <3>2
  <2> HIDE DEF a, p, q
  <2>6. CASE d <= LocalLen
    <3>1. d \in 1..LocalLen /\ a + d = i
      BY <1>3, <2>2, <2>6
    <3>2. bytes[i] = Cell(LocalHeader(t[k]), d) /\ i = a + d
      BY <2>3, <3>1
    <3> HIDE DEF d
    <3> QED
      BY <1>0, <3>1, <3>2, Zenon DEF Place, a
  <2>7. CASE ~(d <= LocalLen) /\ d <= LocalLen + p
    <3>1. d - LocalLen \in 1..p /\ a + LocalLen + (d - LocalLen) = i
      BY <1>3, <2>2, <2>7
    <3>2. bytes[i] = Byte(t[k].path[d - LocalLen])
      BY <2>3, <3>1
    <3>3. bytes[i] \in PlainCells
      BY <1>5, <2>5, <3>1, <3>2
    <3> QED
      BY <3>3 DEF Place
  <2>8. CASE ~(d <= LocalLen + p)
    <3>1. d - LocalLen - p \in 1..q /\ a + LocalLen + p + (d - LocalLen - p) = i
      BY <1>3, <2>2, <2>8
    <3>2. bytes[i] \in PlainCells
      BY <2>3, <2>5, <3>1
    <3> QED
      BY <3>2 DEF Place
  <2> QED
    BY <2>6, <2>7, <2>8
<1>7. CASE ~(i <= C[0]) /\ i <= C[n]
  <2>0. C[0] < i /\ i <= C[n] /\ i \in Nat
    BY ONLY <1>3, <1>4, <1>7
  <2>1. PICK k \in 1..n : C[k - 1] < i /\ i <= C[k]
    BY <1>1, <2>0, Zenon
  <2> DEFINE a == C[k - 1] p == Len(t[k].path) d == i - a
  <2>2. a \in Nat /\ p \in Nat /\ C[k] = a + CentralLen + p /\ a < i /\ i <= C[k]
    BY <1>1, <1>2, <2>1
  <2>3. /\ \A j \in 1..CentralLen : bytes[a + j] = Cell(CentralHeader(t[k], L[k - 1]), j)
        /\ \A j \in 1..p : bytes[a + CentralLen + j] = Byte(t[k].path[j])
    BY <1>0, Zenon DEF Painted
  <2>4. t[k].path \in Seq(Nat)
    BY <1>1
  <2>5. \A j \in 1..p : t[k].path[j] \in Nat
    BY <2>4, ElementsOf, Zenon
  <2> HIDE DEF a, p
  <2>6. CASE d <= CentralLen
    <3>1. d \in 1..CentralLen /\ a + d = i
      BY <1>3, <2>2, <2>6
    <3>2. bytes[i] = Cell(CentralHeader(t[k], L[k - 1]), d) /\ i = a + d
      BY <2>3, <3>1
    <3> HIDE DEF d
    <3> QED
      BY <1>0, <3>1, <3>2, Zenon DEF Place, a
  <2>7. CASE ~(d <= CentralLen)
    <3>1. d - CentralLen \in 1..p /\ a + CentralLen + (d - CentralLen) = i
      BY <1>3, <2>2, <2>7
    <3>2. bytes[i] = Byte(t[k].path[d - CentralLen])
      BY <2>3, <3>1
    <3>3. bytes[i] \in PlainCells
      BY <1>5, <2>5, <3>1, <3>2
    <3> QED
      BY <3>3 DEF Place
  <2> QED
    BY <2>6, <2>7
<1>8. CASE ~(i <= C[n])
  <2> DEFINE d == i - C[n]
  <2>1. d \in 1..EocdLen /\ i = C[n] + d
    BY <1>3, <1>4, <1>8
  <2>2. \A j \in 1..EocdLen : bytes[C[n] + j] = Cell(EndOf(t, C), j)
    BY <1>0, Zenon DEF Painted
  <2> HIDE DEF d
  <2>3. bytes[i] = Cell(EndOf(t, C), d)
    BY <2>1, <2>2
  <2> QED
    BY <1>0, <2>1, <2>3, Zenon DEF Place
<1> QED
  BY <1>3, <1>4, <1>6, <1>7, <1>8

\* Where headers start, and that they are whole there.
Starts(bytes, t, L, C, i) ==
    \/ bytes[i] \in PlainCells
    \/ \E k \in 1..Len(t) : i = L[k - 1] + 1 /\ bytes[i] = Cell(LocalHeader(t[k]), 1)
    \/ \E k \in 1..Len(t) : i = C[k - 1] + 1 /\ bytes[i] = Cell(CentralHeader(t[k], L[k - 1]), 1)
    \/ i = C[Len(t)] + 1 /\ bytes[i] = Cell(EndOf(t, C), 1)

LEMMA Signatures ==
    /\ \A c \in PlainCells : c.of.signature = "byte" /\ c.at = 1
    /\ \A e : LocalHeader(e).signature = "local"
    /\ \A e, offset : CentralHeader(e, offset).signature = "central"
    /\ \A t, C : EndOf(t, C).signature = "eocd"
    /\ \A header, at : Cell(header, at).of = header /\ Cell(header, at).at = at
<1>1. \A c \in PlainCells : c.of.signature = "byte" /\ c.at = 1
  BY DEF PlainCells, Byte, Cell
<1>2. \A e : LocalHeader(e).signature = "local"
  BY DEF LocalHeader
<1>3. \A e, offset : CentralHeader(e, offset).signature = "central"
  BY DEF CentralHeader
<1>4. \A t, C : EndOf(t, C).signature = "eocd"
  BY DEF EndOf, Eocd
<1>5. \A header, at : Cell(header, at).of = header /\ Cell(header, at).at = at
  BY DEF Cell
<1> QED
  BY <1>1, <1>2, <1>3, <1>4, <1>5

LEMMA StartsThere ==
    ASSUME NEW t \in Seq(PlainEntries), NEW bytes, NEW L, NEW C,
           Sketched(bytes, t, L, C), Painted(bytes, t, L, C), NEW i \in 1..Len(bytes), bytes[i].at = 1
    PROVE  Starts(bytes, t, L, C, i)
<1>1. Place(bytes, t, L, C, i)
  BY EveryPlace
<1>2. CASE \E k \in 1..Len(t) : \E d \in 1..LocalLen :
              i = L[k - 1] + d /\ bytes[i] = Cell(LocalHeader(t[k]), d)
  <2>1. PICK k \in 1..Len(t), d \in 1..LocalLen :
              i = L[k - 1] + d /\ bytes[i] = Cell(LocalHeader(t[k]), d)
    BY <1>2
  <2>2. d = 1
    BY <2>1, Signatures
  <2> QED
    BY <2>1, <2>2, Zenon DEF Starts
<1>3. CASE \E k \in 1..Len(t) : \E d \in 1..CentralLen :
              i = C[k - 1] + d /\ bytes[i] = Cell(CentralHeader(t[k], L[k - 1]), d)
  <2>1. PICK k \in 1..Len(t), d \in 1..CentralLen :
              i = C[k - 1] + d /\ bytes[i] = Cell(CentralHeader(t[k], L[k - 1]), d)
    BY <1>3
  <2>2. d = 1
    BY <2>1, Signatures
  <2> QED
    BY <2>1, <2>2, Zenon DEF Starts
<1>4. CASE \E d \in 1..EocdLen : i = C[Len(t)] + d /\ bytes[i] = Cell(EndOf(t, C), d)
  <2>1. PICK d \in 1..EocdLen : i = C[Len(t)] + d /\ bytes[i] = Cell(EndOf(t, C), d)
    BY <1>4
  <2>2. d = 1
    BY <2>1, Signatures
  <2> QED
    BY <2>1, <2>2, Zenon DEF Starts
<1>5. CASE bytes[i] \in PlainCells
  BY <1>5, Zenon DEF Starts
<1> QED
  BY <1>1, <1>2, <1>3, <1>4, <1>5, Zenon DEF Place

WholeAt(bytes, i) ==
    \A d \in 1..LengthOf(bytes[i].of.signature) :
        /\ i + d - 1 \in 1..Len(bytes)
        /\ bytes[i + d - 1] = Cell(bytes[i].of, d)

LEMMA HeaderFits ==
    ASSUME NEW a \in Nat, NEW m \in Nat, NEW rest \in Nat, NEW next, next = a + m + rest,
           NEW b \in Nat, next <= b, NEW more \in Nat, NEW length, length = b + more, NEW i, i = a + 1
    PROVE  \A d \in 1..m : i + d - 1 = a + d /\ a + d \in 1..length
OBVIOUS

LEMMA HeadersAreWhole ==
    ASSUME NEW t \in Seq(PlainEntries), NEW bytes, NEW L, NEW C,
           Sketched(bytes, t, L, C), Painted(bytes, t, L, C), NEW i \in 1..Len(bytes), bytes[i].at = 1
    PROVE  WholeAt(bytes, i)
<1> DEFINE n == Len(t)
<1>0. n = Len(t)
  OBVIOUS
<1> HIDE DEF n
<1>1. /\ n \in Nat
      /\ \A k \in 1..n : /\ Len(t[k].path) \in Nat /\ Len(t[k].bytes) \in Nat
                         /\ k \in 0..n /\ k - 1 \in 0..n
      /\ \A k \in 0..n : L[k] \in Nat /\ C[k] \in Nat
      /\ \A j, k \in 0..n : j <= k => L[j] <= L[k] /\ C[j] <= C[k]
  BY <1>0, SketchRises
<1>2. /\ C[0] = L[n] /\ Len(bytes) = C[n] + EocdLen
      /\ \A k \in 1..n : /\ L[k] = L[k - 1] + LocalLen + Len(t[k].path) + Len(t[k].bytes)
                         /\ C[k] = C[k - 1] + CentralLen + Len(t[k].path)
  BY <1>0, Zenon DEF Sketched
<1>3. 0 \in 0..n /\ n \in 0..n
  BY <1>1
<1>4. /\ LengthOf("local") = LocalLen /\ LengthOf("central") = CentralLen
      /\ LengthOf("eocd") = EocdLen /\ LengthOf("byte") = 1
  BY DEF LengthOf
<1>5. CASE bytes[i] \in PlainCells
  <2>1. bytes[i].of.signature = "byte" /\ bytes[i] = Cell(bytes[i].of, 1)
    BY <1>5 DEF PlainCells, Byte, Cell
  <2>2. \A d \in 1..1 : d = 1 /\ i + d - 1 = i
    OBVIOUS
  <2> QED
    BY <1>4, <2>1, <2>2 DEF WholeAt
<1>6. ASSUME NEW k \in 1..n, i = L[k - 1] + 1, bytes[i] = Cell(LocalHeader(t[k]), 1)
      PROVE  WholeAt(bytes, i)
  <2>1. bytes[i].of = LocalHeader(t[k]) /\ LengthOf(bytes[i].of.signature) = LocalLen
    BY <1>4, <1>6, Signatures
  <2>2. \A d \in 1..LocalLen : bytes[L[k - 1] + d] = Cell(LocalHeader(t[k]), d)
    BY <1>0, Zenon DEF Painted
  <2>3. /\ k \in 0..n /\ k - 1 \in 0..n /\ L[k - 1] \in Nat /\ L[k] <= C[0] /\ C[0] <= C[n]
        /\ L[k] \in Nat /\ C[0] \in Nat /\ C[n] \in Nat
        /\ L[k] = L[k - 1] + LocalLen + Len(t[k].path) + Len(t[k].bytes)
        /\ Len(t[k].path) \in Nat /\ Len(t[k].bytes) \in Nat
    BY <1>1, <1>2, <1>3
  <2> DEFINE rest == Len(t[k].path) + Len(t[k].bytes) a == L[k - 1] next == L[k] b == C[n]
  <2>4. /\ a \in Nat /\ rest \in Nat /\ LocalLen \in Nat /\ EocdLen \in Nat /\ b \in Nat
        /\ next = a + LocalLen + rest /\ next <= b /\ Len(bytes) = b + EocdLen /\ i = a + 1
    <3>1. LocalLen \in Nat /\ EocdLen \in Nat
      BY DEF LocalLen, EocdLen
    <3>2. next <= b
      BY ONLY <2>3
    <3> DEFINE p == Len(t[k].path) q == Len(t[k].bytes)
    <3>3. a \in Nat /\ p \in Nat /\ q \in Nat /\ next = a + LocalLen + p + q /\ rest = p + q
      BY ONLY <2>3
    <3>4. b \in Nat /\ Len(bytes) = b + EocdLen /\ i = a + 1
      BY ONLY <1>2, <1>6, <2>3
    <3> HIDE DEF p, q, a, rest, next, b
    <3>5. next = a + LocalLen + rest /\ rest \in Nat
      BY ONLY <3>1, <3>3
    <3> QED
      BY ONLY <3>1, <3>2, <3>3, <3>4, <3>5
  <2> HIDE DEF a, rest, next, b
  <2>6. \A d \in 1..LocalLen : i + d - 1 = a + d /\ a + d \in 1..Len(bytes)
    BY ONLY <2>4, HeaderFits
  <2>5. \A d \in 1..LocalLen : i + d - 1 = L[k - 1] + d /\ L[k - 1] + d \in 1..Len(bytes)
    BY ONLY <2>6 DEF a
  <2> QED
    BY <2>1, <2>2, <2>5 DEF WholeAt
<1>7. ASSUME NEW k \in 1..n, i = C[k - 1] + 1, bytes[i] = Cell(CentralHeader(t[k], L[k - 1]), 1)
      PROVE  WholeAt(bytes, i)
  <2>1. bytes[i].of = CentralHeader(t[k], L[k - 1]) /\ LengthOf(bytes[i].of.signature) = CentralLen
    BY <1>4, <1>7, Signatures
  <2>2. \A d \in 1..CentralLen : bytes[C[k - 1] + d] = Cell(CentralHeader(t[k], L[k - 1]), d)
    BY <1>0, Zenon DEF Painted
  <2>3. /\ k \in 0..n /\ k - 1 \in 0..n /\ C[k - 1] \in Nat /\ C[k] <= C[n]
        /\ C[k] \in Nat /\ C[n] \in Nat
        /\ C[k] = C[k - 1] + CentralLen + Len(t[k].path)
        /\ Len(t[k].path) \in Nat
    BY <1>1, <1>2, <1>3
  <2> DEFINE rest == Len(t[k].path) a == C[k - 1] next == C[k] b == C[n]
  <2>4. /\ a \in Nat /\ rest \in Nat /\ CentralLen \in Nat /\ EocdLen \in Nat /\ b \in Nat
        /\ next = a + CentralLen + rest /\ next <= b /\ Len(bytes) = b + EocdLen /\ i = a + 1
    <3>1. CentralLen \in Nat /\ EocdLen \in Nat
      BY DEF CentralLen, EocdLen
    <3> QED
      BY <1>2, <1>7, <2>3, <3>1
  <2> HIDE DEF a, rest, next, b
  <2>6. \A d \in 1..CentralLen : i + d - 1 = a + d /\ a + d \in 1..Len(bytes)
    BY ONLY <2>4, HeaderFits
  <2>5. \A d \in 1..CentralLen : i + d - 1 = C[k - 1] + d /\ C[k - 1] + d \in 1..Len(bytes)
    BY ONLY <2>6 DEF a
  <2> QED
    BY <2>1, <2>2, <2>5 DEF WholeAt
<1>8. CASE i = C[n] + 1 /\ bytes[i] = Cell(EndOf(t, C), 1)
  <2>1. bytes[i].of = EndOf(t, C) /\ LengthOf(bytes[i].of.signature) = EocdLen
    BY <1>4, <1>8, Signatures
  <2>2. \A d \in 1..EocdLen : bytes[C[n] + d] = Cell(EndOf(t, C), d)
    BY <1>0, Zenon DEF Painted
  <2>3. C[n] \in Nat /\ Len(bytes) = C[n] + EocdLen
    BY <1>1, <1>2, <1>3
  <2> DEFINE a == C[n]
  <2>4. a \in Nat /\ a = a + 0 + 0 /\ Len(bytes) = a + EocdLen /\ i = a + 1 /\ EocdLen \in Nat
    BY <1>8, <2>3 DEF EocdLen
  <2> HIDE DEF a
  <2>6. \A d \in 1..EocdLen : i + d - 1 = a + d /\ a + d \in 1..Len(bytes)
    BY ONLY <2>4
  <2>5. \A d \in 1..EocdLen : i + d - 1 = C[n] + d /\ C[n] + d \in 1..Len(bytes)
    BY ONLY <2>6 DEF a
  <2> QED
    BY <2>1, <2>2, <2>5 DEF WholeAt
<1>9. Starts(bytes, t, L, C, i)
  BY StartsThere
<1> QED
  BY <1>0, <1>5, <1>6, <1>7, <1>8, <1>9, Zenon DEF Starts

\* One header or byte holds something else: the others are as they were.
Altered(bytes, other, k) ==
    /\ Len(other) = Len(bytes)
    /\ \A i \in 1..Len(bytes) :
          /\ other[i].at = bytes[i].at /\ other[i].of.signature = bytes[i].of.signature
          /\ bytes[i].at = 1 /\ i # k => other[i] = bytes[i]

LEMMA SetFieldAlters ==
    ASSUME NEW T, NEW bytes \in Seq(T), NEW k \in 1..Len(bytes), bytes[k].at = 1, WholeAt(bytes, k),
           LengthOf(bytes[k].of.signature) \in Nat \ {0},
           NEW header, header.signature = bytes[k].of.signature
    PROVE  /\ \E U : SetField(bytes, k, header) \in Seq(U)
           /\ Altered(bytes, SetField(bytes, k, header), k)
           /\ SetField(bytes, k, header)[k] = Cell(header, 1)
<1> DEFINE other == SetField(bytes, k, header)
           length == LengthOf(bytes[k].of.signature)
           U == {other[i] : i \in 1..Len(bytes)}
<1>1. Len(bytes) \in Nat /\ DOMAIN bytes = 1..Len(bytes) /\ length \in Nat \ {0}
  OBVIOUS
<1>2. other = [i \in DOMAIN bytes |-> IF i \in k..(k + length - 1)
                                      THEN [bytes[i] EXCEPT !.of = header] ELSE bytes[i]]
  BY Zenon DEF SetField
<1>3. \A d \in 1..length : k + d - 1 \in 1..Len(bytes) /\ bytes[k + d - 1] = Cell(bytes[k].of, d)
  BY Zenon DEF WholeAt
<1> HIDE DEF other, length
<1>4. ASSUME NEW i \in 1..Len(bytes), i \in k..(k + length - 1)
      PROVE  other[i] = Cell(header, i - k + 1) /\ bytes[i] = Cell(bytes[k].of, i - k + 1)
  <2>1. i - k + 1 \in 1..length /\ k + (i - k + 1) - 1 = i
    BY <1>1, <1>4
  <2>2. bytes[i] = Cell(bytes[k].of, i - k + 1)
    BY <1>3, <2>1
  <2>3. other[i] = [bytes[i] EXCEPT !.of = header]
    BY <1>1, <1>2, <1>4
  <2>4. \A h, at : [Cell(h, at) EXCEPT !.of = header] = Cell(header, at)
    BY DEF Cell
  <2> QED
    BY <2>2, <2>3, <2>4
<1>5. ASSUME NEW i \in 1..Len(bytes), ~(i \in k..(k + length - 1)) PROVE other[i] = bytes[i]
  BY <1>1, <1>2, <1>5
<1>6. other \in Seq(U) /\ Len(other) = Len(bytes)
  BY <1>1, <1>2
<1> HIDE DEF U
<1>7. ASSUME NEW i \in 1..Len(bytes)
      PROVE  /\ other[i].at = bytes[i].at /\ other[i].of.signature = bytes[i].of.signature
             /\ bytes[i].at = 1 /\ i # k => other[i] = bytes[i]
  <2>1. CASE i \in k..(k + length - 1)
    <3>1. other[i].of = header /\ other[i].at = i - k + 1 /\ bytes[i].of = bytes[k].of /\ bytes[i].at = i - k + 1
      BY <1>4, <2>1, Signatures
    <3>2. i - k + 1 = 1 => i = k
      OBVIOUS
    <3> QED
      BY <3>1, <3>2
  <2>2. CASE ~(i \in k..(k + length - 1))
    BY <1>5, <2>2
  <2> QED
    BY <2>1, <2>2
<1>8. other[k] = Cell(header, 1)
  <2>1. k \in k..(k + length - 1) /\ k - k + 1 = 1
    BY <1>1
  <2> QED
    BY <1>4, <2>1
<1>9. Altered(bytes, other, k)
  BY <1>6, <1>7, Zenon DEF Altered
<1> QED
  BY <1>6, <1>8, <1>9 DEF other

-----------------------------------------------------------------------------
(* Archives: what was read was checked. *)

\* What the reader has checked of an entry it returns.
Checked(bytes, cursor, name, central, local) ==
    /\ central = bytes[cursor + 1].of /\ Stands(bytes, cursor, "central", CentralLen)
    /\ name = Slice(bytes, cursor + CentralLen, central.nameLength)
    /\ cursor + CentralLen + central.nameLength <= Len(bytes)
    /\ \A i \in DOMAIN name : name[i].of.signature = "byte"
    /\ local = bytes[central.offset + 1].of /\ Stands(bytes, central.offset, "local", LocalLen)
    /\ local.crc = central.crc /\ local.nameLength = Len(name)
    /\ Slice(bytes, central.offset + LocalLen, Len(name)) = name

LEMMA ReturnedIsChecked ==
    ASSUME NEW bytes, NEW cursor, NEW turn \in CentralEntry(bytes, cursor)
    PROVE  \E name, central, local :
              /\ Checked(bytes, cursor, name, central, local)
              /\ turn = [next |-> cursor + CentralLen + central.nameLength,
                         entry |-> BundleEntry(PathOf(name), central.crc)]
<1> DEFINE central == HeaderAt(bytes, cursor)
           next == cursor + CentralLen + central.nameLength
           name == Slice(bytes, cursor + CentralLen, central.nameLength)
           every == \A i \in DOMAIN name : name[i].of.signature = "byte"
           ok == /\ central.flags = 0 /\ central.method = 0
                 /\ central.compressed = central.uncompressed
                 /\ central.extraLength = 0 /\ central.commentLength = 0
                 /\ next <= Len(bytes)
                 /\ every
                 /\ IsAscii(PathOf(name))
           turns == {[next |-> next, entry |-> BundleEntry(PathOf(name), payload)] :
                        payload \in LocalPayload(bytes, central, name)}
<1>1. CentralEntry(bytes, cursor)
        = IF ~Stands(bytes, cursor, "central", CentralLen) THEN {} ELSE IF ok THEN turns ELSE {}
  BY Zenon DEF CentralEntry
<1>2. Stands(bytes, cursor, "central", CentralLen) /\ ok /\ turn \in turns
  <2> HIDE DEF ok, turns
  <2> QED
    BY <1>1
<1>3. next <= Len(bytes) /\ every
  BY <1>2
<1> HIDE DEF ok, every
<1>4. PICK payload \in LocalPayload(bytes, central, name) :
         turn = [next |-> next, entry |-> BundleEntry(PathOf(name), payload)]
  <2> HIDE DEF central, next, name
  <2> QED
    BY <1>2
<1> DEFINE offset == central.offset
           local == HeaderAt(bytes, offset)
           start == offset + LocalLen + Len(name)
           slice == Slice(bytes, start, central.compressed)
           fine == /\ Stands(bytes, offset, "local", LocalLen)
                   /\ local.flags = 0 /\ local.method = 0
                   /\ local.crc = central.crc
                   /\ local.compressed = central.compressed
                   /\ local.uncompressed = central.uncompressed
                   /\ local.extraLength = 0 /\ local.nameLength = Len(name)
                   /\ start <= Len(bytes) /\ Slice(bytes, offset + LocalLen, Len(name)) = name
                   /\ start + central.compressed <= Len(bytes)
                   /\ ChecksumFits(slice, central)
<1> HIDE DEF central, name, turns, next
<1>5. LocalPayload(bytes, central, name) = IF fine THEN {slice} ELSE {}
  BY Zenon DEF LocalPayload
<1>6. fine /\ payload = slice
  <2> HIDE DEF fine, slice
  <2> QED
    BY <1>4, <1>5
<1>7. payload = central.crc
  BY <1>6 DEF ChecksumFits, Crc32
<1>8. Checked(bytes, cursor, name, central, local)
  <2>1. central = bytes[cursor + 1].of /\ name = Slice(bytes, cursor + CentralLen, central.nameLength)
        /\ next = cursor + CentralLen + central.nameLength
    BY Zenon DEF central, name, next, HeaderAt
  <2>2. local = bytes[central.offset + 1].of
    BY Zenon DEF HeaderAt
  <2>3. \A i \in DOMAIN name : name[i].of.signature = "byte"
    BY <1>3 DEF every
  <2> HIDE DEF local, start, slice
  <2> QED
    BY <1>2, <1>3, <1>6, <2>1, <2>2, <2>3, Zenon DEF Checked
<1>9. turn = [next |-> cursor + CentralLen + central.nameLength,
              entry |-> BundleEntry(PathOf(name), central.crc)]
  BY <1>4, <1>7 DEF next
<1> QED
  BY <1>8, <1>9

\* A name whose cells stand somewhere as those of a path is of that path.
Named(bytes, base, path) ==
    /\ base \in Nat /\ base + Len(path) <= Len(bytes)
    /\ \A d \in 1..Len(path) : bytes[base + d] = Byte(path[d])

LEMMA NameOfPath ==
    ASSUME NEW path \in Seq(Nat), NEW T, NEW bytes \in Seq(T), NEW base, Named(bytes, base, path),
           NEW name, name = Slice(bytes, base, Len(path))
    PROVE  PathOf(name) = path
<1> USE DEF Named
<1>1. Len(path) \in Nat /\ Len(bytes) \in Nat /\ DOMAIN path = 1..Len(path)
  OBVIOUS
<1>2. name = SubSeq(bytes, base + 1, base + Len(path))
  BY DEF Slice
<1>3. DOMAIN name = 1..Len(path) /\ \A d \in 1..Len(path) : name[d] = bytes[base + d]
  BY <1>1, <1>2
<1>4. \A d \in 1..Len(path) : name[d].of.value = path[d]
  <2>1. \A v : Byte(v).of.value = v
    BY DEF Byte, Cell
  <2> QED
    BY <1>3, <2>1
<1>5. PathOf(name) = [d \in 1..Len(path) |-> path[d]]
  BY <1>3, <1>4 DEF PathOf
<1> QED
  BY <1>1, <1>5

LEMMA SliceLength ==
    ASSUME NEW T, NEW bytes \in Seq(T), NEW base \in Nat, NEW length \in Nat, base + length <= Len(bytes)
    PROVE  Len(Slice(bytes, base, length)) = length
<1>1. Slice(bytes, base, length) = SubSeq(bytes, base + 1, base + length)
  BY Zenon DEF Slice
<1>2. Len(SubSeq(bytes, base + 1, base + length)) = length
  OBVIOUS
<1> QED
  BY <1>1, <1>2

\* A chain of turns that can each read one entry only reads those entries.
Pinned(bytes, t, C) ==
    \A k \in 1..Len(t) : CentralEntry(bytes, C[k - 1]) \subseteq {[next |-> C[k], entry |-> t[k]]}

LEMMA PinnedDirectory ==
    ASSUME NEW E, NEW t \in Seq(E), NEW bytes, NEW C, Pinned(bytes, t, C)
    PROVE  CentralEntries(bytes, C[0], Len(t)) \subseteq {[next |-> C[Len(t)], entries |-> t]}
<1> DEFINE n == Len(t)
<1>1. n \in Nat /\ n = Len(t)
  OBVIOUS
<1>4. \A k \in 1..n : CentralEntry(bytes, C[k - 1]) \subseteq {[next |-> C[k], entry |-> t[k]]}
  BY Zenon DEF Pinned
<1> HIDE DEF n
<1>2. PICK read : /\ CentralEntries(bytes, C[0], n) = read[n]
                  /\ read[0] = {[next |-> C[0], entries |-> <<>>]}
                  /\ \A k \in 1..n : read[k] = Turn(bytes, read[k - 1])
  <2>1. PICK directory : directory = CentralEntries(bytes, C[0], n)
    OBVIOUS
  <2> QED
    BY ONLY <1>1, <2>1, DirectoryGrows
<1> DEFINE front(k) == SubSeq(t, 1, k)
           readTo == {k \in Nat : k <= n => read[k] \subseteq {[next |-> C[k], entries |-> front(k)]}}
<1>5. 0 \in readTo
  <2>1. front(0) = <<>>
    OBVIOUS
  <2> QED
    BY <1>2, <2>1
<1>6. ASSUME NEW k \in Nat, k \in readTo PROVE k + 1 \in readTo
  <2> SUFFICES ASSUME k + 1 <= n
               PROVE  read[k + 1] \subseteq {[next |-> C[k + 1], entries |-> front(k + 1)]}
    OBVIOUS
  <2> DEFINE before == [next |-> C[k], entries |-> front(k)]
  <2>1. read[k] \subseteq {before}
    BY <1>1, <1>6
  <2>2. PICK j \in 1..n : j = k + 1
    BY <1>1
  <2>3. j - 1 = k
    BY ONLY <2>2, k \in Nat
  <2>4. read[j] = Turn(bytes, read[k])
    BY <1>2, <2>3
  <2> DEFINE turn1 == [next |-> C[j], entry |-> t[j]]
  <2>5. CentralEntry(bytes, C[k]) \subseteq {turn1}
    BY <1>4, <2>3
  <2>6. Append(front(k), t[j]) = front(j)
    BY <1>1, <2>2
  <2>8. /\ before.next = C[k] /\ before.entries = front(k)
        /\ turn1.next = C[j] /\ turn1.entry = t[j]
    OBVIOUS
  <2> HIDE DEF before, front, turn1
  <2>9. Turn(bytes, read[k]) \subseteq {[next |-> C[j], entries |-> front(j)]}
    <3> SUFFICES ASSUME NEW d \in Turn(bytes, read[k]) PROVE d = [next |-> C[j], entries |-> front(j)]
      OBVIOUS
    <3>1. PICK b \in read[k] : \E turn \in CentralEntry(bytes, b.next) :
              d = [next |-> turn.next, entries |-> Append(b.entries, turn.entry)]
      BY DEF Turn
    <3>2. b = before
      BY <2>1
    <3>3. PICK turn \in CentralEntry(bytes, C[k]) :
              d = [next |-> turn.next, entries |-> Append(before.entries, turn.entry)]
      BY <2>8, <3>1, <3>2
    <3>4. turn = turn1
      BY <2>5
    <3> QED
      BY <2>6, <2>8, <3>3, <3>4
  <2> QED
    BY <2>2, <2>4, <2>9
<1>7. Nat \subseteq readTo
  <2> HIDE DEF readTo
  <2> QED
    BY <1>5, <1>6, EveryNumber
<1>8. read[n] \subseteq {[next |-> C[n], entries |-> front(n)]}
  <2>1. n \in readTo /\ n <= n
    <3> HIDE DEF readTo
    <3> QED
      BY <1>1, <1>7
  <2> QED
    BY <2>1
<1>9. front(n) = t
  BY <1>1
<1> QED
  BY <1>1, <1>2, <1>8, <1>9

\* Where the parts of one entry are, and that the parts of the archive follow each other.
LEMMA PartsOf ==
    ASSUME NEW t \in Seq(PlainEntries), NEW bytes, NEW L, NEW C,
           Sketched(bytes, t, L, C), Painted(bytes, t, L, C), NEW k \in 1..Len(t),
           NEW l, l = L[k - 1], NEW c, c = C[k - 1], NEW p, p = Len(t[k].path)
    PROVE  /\ l \in Nat /\ c \in Nat /\ p \in Nat /\ t[k].path \in Seq(Nat) /\ Len(bytes) \in Nat
           /\ t[k].bytes \in Seq(PlainCells)
           /\ C[k] = c + CentralLen + p
           /\ l + LocalLen + p <= c /\ c + CentralLen + p <= C[Len(t)]
           /\ C[Len(t)] + EocdLen = Len(bytes) /\ C[Len(t)] \in Nat /\ C[0] \in Nat /\ C[0] <= c
<1> DEFINE n == Len(t) q == Len(t[k].bytes)
<1>0. n = Len(t)
  OBVIOUS
<1> HIDE DEF n
<1>1. /\ n \in Nat
      /\ \A j \in 1..n : /\ t[j].path \in Seq(Nat) /\ t[j].bytes \in Seq(PlainCells)
                         /\ Len(t[j].path) \in Nat /\ Len(t[j].bytes) \in Nat
                         /\ j \in 0..n /\ j - 1 \in 0..n
      /\ \A j \in 0..n : L[j] \in Nat /\ C[j] \in Nat
      /\ \A i, j \in 0..n : i <= j => L[i] <= L[j] /\ C[i] <= C[j]
  BY <1>0, SketchRises
<1>2. /\ C[0] = L[n] /\ Len(bytes) = C[n] + EocdLen
      /\ \A j \in 1..n : /\ L[j] = L[j - 1] + LocalLen + Len(t[j].path) + Len(t[j].bytes)
                         /\ C[j] = C[j - 1] + CentralLen + Len(t[j].path)
  BY <1>0, Zenon DEF Sketched
<1>3. 0 \in 0..n /\ n \in 0..n /\ k \in 1..n
  BY <1>0, <1>1
<1>4. /\ l \in Nat /\ c \in Nat /\ p \in Nat /\ q \in Nat /\ t[k].path \in Seq(Nat)
      /\ t[k].bytes \in Seq(PlainCells) /\ k \in 0..n /\ k - 1 \in 0..n
      /\ L[k] = l + LocalLen + p + q /\ C[k] = c + CentralLen + p
  BY <1>1, <1>2, <1>3
<1>5. L[k] <= L[n] /\ C[0] <= c /\ C[k] <= C[n] /\ C[n] \in Nat /\ C[0] \in Nat /\ L[n] = C[0]
  <2>1. 0 <= k - 1 /\ k <= n
    BY <1>3
  <2> QED
    BY <1>1, <1>2, <1>3, <1>4, <2>1
<1> HIDE DEF q
<1>6. l + LocalLen + p <= c /\ c + CentralLen + p <= C[n]
  BY ONLY <1>4, <1>5 DEF LocalLen, CentralLen
<1>7. Len(bytes) \in Nat
  BY <1>2, <1>5 DEF EocdLen
<1> QED
  BY <1>0, <1>2, <1>4, <1>5, <1>6, <1>7

\* The headers of one entry.
LEMMA HeadsOf ==
    ASSUME NEW t, NEW bytes, NEW L, NEW C, Painted(bytes, t, L, C), NEW k \in 1..Len(t)
    PROVE  /\ bytes[L[k - 1] + 1] = Cell(LocalHeader(t[k]), 1)
           /\ bytes[C[k - 1] + 1] = Cell(CentralHeader(t[k], L[k - 1]), 1)
<1>1. /\ \A d \in 1..LocalLen : bytes[L[k - 1] + d] = Cell(LocalHeader(t[k]), d)
      /\ \A d \in 1..CentralLen : bytes[C[k - 1] + d] = Cell(CentralHeader(t[k], L[k - 1]), d)
  BY Zenon DEF Painted
<1>2. 1 \in 1..LocalLen /\ 1 \in 1..CentralLen
  BY DEF LocalLen, CentralLen
<1> QED
  BY <1>1, <1>2

\* An entry whose central header keeps its checksum and the length of its name is
\* read as it was packed or refused, whatever else was altered.
LEMMA EntryPinned ==
    ASSUME NEW t \in Seq(PlainEntries), NEW bytes, NEW L, NEW C,
           Sketched(bytes, t, L, C), Painted(bytes, t, L, C),
           NEW k \in 1..Len(bytes), NEW T, NEW other \in Seq(T), Altered(bytes, other, k),
           NEW j \in 1..Len(t), NEW h, h = other[C[j - 1] + 1].of,
           h.nameLength = Len(t[j].path), h.crc = t[j].bytes
    PROVE  CentralEntry(other, C[j - 1]) \subseteq {[next |-> C[j], entry |-> t[j]]}
<1> DEFINE l == L[j - 1] c == C[j - 1] path == t[j].path p == Len(t[j].path)
<1>0. l = L[j - 1] /\ c = C[j - 1] /\ p = Len(t[j].path) /\ path = t[j].path
  OBVIOUS
<1>1. /\ l \in Nat /\ c \in Nat /\ p \in Nat /\ path \in Seq(Nat) /\ Len(bytes) \in Nat
      /\ C[j] = c + CentralLen + p
      /\ l + LocalLen + p <= c /\ c + CentralLen + p <= C[Len(t)]
      /\ C[Len(t)] + EocdLen = Len(bytes) /\ C[Len(t)] \in Nat
  <2>1. t \in Seq(PlainEntries) /\ Sketched(bytes, t, L, C) /\ Painted(bytes, t, L, C) /\ j \in 1..Len(t)
    OBVIOUS
  <2> HIDE DEF l, c, p, path
  <2> QED
    BY ONLY <1>0, <2>1, PartsOf, SMTT(20)
<1>10. /\ \A d \in 1..p : bytes[l + LocalLen + d] = Byte(path[d])
       /\ \A d \in 1..p : bytes[c + CentralLen + d] = Byte(path[d])
       /\ bytes[c + 1] = Cell(CentralHeader(t[j], l), 1)
  <2>1. /\ \A d \in 1..p : bytes[l + LocalLen + d] = Byte(path[d])
        /\ \A d \in 1..p : bytes[c + CentralLen + d] = Byte(path[d])
        /\ \A d \in 1..CentralLen : bytes[c + d] = Cell(CentralHeader(t[j], l), d)
    BY Zenon DEF Painted
  <2>2. 1 \in 1..CentralLen
    BY DEF CentralLen
  <2> HIDE DEF l, c, p, path
  <2> QED
    BY <2>1, <2>2
<1>2. /\ Len(other) = Len(bytes)
      /\ \A i \in 1..Len(bytes) : bytes[i].at = 1 /\ i # k => other[i] = bytes[i]
  BY Zenon DEF Altered
<1> SUFFICES ASSUME NEW turn \in CentralEntry(other, c)
             PROVE  turn = [next |-> C[j], entry |-> t[j]]
  OBVIOUS
<1>3. PICK name, central, local :
         /\ Checked(other, c, name, central, local)
         /\ turn = [next |-> c + CentralLen + central.nameLength,
                    entry |-> BundleEntry(PathOf(name), central.crc)]
  BY ReturnedIsChecked
<1>20. h = other[c + 1].of
  OBVIOUS
<1>21. t[j] \in [path : Seq(Nat), bytes : Seq(PlainCells)]
  <2>1. t[j] \in PlainEntries
    OBVIOUS
  <2> QED
    BY ONLY <2>1 DEF PlainEntries
<1>22. h.nameLength = p /\ h.crc = t[j].bytes
  OBVIOUS
<1> HIDE DEF l, c, path, p
<1>4. central = h /\ central.nameLength = p /\ central.crc = t[j].bytes
  BY <1>3, <1>20, <1>22, Zenon DEF Checked
<1>5. /\ name = Slice(other, c + CentralLen, p) /\ Len(name) = p
      /\ c + CentralLen \in Nat /\ c + CentralLen + p <= Len(other)
  <2>0. Len(other) = Len(bytes)
    BY <1>2
  <2>1. c + CentralLen \in Nat /\ c + CentralLen + p <= Len(other)
    BY ONLY <1>1, <2>0 DEF CentralLen, EocdLen
  <2>2. name = Slice(other, c + CentralLen, p)
    BY <1>3, <1>4, Zenon DEF Checked
  <2> QED
    BY <1>1, <2>1, <2>2, SliceLength
<1>6. \A d \in 1..p : /\ c + CentralLen + d \in 1..Len(bytes) /\ l + LocalLen + d \in 1..Len(bytes)
                       /\ l + LocalLen + d < c + CentralLen + 1 /\ c + 1 < c + CentralLen + d
  BY ONLY <1>1 DEF CentralLen, EocdLen, LocalLen
<1>7. \A v : Byte(v).at = 1
  BY DEF Byte, Cell
<1>8. PathOf(name) = path
  <2>1. CASE \A d \in 1..p : k # c + CentralLen + d
    <3>1. \A d \in 1..p : other[c + CentralLen + d] = Byte(path[d])
      <4> SUFFICES ASSUME NEW d \in 1..p PROVE other[c + CentralLen + d] = Byte(path[d])
        OBVIOUS
      <4>1. bytes[c + CentralLen + d] = Byte(path[d])
        BY <1>10
      <4>2. c + CentralLen + d \in 1..Len(bytes) /\ k # c + CentralLen + d
        BY <1>6, <2>1
      <4> QED
        BY <1>2, <1>7, <4>1, <4>2
    <3>2. Named(other, c + CentralLen, path) /\ name = Slice(other, c + CentralLen, Len(path))
      BY <1>5, <3>1, Zenon DEF Named, p, path
    <3> QED
      BY <1>1, <3>2, NameOfPath
  <2>2. CASE \E d \in 1..p : k = c + CentralLen + d
    <3>1. PICK i \in 1..p : k = c + CentralLen + i
      BY <2>2
    <3>2. c + 1 \in 1..Len(bytes) /\ c + 1 # k
      <4>1. c + 1 < c + CentralLen + i
        BY <1>6
      <4>2. c + 1 \in 1..Len(bytes)
        BY ONLY <1>1, SMTT(20) DEF CentralLen, EocdLen
      <4> QED
        BY ONLY <1>1, <3>1, <4>1, <4>2 DEF CentralLen
    <3>3. other[c + 1] = Cell(CentralHeader(t[j], l), 1)
      BY <1>2, <1>10, <3>2, Signatures
    <3>4. central.offset = l
      BY <1>4, <1>20, <3>3, Signatures DEF CentralHeader
    <3>5. name = Slice(other, l + LocalLen, p)
      BY <1>3, <1>5, <3>4, Zenon DEF Checked
    <3>6. \A d \in 1..p : other[l + LocalLen + d] = Byte(path[d])
      <4> SUFFICES ASSUME NEW d \in 1..p PROVE other[l + LocalLen + d] = Byte(path[d])
        OBVIOUS
      <4>1. bytes[l + LocalLen + d] = Byte(path[d])
        BY <1>10
      <4>2. l + LocalLen + d \in 1..Len(bytes) /\ k # l + LocalLen + d
        <5>1. l + LocalLen + d < c + CentralLen + 1 /\ l + LocalLen + d \in 1..Len(bytes)
          BY <1>6
        <5> QED
          BY <1>1, <3>1, <5>1 DEF CentralLen
      <4> QED
        BY <1>2, <1>7, <4>1, <4>2
    <3>7. l + LocalLen \in Nat /\ l + LocalLen + p <= Len(other)
      <4>1. Len(other) = Len(bytes)
        BY <1>2
      <4> QED
        BY ONLY <1>1, <4>1 DEF CentralLen, EocdLen, LocalLen
    <3>8. Named(other, l + LocalLen, path) /\ name = Slice(other, l + LocalLen, Len(path))
      BY <3>5, <3>6, <3>7, Zenon DEF Named, p, path
    <3> QED
      BY <1>1, <3>8, NameOfPath
  <2> QED
    BY <2>1, <2>2
<1>9. BundleEntry(path, t[j].bytes) = t[j]
  BY <1>21 DEF BundleEntry, path
<1> QED
  BY <1>1, <1>3, <1>4, <1>8, <1>9

-----------------------------------------------------------------------------
(* Archives: a header or a byte is altered. *)

\* What an altered header is.
LEMMA FieldSets ==
    /\ FieldsOf("byte") = {"value"}
    /\ FieldsOf("local") = {"flags", "method", "crc", "compressed", "uncompressed", "nameLength",
                            "extraLength", "time"}
    /\ FieldsOf("central") = {"flags", "method", "crc", "compressed", "uncompressed", "nameLength",
                              "extraLength", "commentLength", "offset", "time"}
    /\ FieldsOf("eocd") = {"disk", "centralDisk", "onDisk", "total", "size", "offset", "commentLength"}
    /\ LengthOf("byte") = 1 /\ LengthOf("local") = LocalLen /\ LengthOf("central") = CentralLen
    /\ LengthOf("eocd") = EocdLen
<1>1. FieldsOf("byte") = {"value"} /\ LengthOf("byte") = 1
  BY DEF FieldsOf, LengthOf
<1>2. /\ FieldsOf("local") = {"flags", "method", "crc", "compressed", "uncompressed", "nameLength",
                              "extraLength", "time"}
      /\ LengthOf("local") = LocalLen
  BY DEF FieldsOf, LengthOf
<1>3. /\ FieldsOf("central") = {"flags", "method", "crc", "compressed", "uncompressed", "nameLength",
                                "extraLength", "commentLength", "offset", "time"}
      /\ LengthOf("central") = CentralLen
  BY DEF FieldsOf, LengthOf
<1>4. /\ FieldsOf("eocd") = {"disk", "centralDisk", "onDisk", "total", "size", "offset",
                             "commentLength"}
      /\ LengthOf("eocd") = EocdLen
  BY DEF FieldsOf, LengthOf
<1> QED
  BY <1>1, <1>2, <1>3, <1>4

\* A header with another value in a field, or another checksum.
FieldSet(old, field, value) == [old EXCEPT ![field] = value]

ChecksumSet(old) == [old EXCEPT !.crc = Append(@, Byte(0))]

LEMMA ByteAltered ==
    ASSUME NEW c \in PlainCells, NEW field \in FieldsOf("byte"), NEW value
    PROVE  FieldSet(c.of, field, value).signature = "byte"
<1>1. PICK v \in Nat : c = Byte(v)
  BY DEF PlainCells
<1>2. field = "value"
  BY FieldSets
<1>3. c.of = [signature |-> "byte", value |-> v]
  BY <1>1 DEF Byte, Cell
<1> QED
  BY <1>2, <1>3 DEF FieldSet

LEMMA LocalAltered ==
    ASSUME NEW e, NEW field \in FieldsOf("local"), NEW value
    PROVE  FieldSet(LocalHeader(e), field, value).signature = "local"
<1>1. field # "signature"
  BY FieldSets
<1> QED
  BY <1>1 DEF LocalHeader, FieldSet

LEMMA CentralAltered ==
    ASSUME NEW e, NEW offset, NEW field \in FieldsOf("central") \ {"crc"}, NEW value,
           NEW h, h = FieldSet(CentralHeader(e, offset), field, value)
    PROVE  /\ h.signature = "central" /\ h.crc = e.bytes
           /\ field # "nameLength" => h.nameLength = Len(e.path)
           /\ field = "nameLength" => h.nameLength = value /\ h.offset = offset
<1>1. field # "signature" /\ field # "crc" /\ field \in
         {"flags", "method", "compressed", "uncompressed", "nameLength", "extraLength",
          "commentLength", "offset", "time"}
  BY FieldSets
<1> QED
  BY <1>1 DEF CentralHeader, Crc32, FieldSet

LEMMA EndAltered ==
    ASSUME NEW t, NEW C, NEW field \in FieldsOf("eocd"), NEW value,
           NEW h, h = FieldSet(EndOf(t, C), field, value)
    PROVE  /\ h.signature = "eocd"
           /\ h.onDisk = h.total => h.total = Len(t)
           /\ field # "offset" => h.offset = C[0]
           /\ field = "offset" => h.offset = value /\ h.size = C[Len(t)] - C[0]
<1>1. field # "signature" /\ field \in
         {"disk", "centralDisk", "onDisk", "total", "size", "offset", "commentLength"}
  BY FieldSets
<1> QED
  BY <1>1 DEF EndOf, Eocd, FieldSet

LEMMA ChecksumAltered ==
    ASSUME NEW e, NEW offset, NEW h
    PROVE  /\ h = ChecksumSet(LocalHeader(e)) => h.signature = "local"
           /\ h = ChecksumSet(CentralHeader(e, offset)) =>
                 h.signature = "central" /\ h.crc = Append(e.bytes, Byte(0)) /\ h.offset = offset
<1>1. h = ChecksumSet(LocalHeader(e)) => h.signature = "local"
  BY DEF LocalHeader, ChecksumSet
<1>2. h = ChecksumSet(CentralHeader(e, offset)) =>
         h.signature = "central" /\ h.crc = Append(e.bytes, Byte(0)) /\ h.offset = offset
  BY DEF CentralHeader, Crc32, ChecksumSet
<1> QED
  BY <1>1, <1>2

-----------------------------------------------------------------------------

\* With no first entry there is none.
LEMMA NoFirstEntry ==
    ASSUME NEW bytes, NEW start, NEW count \in Nat \ {0}, CentralEntry(bytes, start) = {}
    PROVE  CentralEntries(bytes, start, count) = {}
<1>1. PICK read : /\ CentralEntries(bytes, start, count) = read[count]
                  /\ read[0] = {[next |-> start, entries |-> <<>>]}
                  /\ \A k \in 1..count : read[k] = Turn(bytes, read[k - 1])
  <2>1. PICK directory : directory = CentralEntries(bytes, start, count)
    OBVIOUS
  <2>2. count \in Nat
    OBVIOUS
  <2> QED
    BY ONLY <2>1, <2>2, DirectoryGrows
<1>2. Turn(bytes, {}) = {}
  BY DEF Turn
<1>3. Turn(bytes, read[0]) = {}
  <2> DEFINE before == [next |-> start, entries |-> <<>>]
  <2>1. before.next = start
    OBVIOUS
  <2>2. read[0] = {before}
    BY <1>1
  <2> HIDE DEF before
  <2> QED
    BY <2>1, <2>2 DEF Turn
<1> DEFINE none == {k \in Nat : k + 1 <= count => read[k + 1] = {}}
<1>4. 0 \in none
  <2>1. 1 \in 1..count /\ 1 - 1 = 0 /\ 0 + 1 = 1
    OBVIOUS
  <2> QED
    BY <1>1, <1>3, <2>1
<1>5. ASSUME NEW k \in Nat, k \in none PROVE k + 1 \in none
  <2> SUFFICES ASSUME k + 1 + 1 <= count PROVE read[k + 1 + 1] = {}
    OBVIOUS
  <2>1. read[k + 1] = {}
    BY <1>5
  <2>2. PICK j \in 1..count : j = k + 1 + 1 /\ j - 1 = k + 1
    OBVIOUS
  <2> QED
    BY <1>1, <1>2, <2>1, <2>2
<1>6. Nat \subseteq none
  <2> HIDE DEF none
  <2> QED
    BY <1>4, <1>5, EveryNumber
<1>7. read[count] = {}
  <2>1. count - 1 \in Nat /\ count - 1 + 1 = count
    OBVIOUS
  <2>2. count - 1 \in none
    BY <1>6, <2>1
  <2> QED
    BY <2>1, <2>2
<1> QED
  BY <1>1, <1>7

LEMMA NoneOfNone ==
    ASSUME NEW bytes, NEW start
    PROVE  CentralEntries(bytes, start, 0) = {[next |-> start, entries |-> <<>>]}
<1>1. PICK directory : directory = CentralEntries(bytes, start, 0)
  OBVIOUS
<1> QED
  BY <1>1, DirectoryGrows

\* When every turn is pinned, the reader returns what was packed or nothing.
LEMMA PinnedRead ==
    ASSUME NEW E, NEW t \in Seq(E), NEW bytes, NEW C, Pinned(bytes, t, C),
           NEW h, h.total = Len(t), Len(t) # 0 => h.offset = C[0]
    PROVE  ReadTo(bytes, h) \subseteq {t}
<1>1. ASSUME NEW entries \in ReadTo(bytes, h) PROVE entries = t
  <2>1. PICK d \in CentralEntries(bytes, h.offset, h.total) : entries = d.entries
    BY DEF ReadTo
  <2>2. CASE Len(t) = 0
    <3>1. t = <<>>
      BY <2>2
    <3>2. d = [next |-> h.offset, entries |-> <<>>]
      BY <2>1, <2>2, NoneOfNone
    <3> QED
      BY <2>1, <3>1, <3>2
  <2>3. CASE Len(t) # 0
    <3>1. d \in CentralEntries(bytes, C[0], Len(t))
      BY <2>1, <2>3
    <3>2. d = [next |-> C[Len(t)], entries |-> t]
      BY <3>1, PinnedDirectory
    <3> QED
      BY <2>1, <3>2
  <2> QED
    BY <2>2, <2>3
<1> QED
  BY <1>1

\* The end record of an altered archive is where it was.
LEMMA AlteredEnd ==
    ASSUME NEW t \in Seq(PlainEntries), NEW bytes, NEW L, NEW C,
           Sketched(bytes, t, L, C), Painted(bytes, t, L, C),
           NEW k, NEW other, Altered(bytes, other, k),
           NEW at, at = C[Len(t)], NEW h, h = other[at + 1].of
    PROVE  ReadStoredZip(other) = IF EndTaken(other, h, at) THEN ReadTo(other, h) ELSE {}
<1> DEFINE n == Len(t)
<1>0. n = Len(t)
  OBVIOUS
<1> HIDE DEF n
<1>1. n \in Nat /\ \A j \in 0..n : L[j] \in Nat /\ C[j] \in Nat
  BY <1>0, SketchRises
<1>2. at \in Nat
  <2>1. n \in 0..n
    BY <1>1
  <2> QED
    BY <1>0, <1>1, <2>1
<1>3. Len(bytes) = at + EocdLen
  BY Zenon DEF Sketched
<1>4. bytes[at + 1] = Cell(EndOf(t, C), 1)
  <2>1. \A d \in 1..EocdLen : bytes[at + d] = Cell(EndOf(t, C), d)
    BY Zenon DEF Painted
  <2>2. 1 \in 1..EocdLen
    BY DEF EocdLen
  <2> QED
    BY <2>1, <2>2
<1>5. at + 1 \in 1..Len(bytes) /\ Len(bytes) \in Nat
  BY <1>2, <1>3 DEF EocdLen
<1>6. /\ Len(other) = Len(bytes)
      /\ other[at + 1].at = bytes[at + 1].at
      /\ other[at + 1].of.signature = bytes[at + 1].of.signature
  BY <1>5, Zenon DEF Altered
<1>7. other[at + 1].at = 1 /\ h.signature = "eocd"
  BY <1>4, <1>6, Signatures
<1> QED
  BY <1>2, <1>3, <1>5, <1>6, <1>7, EndFound

\* A central header that was not altered is read as before.
LEMMA CentralStays ==
    ASSUME NEW t \in Seq(PlainEntries), NEW bytes, NEW L, NEW C,
           Sketched(bytes, t, L, C), Painted(bytes, t, L, C),
           NEW k \in 1..Len(bytes), NEW T, NEW other \in Seq(T), Altered(bytes, other, k),
           NEW j \in 1..Len(t), k # C[j - 1] + 1
    PROVE  CentralEntry(other, C[j - 1]) \subseteq {[next |-> C[j], entry |-> t[j]]}
<1> DEFINE c == C[j - 1] l == L[j - 1] p == Len(t[j].path)
<1>0. c = C[j - 1] /\ l = L[j - 1] /\ p = Len(t[j].path) /\ k # c + 1
  OBVIOUS
<1> HIDE DEF c, l, p
<1>1. /\ c \in Nat /\ p \in Nat /\ l \in Nat /\ Len(bytes) \in Nat /\ c + CentralLen + p <= C[Len(t)]
      /\ l + LocalLen + p <= c
      /\ C[Len(t)] + EocdLen = Len(bytes) /\ C[Len(t)] \in Nat
  BY ONLY <1>0, PartsOf, t \in Seq(PlainEntries), j \in 1..Len(t),
          Sketched(bytes, t, L, C), Painted(bytes, t, L, C), SMTT(20)
<1>6. bytes[c + 1] = Cell(CentralHeader(t[j], l), 1)
  BY <1>0, HeadsOf
<1>2. c + 1 \in 1..Len(bytes)
  BY ONLY <1>1 DEF CentralLen, EocdLen
<1>3. other[c + 1] = bytes[c + 1]
  <2>1. bytes[c + 1].at = 1
    BY <1>6, Signatures
  <2> QED
    BY <1>0, <1>2, <2>1, Zenon DEF Altered
<1>4. other[c + 1].of = CentralHeader(t[j], l)
  BY <1>3, <1>6, Signatures
<1>5. /\ CentralHeader(t[j], l).nameLength = Len(t[j].path)
      /\ CentralHeader(t[j], l).crc = t[j].bytes
  BY DEF CentralHeader, Crc32
<1> QED
  BY <1>0, <1>4, <1>5, EntryPinned

\* Whatever happens to a payload, a name or a local header is caught by the central
\* directory.
LEMMA CaughtElsewhere ==
    ASSUME NEW t \in Seq(PlainEntries), NEW bytes, NEW L, NEW C,
           Sketched(bytes, t, L, C), Painted(bytes, t, L, C),
           NEW k \in 1..Len(bytes), NEW T, NEW other \in Seq(T), Altered(bytes, other, k),
           \A j \in 1..Len(t) : CentralEntry(other, C[j - 1]) \subseteq {[next |-> C[j], entry |-> t[j]]},
           k # C[Len(t)] + 1
    PROVE  ReadStoredZip(other) \subseteq {t}
<1> DEFINE at == C[Len(t)] h == other[at + 1].of
<1>0. at = C[Len(t)] /\ h = other[at + 1].of /\ k # at + 1
  OBVIOUS
<1>1. Pinned(other, t, C)
  BY Zenon DEF Pinned
<1> HIDE DEF at, h
<1>2. ReadStoredZip(other) = IF EndTaken(other, h, at) THEN ReadTo(other, h) ELSE {}
  BY <1>0, AlteredEnd
<1>3. bytes[at + 1] = Cell(EndOf(t, C), 1) /\ at + 1 \in 1..Len(bytes)
  <2>1. \A d \in 1..EocdLen : bytes[at + d] = Cell(EndOf(t, C), d)
    BY <1>0, Zenon DEF Painted
  <2>2. 1 \in 1..EocdLen /\ EocdLen = 22
    BY DEF EocdLen
  <2>3. Len(bytes) = at + EocdLen
    BY <1>0, Zenon DEF Sketched
  <2>4. at \in Nat
    <3>1. Len(t) \in Nat /\ Len(t) \in 0..Len(t)
      OBVIOUS
    <3> QED
      BY <1>0, <3>1, SketchRises
  <2> QED
    BY <2>1, <2>2, <2>3, <2>4
<1>4. other[at + 1] = bytes[at + 1]
  <2>1. bytes[at + 1].at = 1
    BY <1>3, Signatures
  <2> QED
    BY <1>0, <1>3, <2>1, Zenon DEF Altered
<1>5. h = EndOf(t, C)
  BY <1>0, <1>3, <1>4, Signatures
<1>6. h.total = Len(t) /\ h.offset = C[0]
  BY <1>5 DEF EndOf, Eocd
<1>7. ReadTo(other, h) \subseteq {t}
  BY <1>1, <1>6, PinnedRead
<1> QED
  BY <1>2, <1>7

\* What an edit can make of a central header, for an entry whose local header is there.
CentralKept(h, entry, local) ==
    \/ h.crc = entry.bytes /\ h.nameLength = Len(entry.path)
    \/ h.crc = entry.bytes /\ h.nameLength \in Nat /\ h.offset = local
    \/ h.crc # entry.bytes /\ h.offset = local

\* An altered central header.
LEMMA CaughtCentral ==
    ASSUME NEW t \in Seq(PlainEntries), NEW bytes, NEW L, NEW C,
           Sketched(bytes, t, L, C), Painted(bytes, t, L, C),
           NEW k \in 1..Len(bytes), NEW T, NEW other \in Seq(T), Altered(bytes, other, k),
           NEW i \in 1..Len(t), k = C[i - 1] + 1, NEW h, h = other[k].of,
           CentralKept(h, t[i], L[i - 1])
    PROVE  CentralEntry(other, C[i - 1]) \subseteq {[next |-> C[i], entry |-> t[i]]}
<1> DEFINE c == C[i - 1] l == L[i - 1] p == Len(t[i].path)
<1>0. /\ c = C[i - 1] /\ l = L[i - 1] /\ p = Len(t[i].path) /\ k = c + 1
      /\ h = other[c + 1].of
  OBVIOUS
<1> HIDE DEF c, l, p
<1>1. /\ c \in Nat /\ p \in Nat /\ l \in Nat /\ Len(bytes) \in Nat /\ c + CentralLen + p <= C[Len(t)]
      /\ l + LocalLen + p <= c
      /\ C[Len(t)] + EocdLen = Len(bytes) /\ C[Len(t)] \in Nat
  BY ONLY <1>0, PartsOf, t \in Seq(PlainEntries), i \in 1..Len(t),
          Sketched(bytes, t, L, C), Painted(bytes, t, L, C), SMTT(20)
<1>4. bytes[l + 1] = Cell(LocalHeader(t[i]), 1)
  BY <1>0, HeadsOf
<1>2. CASE h.crc = t[i].bytes /\ h.nameLength = Len(t[i].path)
  BY <1>0, <1>2, EntryPinned
<1>3. CASE h.offset = l /\ ((h.crc = t[i].bytes /\ h.nameLength \in Nat) \/ h.crc # t[i].bytes)
  <2> SUFFICES ASSUME CentralEntry(other, c) # {} PROVE h.crc = t[i].bytes /\ h.nameLength = p
    BY <1>0, <1>2
  <2>1. PICK turn \in CentralEntry(other, c) : TRUE
    OBVIOUS
  <2>2. PICK name, central, local : Checked(other, c, name, central, local)
    BY <2>1, ReturnedIsChecked
  <2>3. central = h /\ local = other[l + 1].of
    BY <1>0, <1>3, <2>2, Zenon DEF Checked
  <2>4. /\ local.crc = h.crc /\ local.nameLength = Len(name)
        /\ name = Slice(other, c + CentralLen, h.nameLength)
        /\ c + CentralLen + h.nameLength <= Len(other)
    BY <2>2, <2>3, Zenon DEF Checked
  <2>5. l + 1 \in 1..Len(bytes) /\ l + 1 # k
    <3>1. l + 1 \in 1..Len(bytes) /\ l < c
      BY ONLY <1>1 DEF CentralLen, EocdLen, LocalLen
    <3> QED
      BY ONLY <1>0, <1>1, <3>1
  <2>6. other[l + 1] = bytes[l + 1]
    <3>1. bytes[l + 1].at = 1
      BY <1>4, Signatures
    <3> QED
      BY <2>5, <3>1, Zenon DEF Altered
  <2>7. local = LocalHeader(t[i])
    BY <1>4, <2>3, <2>6, Signatures
  <2>8. local.crc = t[i].bytes /\ local.nameLength = p
    BY <1>0, <2>7 DEF LocalHeader, Crc32
  <2>9. h.crc = t[i].bytes /\ h.nameLength \in Nat
    BY <1>3, <2>4, <2>8
  <2>10. Len(name) = h.nameLength
    <3>1. c + CentralLen \in Nat
      BY <1>1 DEF CentralLen
    <3> QED
      BY <2>4, <2>9, <3>1, SliceLength
  <2> QED
    BY <2>4, <2>8, <2>9, <2>10
<1> QED
  BY <1>0, <1>2, <1>3 DEF CentralKept

\* What an edit can make of the end record.
EndKept(h, t, C) ==
    /\ h.onDisk = h.total => h.total = Len(t)
    /\ h.offset = C[0] \/ (h.offset \in Nat /\ h.size = C[Len(t)] - C[0])

\* An altered end record.
LEMMA CaughtEnd ==
    ASSUME NEW t \in Seq(PlainEntries), NEW bytes, NEW L, NEW C,
           Sketched(bytes, t, L, C), Painted(bytes, t, L, C),
           NEW k \in 1..Len(bytes), NEW T, NEW other \in Seq(T), Altered(bytes, other, k),
           k = C[Len(t)] + 1, NEW h, h = other[k].of,
           EndKept(h, t, C)
    PROVE  ReadStoredZip(other) \subseteq {t}
<1> DEFINE n == Len(t)
           at == C[n]
<1>0. n = Len(t) /\ at = C[n] /\ k = at + 1 /\ h = other[at + 1].of /\ n \in Nat
      /\ (h.onDisk = h.total => h.total = n)
      /\ (h.offset = C[0] \/ (h.offset \in Nat /\ h.size = at - C[0]))
  BY DEF EndKept
<1> HIDE DEF n, at
<1>1. \A j \in 1..n : C[j - 1] \in Nat /\ C[0] <= C[j - 1] /\ C[j - 1] < at /\ at \in Nat /\ C[0] \in Nat
  <2> SUFFICES ASSUME NEW j \in 1..n
               PROVE  C[j - 1] \in Nat /\ C[0] <= C[j - 1] /\ C[j - 1] < at /\ at \in Nat /\ C[0] \in Nat
    OBVIOUS
  <2> DEFINE c == C[j - 1] l == L[j - 1] p == Len(t[j].path)
  <2>0. c = C[j - 1] /\ l = L[j - 1] /\ p = Len(t[j].path) /\ j \in 1..Len(t)
    BY <1>0
  <2> HIDE DEF c, l, p
  <2>1. /\ c \in Nat /\ p \in Nat /\ l \in Nat /\ c + CentralLen + p <= C[Len(t)] /\ l + LocalLen + p <= c
        /\ C[Len(t)] \in Nat /\ C[0] \in Nat /\ C[0] <= c
    BY <2>0, PartsOf, SMTT(20)
  <2>2. c < at /\ at \in Nat
    BY ONLY <1>0, <2>1, SMTT(20) DEF CentralLen
  <2> QED
    BY <2>0, <2>1, <2>2
<1>2. Pinned(other, t, C)
  <2>1. ASSUME NEW j \in 1..Len(t)
        PROVE  CentralEntry(other, C[j - 1]) \subseteq {[next |-> C[j], entry |-> t[j]]}
    <3>1. k # C[j - 1] + 1
      BY <1>0, <1>1
    <3> QED
      BY <3>1, CentralStays
  <2> QED
    BY <2>1, Zenon DEF Pinned
<1>3. ReadStoredZip(other) = IF EndTaken(other, h, at) THEN ReadTo(other, h) ELSE {}
  BY <1>0, AlteredEnd
<1> SUFFICES ASSUME EndTaken(other, h, at), ReadTo(other, h) # {} PROVE ReadTo(other, h) \subseteq {t}
  BY <1>3
<1>4. h.onDisk = h.total /\ h.offset + h.size <= at
  BY DEF EndTaken
<1>5. h.total = n
  BY <1>0, <1>4
<1>6. ASSUME n # 0 PROVE h.offset = C[0]
  <2> SUFFICES ASSUME h.offset \in Nat, h.size = at - C[0] PROVE h.offset = C[0]
    BY <1>0
  <2>0. 1 \in 1..n
    BY <1>0, <1>6
  <2>1. at \in Nat /\ C[0] \in Nat
    BY <1>1, <2>0
  <2>2. h.offset <= C[0]
    BY <1>4, <2>1
  <2>3. CentralEntry(other, h.offset) # {}
    <3> SUFFICES ASSUME CentralEntry(other, h.offset) = {} PROVE FALSE
      OBVIOUS
    <3>1. CentralEntries(other, h.offset, n) = {}
      BY <1>0, <1>6, NoFirstEntry
    <3> QED
      BY <1>5, <3>1 DEF ReadTo
  <2>4. PICK turn \in CentralEntry(other, h.offset) : TRUE
    BY <2>3
  <2>5. PICK name, central, local : Checked(other, h.offset, name, central, local)
    BY <2>4, ReturnedIsChecked
  <2>6. Stands(other, h.offset, "central", CentralLen)
    BY <2>5, Zenon DEF Checked
  <2> DEFINE i == h.offset + 1
  <2>7. i \in 1..Len(bytes) /\ other[i].at = 1 /\ other[i].of.signature = "central"
    <3>1. h.offset + CentralLen <= Len(other) /\ other[i].at = 1 /\ other[i].of.signature = "central"
      BY <2>6, Zenon DEF Stands
    <3>2. Len(other) = Len(bytes) /\ Len(other) \in Nat
      <4>1. Len(other) = Len(bytes)
        BY Zenon DEF Altered
      <4> QED
        BY <4>1
    <3>3. i \in 1..Len(other)
      BY ONLY <3>1, h.offset \in Nat, Len(other) \in Nat DEF CentralLen
    <3> QED
      BY <3>1, <3>2, <3>3
  <2> HIDE DEF i
  <2>8. bytes[i].at = 1 /\ bytes[i].of.signature = "central"
    BY <2>7, Zenon DEF Altered
  <2>9. Starts(bytes, t, L, C, i)
    BY <2>7, <2>8, StartsThere
  <2>10. \E j \in 1..Len(t) : i = C[j - 1] + 1
    BY <2>8, <2>9, Signatures DEF Starts
  <2>11. PICK j \in 1..n : i = C[j - 1] + 1
    BY <1>0, <2>10
  <2>12. h.offset = C[j - 1] /\ C[0] <= C[j - 1]
    <3>1. C[j - 1] \in Nat /\ C[0] <= C[j - 1]
      BY <1>1
    <3>2. h.offset + 1 = C[j - 1] + 1
      BY <2>11 DEF i
    <3> QED
      BY ONLY <3>1, <3>2, h.offset \in Nat
  <2> QED
    BY <2>1, <2>2, <2>12
<1> QED
  BY <1>0, <1>2, <1>5, <1>6, PinnedRead

\* What stands where the reader looks for headers.
LEMMA Heads ==
    ASSUME NEW t, NEW bytes, NEW L, NEW C, Painted(bytes, t, L, C)
    PROVE  /\ \A j \in 1..Len(t) : bytes[C[j - 1] + 1] = Cell(CentralHeader(t[j], L[j - 1]), 1)
           /\ bytes[C[Len(t)] + 1] = Cell(EndOf(t, C), 1)
<1>1. \A j \in 1..Len(t) : bytes[C[j - 1] + 1] = Cell(CentralHeader(t[j], L[j - 1]), 1)
  BY HeadsOf
<1>2. \A d \in 1..EocdLen : bytes[C[Len(t)] + d] = Cell(EndOf(t, C), d)
  BY Zenon DEF Painted
<1>3. 1 \in 1..EocdLen
  BY DEF EocdLen
<1> QED
  BY <1>1, <1>2, <1>3

LEMMA NeitherDirectoryNorEnd ==
    ASSUME NEW t \in Seq(PlainEntries), NEW bytes, NEW L, NEW C,
           Sketched(bytes, t, L, C), Painted(bytes, t, L, C),
           NEW k \in 1..Len(bytes), NEW T, NEW other \in Seq(T), Altered(bytes, other, k),
           bytes[k].of.signature # "central", bytes[k].of.signature # "eocd"
    PROVE  ReadStoredZip(other) \subseteq {t}
<1>1. (\A j \in 1..Len(t) : k # C[j - 1] + 1) /\ k # C[Len(t)] + 1
  <2>1. \A j \in 1..Len(t) : bytes[C[j - 1] + 1].of.signature = "central"
    BY Heads, Signatures
  <2>2. bytes[C[Len(t)] + 1].of.signature = "eocd"
    BY Heads, Signatures
  <2> QED
    BY <2>1, <2>2
<1>2. \A j \in 1..Len(t) : CentralEntry(other, C[j - 1]) \subseteq {[next |-> C[j], entry |-> t[j]]}
  <2> SUFFICES ASSUME NEW j \in 1..Len(t)
               PROVE  CentralEntry(other, C[j - 1]) \subseteq {[next |-> C[j], entry |-> t[j]]}
    OBVIOUS
  <2> QED
    BY <1>1, CentralStays
<1> QED
  BY <1>1, <1>2, CaughtElsewhere

LEMMA InTheDirectory ==
    ASSUME NEW t \in Seq(PlainEntries), NEW bytes, NEW L, NEW C,
           Sketched(bytes, t, L, C), Painted(bytes, t, L, C),
           NEW k \in 1..Len(bytes), NEW T, NEW other \in Seq(T), Altered(bytes, other, k),
           bytes[k].of.signature = "central", NEW h, h = other[k].of,
           \A j \in 1..Len(t) : k = C[j - 1] + 1 => CentralKept(h, t[j], L[j - 1])
    PROVE  ReadStoredZip(other) \subseteq {t}
<1>1. k # C[Len(t)] + 1
  BY Heads, Signatures
<1>2. \A j \in 1..Len(t) : CentralEntry(other, C[j - 1]) \subseteq {[next |-> C[j], entry |-> t[j]]}
  <2> SUFFICES ASSUME NEW j \in 1..Len(t)
               PROVE  CentralEntry(other, C[j - 1]) \subseteq {[next |-> C[j], entry |-> t[j]]}
    OBVIOUS
  <2>1. CASE k = C[j - 1] + 1
    <3>1. CentralKept(h, t[j], L[j - 1])
      BY <2>1
    <3> QED
      BY <2>1, <3>1, CaughtCentral
  <2>2. CASE k # C[j - 1] + 1
    BY <2>2, CentralStays
  <2> QED
    BY <2>1, <2>2
<1> QED
  BY <1>1, <1>2, CaughtElsewhere

\* The edits of one header or byte: a field other than the checksum, or the checksum.
FieldEdit(old, new) ==
    \E field \in FieldsOf(old.signature) \ {"crc"} : \E value \in Nat :
        new = FieldSet(old, field, value)

ChecksumEdit(old, new) ==
    old.signature \in {"local", "central"} /\ new = ChecksumSet(old)

LEMMA EditKeepsKind ==
    ASSUME NEW t, NEW bytes, NEW L, NEW C, NEW k, Starts(bytes, t, L, C, k),
           NEW old, old = bytes[k].of, NEW h, FieldEdit(old, h) \/ ChecksumEdit(old, h)
    PROVE  /\ h.signature = old.signature /\ LengthOf(old.signature) \in Nat \ {0}
           /\ old.signature \in {"byte", "local", "central", "eocd"}
<1>0. /\ LengthOf("byte") \in Nat \ {0} /\ LengthOf("local") \in Nat \ {0}
      /\ LengthOf("central") \in Nat \ {0} /\ LengthOf("eocd") \in Nat \ {0}
  BY FieldSets DEF LocalLen, CentralLen, EocdLen
<1>1. CASE bytes[k] \in PlainCells
  <2>1. old.signature = "byte"
    BY <1>1, Signatures
  <2>2. FieldEdit(old, h)
    BY <2>1 DEF ChecksumEdit
  <2>3. h.signature = "byte"
    BY <1>1, <2>1, <2>2, ByteAltered DEF FieldEdit
  <2> QED
    BY <1>0, <2>1, <2>3
<1>2. ASSUME NEW e, old = LocalHeader(e) PROVE h.signature = "local" /\ old.signature = "local"
  <2>1. old.signature = "local"
    BY <1>2, Signatures
  <2>2. CASE FieldEdit(old, h)
    <3>1. PICK field \in FieldsOf("local") \ {"crc"}, value \in Nat :
              h = FieldSet(LocalHeader(e), field, value)
      BY <1>2, <2>1, <2>2 DEF FieldEdit
    <3> QED
      BY <2>1, <3>1, LocalAltered
  <2>3. CASE ChecksumEdit(old, h)
    <3>1. h = ChecksumSet(LocalHeader(e))
      BY <1>2, <2>3 DEF ChecksumEdit
    <3> QED
      BY <2>1, <3>1, ChecksumAltered
  <2> QED
    BY <2>1, <2>2, <2>3
<1>3. ASSUME NEW e, NEW offset, old = CentralHeader(e, offset)
      PROVE  h.signature = "central" /\ old.signature = "central"
  <2>1. old.signature = "central"
    BY <1>3, Signatures
  <2>2. CASE FieldEdit(old, h)
    <3>1. PICK field \in FieldsOf("central") \ {"crc"}, value \in Nat :
              h = FieldSet(CentralHeader(e, offset), field, value)
      BY <1>3, <2>1, <2>2 DEF FieldEdit
    <3> QED
      BY <2>1, <3>1, CentralAltered
  <2>3. CASE ChecksumEdit(old, h)
    <3>1. h = ChecksumSet(CentralHeader(e, offset))
      BY <1>3, <2>3 DEF ChecksumEdit
    <3> QED
      BY <2>1, <3>1, ChecksumAltered
  <2> QED
    BY <2>1, <2>2, <2>3
<1>4. CASE old = EndOf(t, C)
  <2>1. old.signature = "eocd"
    BY <1>4, Signatures
  <2>2. FieldEdit(old, h)
    BY <2>1 DEF ChecksumEdit
  <2>3. h.signature = "eocd"
    BY <1>4, <2>1, <2>2, EndAltered DEF FieldEdit
  <2> QED
    BY <1>0, <2>1, <2>3
<1>5. \/ bytes[k] \in PlainCells
      \/ \E e : old = LocalHeader(e)
      \/ \E e, offset : old = CentralHeader(e, offset)
      \/ old = EndOf(t, C)
  BY Signatures DEF Starts
<1> QED
  BY <1>0, <1>1, <1>2, <1>3, <1>4, <1>5

LEMMA CentralEditKept ==
    ASSUME NEW e, NEW offset, NEW old, old = CentralHeader(e, offset), NEW cells, e.bytes \in Seq(cells),
           NEW h, FieldEdit(old, h) \/ ChecksumEdit(old, h)
    PROVE  CentralKept(h, e, offset)
<1>1. old.signature = "central"
  BY Signatures
<1>2. CASE FieldEdit(old, h)
  <2>1. PICK field \in FieldsOf("central") \ {"crc"}, value \in Nat :
            h = FieldSet(CentralHeader(e, offset), field, value)
    BY <1>1, <1>2 DEF FieldEdit
  <2>2. /\ h.crc = e.bytes
        /\ field # "nameLength" => h.nameLength = Len(e.path)
        /\ field = "nameLength" => h.nameLength = value /\ h.offset = offset
    BY <2>1, CentralAltered
  <2> QED
    BY <2>1, <2>2 DEF CentralKept
<1>3. CASE ChecksumEdit(old, h)
  <2>1. h.crc = Append(e.bytes, Byte(0)) /\ h.offset = offset
    <3>1. h = ChecksumSet(CentralHeader(e, offset))
      BY <1>3 DEF ChecksumEdit
    <3> QED
      BY <3>1, ChecksumAltered
  <2>2. Append(e.bytes, Byte(0)) # e.bytes
    <3>1. Len(Append(e.bytes, Byte(0))) = Len(e.bytes) + 1 /\ Len(e.bytes) \in Nat
      OBVIOUS
    <3> QED
      BY <3>1
  <2> QED
    BY <2>1, <2>2 DEF CentralKept
<1> QED
  BY <1>2, <1>3

LEMMA EndEditKept ==
    ASSUME NEW t, NEW C, NEW h, FieldEdit(EndOf(t, C), h)
    PROVE  EndKept(h, t, C)
<1>1. EndOf(t, C).signature = "eocd"
  BY Signatures
<1>2. PICK field \in FieldsOf("eocd"), value \in Nat : h = FieldSet(EndOf(t, C), field, value)
  BY <1>1 DEF FieldEdit
<1>3. /\ h.onDisk = h.total => h.total = Len(t)
      /\ field # "offset" => h.offset = C[0]
      /\ field = "offset" => h.offset = value /\ h.size = C[Len(t)] - C[0]
  <2>1. PICK old : old = EndOf(t, C)
    OBVIOUS
  <2>2. h = FieldSet(EndOf(t, C), field, value)
    BY <1>2
  <2> QED
    BY ONLY <1>2, <2>2, EndAltered
<1> QED
  BY <1>3 DEF EndKept

LEMMA AlteredCaught ==
    ASSUME NEW t \in Seq(PlainEntries), NEW S, NEW bytes \in Seq(S), NEW L, NEW C,
           Sketched(bytes, t, L, C), Painted(bytes, t, L, C),
           NEW k \in 1..Len(bytes), bytes[k].at = 1, NEW h,
           FieldEdit(bytes[k].of, h) \/ ChecksumEdit(bytes[k].of, h)
    PROVE  ReadStoredZip(SetField(bytes, k, h)) \subseteq {t}
<1> DEFINE old == bytes[k].of
           other == SetField(bytes, k, h)
<1>0. old = bytes[k].of /\ other = SetField(bytes, k, h)
  OBVIOUS
<1> HIDE DEF other
<1>1. Starts(bytes, t, L, C, k) /\ WholeAt(bytes, k)
  BY StartsThere, HeadersAreWhole
<1>2. /\ h.signature = old.signature /\ LengthOf(old.signature) \in Nat \ {0}
      /\ old.signature \in {"byte", "local", "central", "eocd"}
  BY <1>1, EditKeepsKind
<1>3. /\ \E T : other \in Seq(T)
      /\ Altered(bytes, other, k) /\ other[k] = Cell(h, 1)
  BY <1>0, <1>1, <1>2, SetFieldAlters
<1>4. PICK T : other \in Seq(T)
  BY <1>3
<1>5. h = other[k].of
  BY <1>3, Signatures
<1>6. CASE old.signature \in {"byte", "local"}
  BY <1>0, <1>3, <1>4, <1>6, NeitherDirectoryNorEnd
<1>7. CASE old.signature = "central"
  <2>1. ASSUME NEW j \in 1..Len(t), k = C[j - 1] + 1 PROVE CentralKept(h, t[j], L[j - 1])
    <3>1. old = CentralHeader(t[j], L[j - 1])
      BY <2>1, Heads, Signatures
    <3>2. t[j].bytes \in Seq(PlainCells)
      <4>1. t[j] \in PlainEntries
        OBVIOUS
      <4> QED
        BY ONLY <4>1 DEF PlainEntries
    <3> QED
      BY <3>1, <3>2, CentralEditKept
  <2> QED
    BY <1>0, <1>3, <1>4, <1>5, <1>7, <2>1, InTheDirectory
<1>8. CASE old.signature = "eocd"
  <2>1. k = C[Len(t)] + 1 /\ old = EndOf(t, C)
    BY <1>1, <1>8, Signatures DEF Starts
  <2>2. FieldEdit(old, h)
    BY <1>8 DEF ChecksumEdit
  <2>3. EndKept(h, t, C)
    BY <2>1, <2>2, EndEditKept
  <2> QED
    BY <1>0, <1>3, <1>4, <1>5, <2>1, <2>3, CaughtEnd
<1> QED
  BY <1>0, <1>2, <1>6, <1>7, <1>8

-----------------------------------------------------------------------------
(* Archives: cut, extended, indented or preceded. *)

\* An entry whose central section is there is read as packed, or refused.
LEMMA EntryIntact ==
    ASSUME NEW S, NEW e \in [path : Seq(Nat), bytes : Seq(S)], NEW T, NEW bytes \in Seq(T), NEW c \in Nat,
           NEW offset, bytes[c + 1].of = CentralHeader(e, offset), Named(bytes, c + CentralLen, e.path)
    PROVE  CentralEntry(bytes, c) \subseteq {[next |-> c + CentralLen + Len(e.path), entry |-> e]}
<1> SUFFICES ASSUME NEW turn \in CentralEntry(bytes, c)
             PROVE  turn = [next |-> c + CentralLen + Len(e.path), entry |-> e]
  OBVIOUS
<1>1. PICK name, central, local :
         /\ Checked(bytes, c, name, central, local)
         /\ turn = [next |-> c + CentralLen + central.nameLength,
                    entry |-> BundleEntry(PathOf(name), central.crc)]
  BY ReturnedIsChecked
<1>2. central = CentralHeader(e, offset) /\ name = Slice(bytes, c + CentralLen, central.nameLength)
  BY <1>1, Zenon DEF Checked
<1>3. central.nameLength = Len(e.path) /\ central.crc = e.bytes
  BY <1>2 DEF CentralHeader, Crc32
<1>4. e.path \in Seq(Nat)
  OBVIOUS
<1>5. PathOf(name) = e.path
  <2>1. name = Slice(bytes, c + CentralLen, Len(e.path))
    BY <1>2, <1>3
  <2> QED
    BY <1>4, <2>1, NameOfPath
<1>6. BundleEntry(e.path, e.bytes) = e
  BY DEF BundleEntry
<1> QED
  BY <1>1, <1>3, <1>5, <1>6

\* Of an archive there is one end record, at its end.
LEMMA OneEnd ==
    ASSUME NEW t \in Seq(PlainEntries), NEW bytes, NEW L, NEW C,
           Sketched(bytes, t, L, C), Painted(bytes, t, L, C),
           NEW i \in 1..Len(bytes), bytes[i].at = 1, bytes[i].of.signature = "eocd"
    PROVE  i = C[Len(t)] + 1
  BY StartsThere, Signatures DEF Starts

\* Central headers start where the directory has its entries.
HeaderStarts(bytes, i, signature) ==
    i \in 1..Len(bytes) /\ bytes[i].at = 1 /\ bytes[i].of.signature = signature

InDirectory(t, C, i) == \E j \in 1..Len(t) : i = C[j - 1] + 1

LEMMA OneOfTheDirectory ==
    ASSUME NEW t \in Seq(PlainEntries), NEW bytes, NEW L, NEW C,
           Sketched(bytes, t, L, C), Painted(bytes, t, L, C),
           NEW i, HeaderStarts(bytes, i, "central")
    PROVE  InDirectory(t, C, i)
<1>1. i \in 1..Len(bytes) /\ bytes[i].at = 1 /\ bytes[i].of.signature = "central"
  BY DEF HeaderStarts
<1>2. Starts(bytes, t, L, C, i)
  BY <1>1, StartsThere
<1> QED
  BY <1>1, <1>2, Signatures DEF Starts, InDirectory

\* The measures of an archive.
LEMMA Measures ==
    ASSUME NEW t \in Seq(PlainEntries), NEW bytes, NEW L, NEW C, Sketched(bytes, t, L, C),
           NEW at, at = C[Len(t)], NEW start, start = C[0]
    PROVE  /\ at \in Nat /\ start \in Nat /\ start <= at /\ Len(bytes) = at + EocdLen
           /\ Len(bytes) \in Nat /\ Len(t) \in Nat
           /\ \A j \in 1..Len(t) : C[j - 1] \in Nat /\ start <= C[j - 1]
           /\ Len(t) # 0 => start >= LocalLen
<1> DEFINE n == Len(t)
<1>0. n = Len(t)
  OBVIOUS
<1> HIDE DEF n
<1>1. /\ n \in Nat
      /\ \A j \in 1..n : /\ Len(t[j].path) \in Nat /\ Len(t[j].bytes) \in Nat
                         /\ j \in 0..n /\ j - 1 \in 0..n
      /\ \A j \in 0..n : L[j] \in Nat /\ C[j] \in Nat
      /\ \A i, j \in 0..n : i <= j => L[i] <= L[j] /\ C[i] <= C[j]
  BY <1>0, SketchRises
<1>2. /\ C[0] = L[n] /\ Len(bytes) = C[n] + EocdLen /\ L[0] = 0
      /\ \A j \in 1..n : L[j] = L[j - 1] + LocalLen + Len(t[j].path) + Len(t[j].bytes)
  BY <1>0, Zenon DEF Sketched
<1>3. 0 \in 0..n /\ n \in 0..n /\ 0 <= n
  BY <1>1
<1>4. at \in Nat /\ start \in Nat /\ start <= at
  BY <1>0, <1>1, <1>3
<1>5. \A j \in 1..n : C[j - 1] \in Nat /\ start <= C[j - 1]
  <2> SUFFICES ASSUME NEW j \in 1..n PROVE C[j - 1] \in Nat /\ start <= C[j - 1]
    OBVIOUS
  <2>1. j - 1 \in 0..n /\ 0 <= j - 1
    BY <1>1
  <2> QED
    BY <1>1, <1>3, <2>1
<1>6. ASSUME n # 0 PROVE start >= LocalLen
  <2>1. 1 \in 1..n /\ 1 - 1 = 0 /\ 1 \in 0..n /\ 1 <= n
    BY <1>1, <1>6
  <2>2. L[1] = L[1 - 1] + LocalLen + Len(t[1].path) + Len(t[1].bytes)
    BY <1>2, <2>1
  <2>3. L[1] <= L[n] /\ L[n] \in Nat /\ L[1] \in Nat /\ Len(t[1].path) \in Nat /\ Len(t[1].bytes) \in Nat
    BY <1>1, <1>3, <2>1
  <2>4. L[1] >= LocalLen
    BY <1>2, <2>1, <2>2, <2>3 DEF LocalLen
  <2> QED
    BY <1>2, <2>3, <2>4 DEF LocalLen
<1>7. Len(bytes) = at + EocdLen /\ Len(bytes) \in Nat
  BY <1>0, <1>2, <1>4 DEF EocdLen
<1> QED
  BY <1>0, <1>1, <1>4, <1>5, <1>6, <1>7

LEMMA CutCaught ==
    ASSUME NEW t \in Seq(PlainEntries), NEW S, NEW bytes \in Seq(S), NEW L, NEW C,
           Sketched(bytes, t, L, C), Painted(bytes, t, L, C),
           NEW length \in 0..(Len(bytes) - 1)
    PROVE  ReadStoredZip(SubSeq(bytes, 1, length)) \subseteq {t}
<1> DEFINE other == SubSeq(bytes, 1, length)
<1>1. Len(other) = length /\ \A i \in 1..length : other[i] = bytes[i] /\ i \in 1..Len(bytes)
  OBVIOUS
<1> DEFINE at == C[Len(t)]
<1>2. at \in Nat /\ Len(bytes) = at + EocdLen /\ Len(bytes) \in Nat
  BY Measures, Zenon
<1>3. ASSUME NEW i \in EocdOffsets(other) PROVE FALSE
  <2> HIDE DEF other
  <2>1. i \in Nat /\ Stands(other, i, "eocd", EocdLen)
    BY <1>1 DEF EocdOffsets
  <2>2. i + EocdLen <= length /\ other[i + 1].of.signature = "eocd" /\ other[i + 1].at = 1
    BY <1>1, <2>1 DEF Stands
  <2>3. i + 1 \in 1..length
    BY <2>1, <2>2 DEF EocdLen
  <2>4. bytes[i + 1].of.signature = "eocd" /\ bytes[i + 1].at = 1 /\ i + 1 \in 1..Len(bytes)
    BY <1>1, <2>2, <2>3
  <2>5. i + 1 = at + 1
    BY <2>4, OneEnd
  <2> HIDE DEF at
  <2> QED
    BY <1>2, <2>1, <2>2, <2>5 DEF EocdLen
<1>4. EocdOffsets(other) = {}
  BY <1>3
<1>5. ReadStoredZip(other) = {}
  <2> HIDE DEF other
  <2> QED
    BY <1>4 DEF ReadStoredZip
<1> QED
  BY <1>5

\* A string that begins with the archive.
InFront(other, bytes) ==
    /\ Len(other) \in Nat /\ Len(bytes) <= Len(other)
    /\ \A i \in 1..Len(bytes) : other[i] = bytes[i]

\* Where an archive stands in front, its own directory reads as it was packed or not at all.
LEMMA FrontPinned ==
    ASSUME NEW t \in Seq(PlainEntries), NEW bytes, NEW L, NEW C,
           Sketched(bytes, t, L, C), Painted(bytes, t, L, C),
           NEW T, NEW other \in Seq(T), InFront(other, bytes)
    PROVE  Pinned(other, t, C)
<1> SUFFICES ASSUME NEW j \in 1..Len(t)
             PROVE  CentralEntry(other, C[j - 1]) \subseteq {[next |-> C[j], entry |-> t[j]]}
  BY Zenon DEF Pinned
<1> DEFINE c == C[j - 1] l == L[j - 1] p == Len(t[j].path) path == t[j].path
<1>0. c = C[j - 1] /\ l = L[j - 1] /\ p = Len(t[j].path) /\ path = t[j].path
  OBVIOUS
<1> HIDE DEF c, l, p, path
<1>1. /\ c \in Nat /\ p \in Nat /\ l \in Nat /\ Len(bytes) \in Nat /\ c + CentralLen + p <= C[Len(t)]
      /\ C[j] = c + CentralLen + p /\ path \in Seq(Nat)
      /\ C[Len(t)] + EocdLen = Len(bytes) /\ C[Len(t)] \in Nat
  BY <1>0, PartsOf
<1>2. /\ \A d \in 1..p : bytes[c + CentralLen + d] = Byte(path[d])
      /\ bytes[c + 1] = Cell(CentralHeader(t[j], l), 1)
  <2>1. \A d \in 1..p : bytes[c + CentralLen + d] = Byte(path[d])
    BY <1>0, Zenon DEF Painted
  <2> QED
    BY <1>0, <2>1, HeadsOf
<1>3. c + 1 \in 1..Len(bytes) /\ \A d \in 1..p : c + CentralLen + d \in 1..Len(bytes)
  BY ONLY <1>1 DEF CentralLen, EocdLen
<1>4. /\ other[c + 1] = bytes[c + 1]
      /\ \A d \in 1..p : other[c + CentralLen + d] = bytes[c + CentralLen + d]
  BY <1>3 DEF InFront
<1>5. other[c + 1].of = CentralHeader(t[j], l)
  BY <1>2, <1>4, Signatures
<1>6. Named(other, c + CentralLen, path)
  <2>1. c + CentralLen \in Nat /\ c + CentralLen + p <= Len(other)
    <3>1. Len(other) \in Nat /\ Len(bytes) <= Len(other)
      BY DEF InFront
    <3> QED
      BY ONLY <1>1, <3>1 DEF CentralLen, EocdLen
  <2> QED
    BY <1>0, <1>2, <1>4, <2>1, Zenon DEF Named
<1>7. t[j] \in [path : Seq(Nat), bytes : Seq(PlainCells)]
  <2>1. t[j] \in PlainEntries
    OBVIOUS
  <2> QED
    BY ONLY <2>1 DEF PlainEntries
<1>8. CentralEntry(other, c) \subseteq {[next |-> c + CentralLen + Len(t[j].path), entry |-> t[j]]}
  BY <1>0, <1>1, <1>5, <1>6, <1>7, EntryIntact
<1> QED
  BY <1>0, <1>1, <1>8

LEMMA ExtendedCaught ==
    ASSUME NEW t \in Seq(PlainEntries), NEW S, NEW bytes \in Seq(S), NEW L, NEW C,
           Sketched(bytes, t, L, C), Painted(bytes, t, L, C), NEW last
    PROVE  ReadStoredZip(Append(bytes, last)) \subseteq {t}
<1> DEFINE other == Append(bytes, last)
           at == C[Len(t)]
           h == EndOf(t, C)
<1>1. /\ Len(other) = Len(bytes) + 1 /\ Len(bytes) \in Nat
      /\ \A i \in 1..Len(bytes) : other[i] = bytes[i]
      /\ other \in Seq(S \cup {last})
  OBVIOUS
<1>2. at \in Nat /\ Len(bytes) = at + EocdLen
  BY Measures, Zenon
<1> HIDE DEF other
<1>3. InFront(other, bytes)
  BY <1>1 DEF InFront
<1>4. Pinned(other, t, C)
  BY <1>1, <1>3, FrontPinned
<1>5. other[at + 1] = Cell(h, 1)
  <2>1. bytes[at + 1] = Cell(h, 1)
    BY Heads
  <2>2. at + 1 \in 1..Len(bytes)
    BY ONLY <1>2 DEF EocdLen
  <2> QED
    BY <1>1, <2>1, <2>2
<1>6. \A i \in EocdOffsets(other) : i \in Nat /\ i <= at
  <2> SUFFICES ASSUME NEW i \in EocdOffsets(other) PROVE i \in Nat /\ i <= at
    OBVIOUS
  <2>1. i \in Nat /\ Stands(other, i, "eocd", EocdLen)
    BY <1>1 DEF EocdOffsets
  <2>2. i + EocdLen <= Len(other) /\ other[i + 1].of.signature = "eocd" /\ other[i + 1].at = 1
    BY <2>1 DEF Stands
  <2>3. i + 1 \in 1..Len(bytes)
    BY <1>1, <2>1, <2>2 DEF EocdLen
  <2>4. bytes[i + 1].of.signature = "eocd" /\ bytes[i + 1].at = 1
    BY <1>1, <2>2, <2>3
  <2>5. i + 1 = at + 1
    BY <2>3, <2>4, OneEnd
  <2> HIDE DEF at
  <2> QED
    BY <1>2, <2>1, <2>5
<1>7. h.signature = "eocd" /\ h.total = Len(t) /\ h.offset = C[0]
  BY DEF EndOf, Eocd
<1> HIDE DEF h, at
<1>8. other[at + 1].of = h /\ other[at + 1].at = 1
  BY <1>5, Signatures
<1>9. at \in EocdOffsets(other)
  BY <1>1, <1>2, <1>7, <1>8 DEF EocdOffsets, Stands, EocdLen
<1>10. ReadStoredZip(other) = IF EndTaken(other, h, at) THEN ReadTo(other, h) ELSE {}
  BY <1>2, <1>6, <1>8, <1>9, LastEnd
<1>11. ReadTo(other, h) \subseteq {t}
  BY <1>4, <1>7, PinnedRead
<1> QED
  BY <1>10, <1>11 DEF other

\* Behind a front, an archive ends with its own end record, and what is read starts in
\* front of its directory.
LEMMA BehindFront ==
    ASSUME NEW t \in Seq(PlainEntries), NEW S, NEW bytes \in Seq(S), NEW L, NEW C,
           Sketched(bytes, t, L, C), Painted(bytes, t, L, C),
           NEW U, NEW front \in Seq(U),
           NEW other, other = front \o bytes, NEW h, h = EndOf(t, C)
    PROVE  /\ ReadStoredZip(other) \subseteq ReadTo(other, h)
           /\ other \in Seq(S \cup U) /\ Len(other) = Len(front) + Len(bytes)
           /\ \A i \in 1..Len(front) : other[i] = front[i]
           /\ \A i \in 1..Len(bytes) : other[Len(front) + i] = bytes[i]
<1> DEFINE at == C[Len(t)] f == Len(front)
<1>1. at \in Nat /\ Len(bytes) = at + EocdLen /\ Len(bytes) \in Nat /\ f \in Nat
  <2>1. at \in Nat /\ Len(bytes) = at + EocdLen /\ Len(bytes) \in Nat
    BY Measures, Zenon
  <2> QED
    BY <2>1
<1>2. /\ other \in Seq(S \cup U) /\ Len(other) = f + Len(bytes)
      /\ \A i \in 1..f : other[i] = front[i]
      /\ \A i \in 1..Len(bytes) : other[f + i] = bytes[i]
  <2>1. front \in Seq(S \cup U) /\ bytes \in Seq(S \cup U)
    OBVIOUS
  <2> QED
    BY <2>1
<1>3. h.signature = "eocd" /\ h.total = Len(t) /\ h.offset = C[0]
  BY DEF EndOf, Eocd
<1>4. other[f + at + 1] = Cell(h, 1)
  <2>1. bytes[at + 1] = Cell(h, 1)
    BY Heads
  <2>2. at + 1 \in 1..Len(bytes) /\ f + at + 1 = f + (at + 1)
    BY ONLY <1>1 DEF EocdLen
  <2> QED
    BY <1>2, <2>1, <2>2
<1> HIDE DEF at, f
<1>5. other[f + at + 1].of = h /\ other[f + at + 1].at = 1
  BY <1>4, Signatures
<1>6. f + at \in Nat /\ Len(other) = f + at + EocdLen /\ Len(other) \in Nat
  BY <1>1, <1>2 DEF EocdLen
<1>7. ReadStoredZip(other) = IF EndTaken(other, h, f + at) THEN ReadTo(other, h) ELSE {}
  BY <1>3, <1>5, <1>6, EndFound
<1> QED
  BY <1>2, <1>3, <1>7 DEF f

\* Behind a front that ends before the directory would start nothing is read.
LEMMA NothingBehind ==
    ASSUME NEW t \in Seq(PlainEntries), NEW S, NEW bytes \in Seq(S), NEW L, NEW C,
           Sketched(bytes, t, L, C), Painted(bytes, t, L, C), Len(t) # 0,
           NEW T, NEW other \in Seq(T), NEW f \in Nat \ {0}, Len(other) = f + Len(bytes),
           \A i \in 1..Len(bytes) : other[f + i] = bytes[i],
           f <= C[0]
    PROVE  CentralEntry(other, C[0]) = {}
<1> DEFINE start == C[0] at == C[Len(t)]
<1>1. /\ at \in Nat /\ start \in Nat /\ start <= at /\ Len(bytes) = at + EocdLen
      /\ Len(bytes) \in Nat /\ \A j \in 1..Len(t) : C[j - 1] \in Nat /\ start <= C[j - 1]
  BY Measures
<1>2. f <= start
  OBVIOUS
<1> SUFFICES ASSUME NEW turn \in CentralEntry(other, start) PROVE FALSE
  OBVIOUS
<1> HIDE DEF start, at
<1>3. PICK name, central, local : Checked(other, start, name, central, local)
  BY ReturnedIsChecked
<1>4. Stands(other, start, "central", CentralLen)
  BY <1>3, Zenon DEF Checked
<1>5. other[start + 1].at = 1 /\ other[start + 1].of.signature = "central"
  BY <1>4, Zenon DEF Stands
<1> DEFINE i == start - f + 1
<1>6. i \in 1..Len(bytes) /\ f + i = start + 1
  BY ONLY <1>1, <1>2, f \in Nat \ {0} DEF EocdLen
<1>7. other[start + 1] = bytes[i]
  BY <1>6
<1> HIDE DEF i
<1>8. bytes[i].at = 1 /\ bytes[i].of.signature = "central"
  BY <1>5, <1>7
<1>9. PICK j \in 1..Len(t) : i = C[j - 1] + 1
  <2>1. HeaderStarts(bytes, i, "central")
    BY <1>6, <1>8 DEF HeaderStarts
  <2>2. InDirectory(t, C, i)
    BY <2>1, OneOfTheDirectory
  <2> QED
    BY <2>2 DEF InDirectory
<1>10. C[j - 1] \in Nat /\ start <= C[j - 1]
  BY <1>1
<1> QED
  BY ONLY <1>1, <1>6, <1>9, <1>10, f \in Nat \ {0}, SMTT(20)

LEMMA NoneRead ==
    ASSUME NEW bytes, NEW h, NEW count \in Nat \ {0}, h.total = count, CentralEntry(bytes, h.offset) = {}
    PROVE  ReadTo(bytes, h) = {}
<1>1. CentralEntries(bytes, h.offset, count) = {}
  BY NoFirstEntry
<1> QED
  BY <1>1 DEF ReadTo

LEMMA IndentedCaught ==
    ASSUME NEW t \in Seq(PlainEntries), NEW S, NEW bytes \in Seq(S), NEW L, NEW C,
           Sketched(bytes, t, L, C), Painted(bytes, t, L, C), NEW first
    PROVE  ReadStoredZip(<<first>> \o bytes) \subseteq {t}
<1> DEFINE front == <<first>>
           other == front \o bytes
           h == EndOf(t, C)
<1>1. front \in Seq({first}) /\ Len(front) = 1
  OBVIOUS
<1> HIDE DEF front
<1>2. other = front \o bytes /\ h = EndOf(t, C)
  OBVIOUS
<1> HIDE DEF other, h
<1>3. /\ ReadStoredZip(other) \subseteq ReadTo(other, h)
      /\ h.total = Len(t) /\ h.offset = C[0]
      /\ other \in Seq(S \cup {first}) /\ Len(other) = 1 + Len(bytes)
      /\ \A i \in 1..Len(bytes) : other[1 + i] = bytes[i]
  <2>1. PICK U : U = {first}
    OBVIOUS
  <2>2. front \in Seq(U)
    BY <1>1, <2>1
  <2>3. ReadStoredZip(other) \subseteq ReadTo(other, h)
    BY ONLY <1>2, <2>2, bytes \in Seq(S), BehindFront, t \in Seq(PlainEntries),
            Sketched(bytes, t, L, C), Painted(bytes, t, L, C)
  <2>5. other \in Seq(S \cup U)
    BY ONLY <1>2, <2>2, bytes \in Seq(S), BehindFront, t \in Seq(PlainEntries),
            Sketched(bytes, t, L, C), Painted(bytes, t, L, C)
  <2>6. Len(other) = Len(front) + Len(bytes)
    BY ONLY <1>2, <2>2, bytes \in Seq(S), BehindFront, t \in Seq(PlainEntries),
            Sketched(bytes, t, L, C), Painted(bytes, t, L, C)
  <2>7. \A i \in 1..Len(bytes) : other[Len(front) + i] = bytes[i]
    BY ONLY <1>2, <2>2, bytes \in Seq(S), BehindFront, t \in Seq(PlainEntries),
            Sketched(bytes, t, L, C), Painted(bytes, t, L, C)
  <2>4. h.total = Len(t) /\ h.offset = C[0]
    BY <1>2 DEF EndOf, Eocd
  <2> QED
    BY <1>1, <2>1, <2>3, <2>4, <2>5, <2>6, <2>7
<1>4. CASE Len(t) = 0
  <2>1. Pinned(other, t, C)
    BY <1>4 DEF Pinned
  <2>2. ReadTo(other, h) \subseteq {t}
    BY <1>3, <2>1, PinnedRead
  <2> QED
    BY <1>3, <2>2 DEF other, front
<1>5. CASE Len(t) # 0
  <2>1. C[0] \in Nat /\ LocalLen <= C[0] /\ Len(t) \in Nat \ {0}
    <3> DEFINE at == C[Len(t)] start == C[0]
    <3>1. start \in Nat /\ start >= LocalLen /\ Len(t) \in Nat
      BY <1>5, Measures
    <3> QED
      BY <1>5, <3>1 DEF LocalLen
  <2>2. 1 <= C[0] /\ 1 \in Nat \ {0}
    BY <2>1 DEF LocalLen
  <2>3. CentralEntry(other, C[0]) = {}
    BY <1>3, <1>5, <2>2, NothingBehind
  <2>4. ReadTo(other, h) = {}
    BY <1>3, <2>1, <2>3, NoneRead
  <2> QED
    BY <1>3, <2>4 DEF other, front
<1> QED
  BY <1>4, <1>5

\* With no second entry there are no two.
LEMMA NoSecondEntry ==
    ASSUME NEW bytes, NEW start, NEW count \in Nat, count >= 2, NEW next, NEW entry,
           CentralEntry(bytes, start) \subseteq {[next |-> next, entry |-> entry]},
           CentralEntry(bytes, next) = {}
    PROVE  CentralEntries(bytes, start, count) = {}
<1>1. PICK read : /\ CentralEntries(bytes, start, count) = read[count]
                  /\ read[0] = {[next |-> start, entries |-> <<>>]}
                  /\ \A k \in 1..count : read[k] = Turn(bytes, read[k - 1])
  <2>1. PICK directory : directory = CentralEntries(bytes, start, count)
    OBVIOUS
  <2> QED
    BY ONLY <2>1, count \in Nat, DirectoryGrows
<1>2. Turn(bytes, {}) = {}
  BY DEF Turn
<1>3. \A d \in read[1] : d.next = next
  <2>1. 1 \in 1..count /\ 1 - 1 = 0
    OBVIOUS
  <2>2. read[1] = Turn(bytes, read[0])
    BY <1>1, <2>1
  <2> SUFFICES ASSUME NEW d \in read[1] PROVE d.next = next
    OBVIOUS
  <2>3. PICK before \in read[0] : \E turn \in CentralEntry(bytes, before.next) :
            d = [next |-> turn.next, entries |-> Append(before.entries, turn.entry)]
    BY <2>2 DEF Turn
  <2>4. PICK turn \in CentralEntry(bytes, start) :
            d = [next |-> turn.next, entries |-> Append(before.entries, turn.entry)]
    <3> DEFINE none == [next |-> start, entries |-> <<>>]
    <3>1. none.next = start
      OBVIOUS
    <3>2. before = none
      BY <1>1
    <3> HIDE DEF none
    <3>3. before.next = start
      BY <3>1, <3>2
    <3> QED
      BY <2>3, <3>3
  <2>5. turn.next = next
    BY <2>4
  <2> QED
    BY <2>4, <2>5
<1>4. read[2] = {}
  <2>1. 2 \in 1..count /\ 2 - 1 = 1
    OBVIOUS
  <2>2. read[2] = Turn(bytes, read[1])
    BY <1>1, <2>1
  <2> QED
    BY <1>3, <2>2 DEF Turn
<1> DEFINE none == {k \in Nat : k + 2 <= count => read[k + 2] = {}}
<1>5. 0 \in none
  BY <1>4
<1>6. ASSUME NEW k \in Nat, k \in none PROVE k + 1 \in none
  <2> SUFFICES ASSUME k + 1 + 2 <= count PROVE read[k + 1 + 2] = {}
    OBVIOUS
  <2>1. read[k + 2] = {}
    BY <1>6
  <2>2. PICK j \in 1..count : j = k + 1 + 2 /\ j - 1 = k + 2
    OBVIOUS
  <2> QED
    BY <1>1, <1>2, <2>1, <2>2
<1>7. Nat \subseteq none
  <2> HIDE DEF none
  <2> QED
    BY <1>5, <1>6, EveryNumber
<1>8. read[count] = {}
  <2>1. count - 2 \in Nat /\ count - 2 + 2 = count
    OBVIOUS
  <2>2. count - 2 \in none
    BY <1>7, <2>1
  <2> QED
    BY <2>1, <2>2
<1> QED
  BY <1>1, <1>8

\* What follows the archive of one entry is not read on its own: where its directory
\* starts, that entry is read, and no other behind it.
LEMMA OneInFront ==
    ASSUME NEW one \in Seq(PlainEntries), Len(one) = 1, NEW front, NEW L, NEW C,
           Sketched(front, one, L, C), Painted(front, one, L, C),
           NEW T, NEW other \in Seq(T), InFront(other, front),
           NEW h, h.total \in Nat \ {0}, h.offset \in Nat, h.offset < Len(front)
    PROVE  ReadTo(other, h) \subseteq {one}
<1> DEFINE start == C[0] at == C[Len(one)] f == Len(front) n == h.total
<1>1. /\ at \in Nat /\ f = at + EocdLen /\ f \in Nat /\ at = C[1] /\ 1 \in 1..Len(one)
      /\ start \in Nat
  <2>1. at \in Nat /\ f = at + EocdLen /\ f \in Nat
    BY Measures
  <2>2. start \in Nat
    BY Measures
  <2> QED
    BY <2>1, <2>2
<1>2. Pinned(other, one, C)
  BY FrontPinned
<1>3. CentralEntry(other, C[0]) \subseteq {[next |-> C[1], entry |-> one[1]]}
  <2>1. 1 - 1 = 0
    OBVIOUS
  <2> QED
    BY <1>1, <1>2, <2>1 DEF Pinned
<1>4. Len(other) \in Nat /\ f <= Len(other) /\ \A i \in 1..f : other[i] = front[i]
  BY DEF InFront
<1> HIDE DEF start, at, f, n
<1>5. CASE CentralEntry(other, h.offset) = {}
  BY <1>5, NoneRead
<1>6. ASSUME NEW turn \in CentralEntry(other, h.offset) PROVE h.offset = C[0]
  <2>1. PICK name, central, local : Checked(other, h.offset, name, central, local)
    BY <1>6, ReturnedIsChecked
  <2>2. Stands(other, h.offset, "central", CentralLen)
    BY <2>1, Zenon DEF Checked
  <2> DEFINE i == h.offset + 1
  <2>3. other[i].at = 1 /\ other[i].of.signature = "central"
    BY <2>2, Zenon DEF Stands
  <2>4. i \in 1..f
    BY <1>1 DEF f
  <2> HIDE DEF i
  <2>5. front[i].at = 1 /\ front[i].of.signature = "central" /\ i \in 1..Len(front)
    BY <1>4, <2>3, <2>4 DEF f
  <2>6. PICK j \in 1..Len(one) : i = C[j - 1] + 1
    <3>1. HeaderStarts(front, i, "central")
      BY <2>5 DEF HeaderStarts
    <3>2. InDirectory(one, C, i)
      BY <3>1, OneOfTheDirectory
    <3> QED
      BY <3>2 DEF InDirectory
  <2>7. j - 1 = 0
    OBVIOUS
  <2> QED
    BY <1>1, <2>6, <2>7 DEF i, start
<1>7. CASE h.offset = C[0] /\ n = 1
  BY <1>2, <1>7, PinnedRead DEF n
<1>8. CASE h.offset = C[0] /\ n >= 2
  <2>1. front[at + 1] = Cell(EndOf(one, C), 1)
    BY Heads DEF at
  <2>2. at + 1 \in 1..f
    BY <1>1 DEF EocdLen
  <2>3. other[at + 1].of.signature = "eocd"
    BY <1>4, <2>1, <2>2, Signatures
  <2>4. ~Stands(other, at, "central", CentralLen)
    BY <2>3 DEF Stands
  <2>5. CentralEntry(other, at) = {}
    BY <2>4 DEF CentralEntry
  <2>6. CentralEntries(other, h.offset, n) = {}
    <3>1. CentralEntry(other, h.offset) \subseteq {[next |-> at, entry |-> one[1]]}
      BY <1>1, <1>3, <1>8
    <3>2. n \in Nat /\ n >= 2
      BY <1>8 DEF n
    <3> QED
      BY <2>5, <3>1, <3>2, NoSecondEntry
  <2> QED
    BY <2>6 DEF ReadTo, n
<1>9. n \in Nat \ {0}
  BY DEF n
<1>10. n = 1 \/ n >= 2
  BY <1>9
<1> QED
  BY <1>5, <1>6, <1>7, <1>8, <1>10

LEMMA PrecededCaught ==
    ASSUME NEW t \in Seq(PlainEntries), NEW S, NEW bytes \in Seq(S), NEW L, NEW C,
           Sketched(bytes, t, L, C), Painted(bytes, t, L, C),
           NEW one \in Seq(PlainEntries), Len(one) = 1, NEW U, NEW front \in Seq(U), NEW FL, NEW FC,
           Sketched(front, one, FL, FC), Painted(front, one, FL, FC)
    PROVE  ReadStoredZip(front \o bytes) \subseteq {t, one}
<1> DEFINE other == front \o bytes
           h == EndOf(t, C)
           f == Len(front)
<1>2. other = front \o bytes /\ h = EndOf(t, C) /\ f = Len(front)
  OBVIOUS
<1> HIDE DEF other, h, f
<1>3. ReadStoredZip(other) \subseteq ReadTo(other, h)
  BY <1>2, BehindFront
<1>4. other \in Seq(S \cup U)
  BY <1>2, BehindFront
<1>5. Len(other) = f + Len(bytes)
  BY <1>2, BehindFront
<1>6. \A i \in 1..Len(front) : other[i] = front[i]
  BY <1>2, BehindFront
<1>7. \A i \in 1..Len(bytes) : other[f + i] = bytes[i]
  BY <1>2, BehindFront
<1>8. h.total = Len(t) /\ h.offset = C[0]
  BY <1>2 DEF EndOf, Eocd
<1>9. C[0] \in Nat /\ Len(t) \in Nat /\ Len(bytes) \in Nat
  <2> DEFINE start == C[0] at == C[Len(t)]
  <2>1. start \in Nat /\ Len(t) \in Nat /\ Len(bytes) \in Nat
    BY Measures
  <2> QED
    BY <2>1
<1>10. f \in Nat \ {0}
  <2> DEFINE at == FC[Len(one)]
  <2>1. at \in Nat /\ f = at + EocdLen
    <3>1. at \in Nat /\ Len(front) = at + EocdLen
      BY Measures, Zenon
    <3> QED
      BY <1>2, <3>1
  <2> HIDE DEF at
  <2> QED
    BY ONLY <2>1 DEF EocdLen
<1>11. CASE Len(t) = 0
  <2>1. Pinned(other, t, C)
    BY <1>11 DEF Pinned
  <2>2. ReadTo(other, h) \subseteq {t}
    BY <1>8, <1>11, <2>1, PinnedRead
  <2> QED
    BY <1>2, <1>3, <2>2
<1>12. CASE Len(t) # 0 /\ f <= C[0]
  <2>1. CentralEntry(other, C[0]) = {}
    BY <1>4, <1>5, <1>7, <1>10, <1>12, NothingBehind
  <2>2. ReadTo(other, h) = {}
    BY <1>8, <1>9, <1>12, <2>1, NoneRead
  <2> QED
    BY <1>2, <1>3, <2>2
<1>13. CASE Len(t) # 0 /\ C[0] < f
  <2>1. InFront(other, front)
    BY <1>2, <1>5, <1>6, <1>9, <1>10 DEF InFront
  <2>2. h.total \in Nat \ {0} /\ h.offset \in Nat /\ h.offset < Len(front)
    BY <1>2, <1>8, <1>9, <1>13
  <2>3. ReadTo(other, h) \subseteq {one}
    BY <1>4, <2>1, <2>2, OneInFront
  <2> QED
    BY <1>2, <1>3, <2>3
<1> QED
  BY <1>9, <1>10, <1>11, <1>12, <1>13

-----------------------------------------------------------------------------
(* Archives: one edit is caught. *)

\* What is packed is painted.
LEMMA ArchiveIsPainted ==
    ASSUME NEW s \in Seq(PlainEntries), NEW bytes \in ToZipBytes(s), NEW t, t = Sorted(s)
    PROVE  /\ t \in Seq(PlainEntries) /\ Len(t) = Len(s)
           /\ \E T : bytes \in Seq(T)
           /\ \E L, C : Sketched(bytes, t, L, C) /\ Painted(bytes, t, L, C)
<1>1. Texts(PlainEntries)
  BY DEF Texts, PlainEntries
<1>2. Packable(s, t) /\ bytes = ArchiveOf(t)
  BY ZipBytesAre
<1>3. t \in Seq(PlainEntries) /\ Len(t) = Len(s)
  BY <1>1, SortedInOrder
<1> DEFINE locals == LocalSections(t)[Len(t)]
           centrals == CentralSections(t)[Len(t)]
           end == Header(Eocd(Len(t), Len(centrals), Len(locals)), EocdLen)
           whole == locals \o centrals \o end
<1>4. whole = bytes
  BY <1>2 DEF ArchiveOf
<1>5. (\E T : whole \in Seq(T)) /\ Laid(whole, t, LocalStarts(t), CentralStarts(t))
  <2> HIDE DEF locals, centrals, end
  <2>1. locals = LocalSections(t)[Len(t)] /\ centrals = CentralSections(t)[Len(t)]
        /\ end = Header(Eocd(Len(t), Len(centrals), Len(locals)), EocdLen)
    BY DEF locals, centrals, end
  <2>2. t \in Seq([path : Seq(Nat), bytes : Seq(PlainCells)])
    BY <1>3 DEF PlainEntries
  <2> QED
    BY ONLY <2>1, <2>2, SectionsLaid
<1> HIDE DEF whole
<1>6. Sketched(bytes, t, LocalStarts(t), CentralStarts(t)) /\ Painted(bytes, t, LocalStarts(t), CentralStarts(t))
  BY <1>3, <1>4, <1>5, LaidIsPainted
<1> QED
  BY <1>3, <1>4, <1>5, <1>6

LEMMA OneSorted ==
    ASSUME NEW e \in PlainEntries
    PROVE  Sorted(<<e>>) = <<e>>
<1>1. Texts(PlainEntries)
  BY DEF Texts, PlainEntries
<1> DEFINE s == <<e>>
<1>2. s \in Seq(PlainEntries) /\ Len(s) = 1 /\ DOMAIN s = 1..1 /\ s[1] = e
  OBVIOUS
<1> HIDE DEF s
<1>3. /\ Sorted(s) \in Seq(PlainEntries) /\ Len(Sorted(s)) = Len(s)
      /\ \A p \in DOMAIN s : \E k \in DOMAIN s : Sorted(s)[p] = s[k]
  BY <1>1, <1>2, SortedInOrder
<1>4. Sorted(s)[1] = e
  BY <1>2, <1>3
<1>5. Sorted(s) = s
  BY <1>2, <1>3, <1>4
<1> QED
  BY <1>5 DEF s

\* One edit of an archive.
LEMMA EditCaught ==
    ASSUME FieldValues \subseteq Nat, Entries \subseteq PlainEntries,
           NEW s \in Seq(PlainEntries), NEW bytes \in ToZipBytes(s), NEW t, t = Sorted(s),
           NEW e \in FieldEdits(bytes) \cup ShapeEdits(bytes), e # None,
           NEW entries \in ReadStoredZip(Edited(bytes, e))
    PROVE  entries = t \/ (e.kind = "preceded" /\ entries = <<e.by>>)
<1>1. t \in Seq(PlainEntries) /\ \E T : bytes \in Seq(T)
  BY ArchiveIsPainted
<1>2. PICK S : bytes \in Seq(S)
  BY <1>1
<1>3. PICK L, C : Sketched(bytes, t, L, C) /\ Painted(bytes, t, L, C)
  BY ArchiveIsPainted
<1>4. DOMAIN bytes = 1..Len(bytes) /\ Len(bytes) \in Nat
  BY <1>2
<1>5. ASSUME NEW k \in DOMAIN bytes, bytes[k].at = 1,
             NEW field \in FieldsOf(bytes[k].of.signature) \ {"crc"}, NEW value \in FieldValues,
             e = [kind |-> "field", cell |-> k, field |-> field, value |-> value]
      PROVE  entries = t
  <2> DEFINE h == FieldSet(bytes[k].of, field, value)
  <2>1. FieldEdit(bytes[k].of, h) /\ k \in 1..Len(bytes)
    BY <1>4, <1>5 DEF FieldEdit
  <2>2. Edited(bytes, e) = SetField(bytes, k, h)
    BY <1>5 DEF Edited, FieldSet
  <2> HIDE DEF h
  <2>3. ReadStoredZip(SetField(bytes, k, h)) \subseteq {t}
    BY <1>1, <1>2, <1>3, <1>5, <2>1, AlteredCaught
  <2> QED
    BY <2>2, <2>3
<1>6. ASSUME NEW k \in HeadersIn(bytes, "local") \cup HeadersIn(bytes, "central"),
             e = [kind |-> "checksum", cell |-> k]
      PROVE  entries = t
  <2> DEFINE h == ChecksumSet(bytes[k].of)
  <2>1. ChecksumEdit(bytes[k].of, h) /\ k \in 1..Len(bytes) /\ bytes[k].at = 1
    BY <1>4, <1>6 DEF ChecksumEdit, HeadersIn
  <2>2. Edited(bytes, e) = SetField(bytes, k, h)
    BY <1>6 DEF Edited, ChecksumSet
  <2> HIDE DEF h
  <2>3. ReadStoredZip(SetField(bytes, k, h)) \subseteq {t}
    BY <1>1, <1>2, <1>3, <2>1, AlteredCaught
  <2> QED
    BY <2>2, <2>3
<1>7. ASSUME NEW n \in 0..(Len(bytes) - 1), e = [kind |-> "cut", length |-> n]
      PROVE  entries = t
  <2>1. Edited(bytes, e) = SubSeq(bytes, 1, n)
    BY <1>7 DEF Edited
  <2>2. ReadStoredZip(SubSeq(bytes, 1, n)) \subseteq {t}
    BY <1>1, <1>2, <1>3, CutCaught
  <2> QED
    BY <2>1, <2>2
<1>8. CASE e = [kind |-> "extended"]
  <2>1. Edited(bytes, e) = Append(bytes, Byte(0))
    BY <1>8 DEF Edited
  <2>2. ReadStoredZip(Append(bytes, Byte(0))) \subseteq {t}
    BY <1>1, <1>2, <1>3, ExtendedCaught
  <2> QED
    BY <2>1, <2>2
<1>9. CASE e = [kind |-> "indented"]
  <2>1. Edited(bytes, e) = <<Byte(0)>> \o bytes
    BY <1>9 DEF Edited
  <2>2. ReadStoredZip(<<Byte(0)>> \o bytes) \subseteq {t}
    BY <1>1, <1>2, <1>3, IndentedCaught
  <2> QED
    BY <2>1, <2>2
<1>10. ASSUME NEW by \in Entries, ToZipBytes(<<by>>) # {}, e = [kind |-> "preceded", by |-> by]
       PROVE  entries = t \/ (e.kind = "preceded" /\ entries = <<e.by>>)
  <2> DEFINE front == CHOOSE b \in ToZipBytes(<<by>>) : TRUE
             one == <<by>>
  <2>1. Edited(bytes, e) = front \o bytes
    BY <1>10 DEF Edited
  <2>2. front \in ToZipBytes(one) /\ one \in Seq(PlainEntries) /\ Len(one) = 1 /\ Sorted(one) = one
    BY <1>10, OneSorted
  <2> HIDE DEF front, one
  <2>3. (\E T : front \in Seq(T)) /\ \E FL, FC : Sketched(front, one, FL, FC) /\ Painted(front, one, FL, FC)
    BY <2>2, ArchiveIsPainted
  <2>4. PICK U : front \in Seq(U)
    BY <2>3
  <2>5. PICK FL, FC : Sketched(front, one, FL, FC) /\ Painted(front, one, FL, FC)
    BY <2>3
  <2>6. ReadStoredZip(front \o bytes) \subseteq {t, one}
    BY <1>1, <1>2, <1>3, <2>2, <2>4, <2>5, PrecededCaught
  <2>7. e.kind = "preceded" /\ e.by = by
    BY <1>10
  <2> QED
    BY <2>1, <2>6, <2>7 DEF one
<1>11. CASE e \in FieldEdits(bytes)
  <2>1. \/ \E k \in DOMAIN bytes : /\ bytes[k].at = 1
             /\ \E field \in FieldsOf(bytes[k].of.signature) \ {"crc"}, value \in FieldValues :
                   e = [kind |-> "field", cell |-> k, field |-> field, value |-> value]
        \/ \E k \in HeadersIn(bytes, "local") \cup HeadersIn(bytes, "central") :
              e = [kind |-> "checksum", cell |-> k]
    <3> DEFINE fields(k) ==
                 {[kind |-> "field", cell |-> k, field |-> field, value |-> value] :
                     field \in FieldsOf(bytes[k].of.signature) \ {"crc"}, value \in FieldValues}
               starts == {i \in DOMAIN bytes : bytes[i].at = 1}
               heads == HeadersIn(bytes, "local") \cup HeadersIn(bytes, "central")
    <3>1. FieldEdits(bytes)
            = (UNION {fields(k) : k \in starts}) \cup {[kind |-> "checksum", cell |-> k] : k \in heads}
      BY DEF FieldEdits
    <3>2. (\E k \in starts : e \in fields(k)) \/ \E k \in heads : e = [kind |-> "checksum", cell |-> k]
      <4> HIDE DEF fields, starts, heads
      <4> QED
        BY <1>11, <3>1
    <3>3. ASSUME NEW k \in starts, e \in fields(k)
          PROVE  \E field \in FieldsOf(bytes[k].of.signature) \ {"crc"}, value \in FieldValues :
                    e = [kind |-> "field", cell |-> k, field |-> field, value |-> value]
      BY <3>3
    <3> QED
      BY <3>2, <3>3
  <2> QED
    BY <1>5, <1>6, <2>1
<1>12. CASE e \in ShapeEdits(bytes)
  <2>1. \/ \E n \in 0..(Len(bytes) - 1) : e = [kind |-> "cut", length |-> n]
        \/ e = [kind |-> "extended"] \/ e = [kind |-> "indented"]
        \/ \E by \in Entries : ToZipBytes(<<by>>) # {} /\ e = [kind |-> "preceded", by |-> by]
    BY <1>12 DEF ShapeEdits
  <2> QED
    BY <1>7, <1>8, <1>9, <1>10, <2>1
<1> QED
  BY <1>11, <1>12

\* No payload holds a header of its own.  With others the property can fail: a payload that
\* repeats the central section of another entry needs one altered offset to be read for the
\* directory.
PlainPayloads == \A e \in Entries : e.bytes \in Seq(PlainCells)

\* What was done to the archive is one of its edits.
EditInv ==
    edit # None =>
        \A bytes \in ToZipBytes(bundle) : edit \in FieldEdits(bytes) \cup ShapeEdits(bytes)

LEMMA EditInductive ==
    /\ BundleInit => EditInv
    /\ EditInv /\ [BundleStep]_<<calls, bundleVars>> => EditInv'
<1>1. BundleInit => EditInv
  BY DEF BundleInit, EditInv
<1>2. ASSUME EditInv, [BundleStep]_<<calls, bundleVars>> PROVE EditInv'
  <2>1. ASSUME NEW entry \in Entries, AddEntry(entry) PROVE EditInv'
    BY <2>1 DEF AddEntry, EditInv
  <2>2. CASE AlterArchive
    <3>1. PICK bytes \in ToZipBytes(bundle) : edit' \in FieldEdits(bytes) \cup ShapeEdits(bytes)
      BY <2>2 DEF AlterArchive
    <3>2. ToZipBytes(bundle) = {bytes}
      BY ZipBytesAre
    <3>3. bundle' = bundle
      BY <2>2 DEF AlterArchive
    <3> QED
      BY <3>1, <3>2, <3>3 DEF EditInv
  <2>3. CASE UNCHANGED <<calls, bundleVars>>
    BY <1>2, <2>3 DEF bundleVars, EditInv
  <2> QED
    BY <1>2, <2>1, <2>2, <2>3 DEF BundleStep
<1> QED
  BY <1>1, <1>2

LEMMA EditsCaughtNow == PlainPayloads /\ BundleInv /\ EditInv => EditsAreCaught
<1> SUFFICES ASSUME PlainPayloads, BundleInv, EditInv, edit # None,
                    NEW received \in Received, NEW entries \in ReadStoredZip(received)
             PROVE  entries = Sorted(bundle) \/ (edit.kind = "preceded" /\ entries = <<edit.by>>)
  BY DEF EditsAreCaught
<1>1. PICK bytes \in ToZipBytes(bundle) : received = Edited(bytes, edit)
  BY DEF Received
<1>2. edit \in FieldEdits(bytes) \cup ShapeEdits(bytes)
  BY DEF EditInv
<1>3. FieldValues \subseteq Nat /\ Entries \subseteq PlainEntries
  <2>1. ASSUME NEW e \in Entries PROVE e \in PlainEntries
    <3>1. e \in [path : Seq(Nat), bytes : Seq({e.bytes[i] : i \in DOMAIN e.bytes})]
      BY EntriesAssumption
    <3>2. e.bytes \in Seq(PlainCells)
      BY DEF PlainPayloads
    <3> QED
      BY ONLY <3>1, <3>2 DEF PlainEntries
  <2> QED
    BY <2>1, EntriesAssumption
<1>4. bundle \in Seq(PlainEntries)
  BY <1>3 DEF BundleInv
<1> QED
  BY <1>1, <1>2, <1>3, <1>4, EditCaught

\* For every set of entries whose payloads are plain, every archive of them and every edit,
\* with any value in any field, any cut and any archive in front: what the reader returns is
\* what was packed, or what was packed in front (read_stored_zip, read_local_file_payload,
\* find_eocd).
THEOREM EditsCaught == PlainPayloads => (BundleSpec => []EditsAreCaught)
<1> SUFFICES ASSUME PlainPayloads PROVE BundleSpec => []EditsAreCaught
  OBVIOUS
<1>1. BundleInit => BundleInv /\ EditInv
  BY BundleInductive, EditInductive
<1>2. BundleInv /\ EditInv /\ [BundleStep]_<<calls, bundleVars>> => BundleInv' /\ EditInv'
  BY BundleInductive, EditInductive
<1>3. BundleInv /\ EditInv => EditsAreCaught
  BY EditsCaughtNow
<1> QED
  BY <1>1, <1>2, <1>3, PTL DEF BundleSpec
=============================================================================
