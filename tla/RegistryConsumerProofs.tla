---------------------- MODULE RegistryConsumerProofs ----------------------
(***************************************************************************)
(* What holds of the registry consumer for every set of Redis keys and     *)
(* addresses and every bound on messages and crashes.                      *)
(***************************************************************************)
EXTENDS RegistryConsumer, TLAPS

(* The position never falls behind the committed offset, and everything up *)
(* to it went through the loop in some incarnation.                        *)
PositionOK ==
  /\ committed <= pos
  /\ 1 .. pos \subseteq handled

(* An intact address is explained by one handled message: the set agrees   *)
(* with it, and nothing between it and the position speaks of the address. *)
(* While a restarted consumer replays, that message may lie ahead of the   *)
(* position, which is why ReplayConverges alone is not inductive.          *)
Explains(i, p) ==
  /\ About(i, p)
  /\ p \in redis <=> log[i].op = "register"
  /\ \A j \in i + 1 .. pos : ~About(j, p)

IntactExplained == \A p \in intact : \E i \in handled : Explains(i, p)

---------------------------------------------------------------------------
(* Every variable keeps its type, whatever the keys and the bounds.        *)
THEOREM TypeCorrect == Spec => []TypeOK
<1>1. Init => TypeOK
  BY BoundsAssumption DEF Init, TypeOK, Pairs
<1>2. TypeOK /\ [Next]_vars => TypeOK'
  <2> SUFFICES ASSUME TypeOK, [Next]_vars
               PROVE  TypeOK'
    OBVIOUS
  <2> USE DEF TypeOK
  <2>1. CASE Produce
    BY <2>1 DEF Produce
  <2>2. CASE Ignore
    BY <2>2 DEF Ignore, Poll
  <2>3. CASE Apply
    <3>1. Polled \in Messages /\ Polled # Unknown
      BY <2>3 DEF Apply, Poll, Polled
    <3>2. Polled.on \in Pairs
      BY <3>1 DEF Messages
    <3> QED
      BY <2>3, <3>2 DEF Apply, Poll, Effect
  <2>4. CASE ApplyFails
    <3>1. Polled \in Messages /\ Polled # Unknown
      BY <2>4 DEF ApplyFails, Poll, Polled
    <3>2. Polled.on \in Pairs
      BY <3>1 DEF Messages
    <3> QED
      BY <2>4, <3>2 DEF ApplyFails, Poll, Effect
  <2>5. CASE Commit
    BY <2>5 DEF Commit, CommitOffset
  <2>6. CASE Crash
    <3>1. crashes' \in 0 .. MaxCrashes
      BY <2>6, BoundsAssumption DEF Crash
    <3> QED
      BY <2>6, <3>1 DEF Crash
  <2>7. CASE Restart
    BY <2>7 DEF Restart, ResumeAt
  <2>8. CASE RpcWrite
    BY <2>8, NamesAssumption DEF RpcWrite, Pairs
  <2>9. CASE UNCHANGED vars
    BY <2>9 DEF vars
  <2> QED
    BY <2>1, <2>2, <2>3, <2>4, <2>5, <2>6, <2>7, <2>8, <2>9 DEF Next
<1> QED
  BY <1>1, <1>2, PTL DEF Spec

---------------------------------------------------------------------------
(* The position stays at or past the committed offset, over handled        *)
(* messages only.                                                          *)
LEMMA PositionStep ==
  ASSUME TypeOK, PositionOK, [Next]_vars
  PROVE  PositionOK'
<1> USE DEF TypeOK, PositionOK
<1>1. CASE Ignore \/ Apply \/ ApplyFails
  BY <1>1 DEF Ignore, Apply, ApplyFails, Poll
<1>2. CASE Commit
  BY <1>2 DEF Commit, CommitOffset
<1>3. CASE Restart
  BY <1>3 DEF Restart, ResumeAt
<1>4. CASE Produce \/ Crash \/ RpcWrite \/ UNCHANGED vars
  BY <1>4 DEF Produce, Crash, RpcWrite, vars
<1> QED
  BY <1>1, <1>2, <1>3, <1>4 DEF Next

LEMMA PositionInvariant == Spec => []PositionOK
<1>1. Init => PositionOK
  BY DEF Init, PositionOK
<1>2. TypeOK /\ PositionOK /\ [Next]_vars => PositionOK'
  BY PositionStep
<1> QED
  BY <1>1, <1>2, TypeCorrect, PTL DEF Spec

(* The group never passes over a message that no incarnation looked at.    *)
THEOREM NeverSkips == Spec => []NothingSkipped
<1>1. TypeOK /\ PositionOK => NothingSkipped
  BY DEF TypeOK, PositionOK, NothingSkipped
<1> QED
  BY <1>1, TypeCorrect, PositionInvariant, PTL

(* The committed offset only grows.                                        *)
THEOREM CommitsOnlyAdvance == Spec => CommitsAdvance
<1>1. TypeOK /\ PositionOK /\ [Next]_vars => [committed' >= committed]_vars
  BY DEF TypeOK, PositionOK, Next, vars, Produce, Ignore, Apply, ApplyFails,
         Poll, Commit, CommitOffset, Crash, Restart, RpcWrite
<1> QED
  BY <1>1, TypeCorrect, PositionInvariant, PTL DEF Spec, CommitsAdvance

---------------------------------------------------------------------------
(* A step that keeps the log, an address and its set, and does not move    *)
(* the position past a message about it, keeps its explanation.            *)
LEMMA ExplanationKept ==
  ASSUME TypeOK, NEW p \in Pairs, NEW i \in handled, Explains(i, p),
         \/ log' = log
         \/ \E m \in Messages : log' = Append(log, m),
         pos' \in Nat,
         \A j \in pos + 1 .. pos' : ~About(j, p),
         pos' <= Len(log),
         p \in redis' <=> p \in redis
  PROVE  Explains(i, p)'
<1>1. \A j \in 1 .. Len(log) : log'[j] = log[j]
  BY DEF TypeOK
<1>2. \A j \in 1 .. Len(log) : About(j, p)' <=> About(j, p)
  BY <1>1 DEF About
<1>3. i \in 1 .. Len(log)
  BY DEF TypeOK
<1>4. ASSUME NEW j \in i + 1 .. pos'
      PROVE  ~About(j, p)'
  <2>1. j \in 1 .. Len(log)
    BY <1>3
  <2>2. ~About(j, p)
    BY <1>3 DEF Explains, TypeOK
  <2> QED
    BY <1>2, <2>1, <2>2
<1> QED
  BY <1>1, <1>2, <1>3, <1>4 DEF Explains

(* The message just applied explains its own address; every other          *)
(* explanation is kept, or its address is no longer intact.                *)
LEMMA ExplainedStep ==
  ASSUME TypeOK, PositionOK, IntactExplained, [Next]_vars
  PROVE  IntactExplained'
<1> SUFFICES ASSUME NEW p \in intact'
             PROVE  \E i \in handled' : Explains(i, p)'
  BY DEF IntactExplained
<1>1. CASE Apply /\ p = Polled.on
  <2>1. PICK k \in Nat : k = pos + 1
    BY DEF TypeOK
  <2>2. k \in handled' /\ pos' = k /\ log' = log /\ log[k] = Polled
    BY <1>1, <2>1 DEF Apply, Poll, Polled
  <2>3. About(k, p)'
    BY <1>1, <2>2 DEF Apply, About
  <2>4. p \in redis' <=> log[k].op = "register"
    BY <1>1, <2>2 DEF Apply, Effect
  <2>5. Explains(k, p)'
    BY <2>2, <2>3, <2>4 DEF Explains
  <2> QED
    BY <2>2, <2>5
<1>2. CASE ~(Apply /\ p = Polled.on)
  <2>1. p \in intact /\ p \in Pairs
    BY <1>2 DEF TypeOK, Next, vars, Produce, Ignore, Apply, ApplyFails,
                Commit, Crash, Restart, RpcWrite
  <2>2. p \in redis' <=> p \in redis
    BY <1>2 DEF Next, vars, Produce, Ignore, Apply, ApplyFails, Effect,
                Commit, Crash, Restart, RpcWrite
  <2>3. /\ pos' \in Nat
        /\ pos' <= Len(log)
        /\ \A j \in pos + 1 .. pos' : ~About(j, p)
    <3>1. CASE Ignore
      BY <3>1 DEF TypeOK, Ignore, Poll, Polled, About
    <3>2. CASE Apply
      BY <1>2, <3>2 DEF TypeOK, Apply, Poll, Polled, About
    <3>3. CASE ApplyFails
      BY <3>3 DEF TypeOK, ApplyFails, Poll, Polled, About
    <3>4. CASE Restart
      BY <3>4 DEF TypeOK, PositionOK, Restart, ResumeAt
    <3>5. CASE Produce \/ Commit \/ Crash \/ RpcWrite \/ UNCHANGED vars
      BY <3>5 DEF TypeOK, Produce, Commit, Crash, RpcWrite, vars
    <3> QED
      BY <3>1, <3>2, <3>3, <3>4, <3>5 DEF Next
  <2>4. \/ log' = log
        \/ \E m \in Messages : log' = Append(log, m)
    BY DEF Next, vars, Produce, Ignore, Apply, ApplyFails, Commit, Crash,
           Restart, RpcWrite
  <2>5. handled \subseteq handled'
    BY DEF Next, vars, Produce, Ignore, Apply, ApplyFails, Poll, Commit,
           Crash, Restart, RpcWrite
  <2>6. PICK i \in handled : Explains(i, p)
    BY <2>1 DEF IntactExplained
  <2>7. Explains(i, p)'
    BY <2>1, <2>2, <2>3, <2>4, <2>6, ExplanationKept
  <2> QED
    BY <2>5, <2>7
<1> QED
  BY <1>1, <1>2

LEMMA ExplainedInvariant == Spec => []IntactExplained
<1>1. Init => IntactExplained
  BY DEF Init, IntactExplained
<1>2. TypeOK /\ PositionOK /\ IntactExplained /\ [Next]_vars => IntactExplained'
  BY ExplainedStep
<1> QED
  BY <1>1, <1>2, TypeCorrect, PositionInvariant, PTL DEF Spec

(* Redelivery in any number of incarnations converges on what the last     *)
(* message about each address says.                                        *)
THEOREM Converges == Spec => []ReplayConverges
<1>1. TypeOK /\ IntactExplained => ReplayConverges
  <2> SUFFICES ASSUME TypeOK, IntactExplained,
                      \A i \in handled : i <= pos,
                      NEW p \in intact, NEW i \in 1 .. pos, Latest(i, p)
               PROVE  p \in redis <=> log[i].op = "register"
    BY DEF ReplayConverges
  <2>1. PICK k \in handled : Explains(k, p)
    BY DEF IntactExplained
  <2>2. k \in 1 .. pos
    BY DEF TypeOK
  <2>3. ~(i < k)
    BY <2>1, <2>2 DEF Explains, Latest, TypeOK
  <2>4. ~(k < i)
    BY <2>1, <2>2 DEF Explains, Latest, TypeOK
  <2>5. i = k
    BY <2>2, <2>3, <2>4 DEF TypeOK
  <2> QED
    BY <2>1, <2>5 DEF Explains
<1> QED
  BY <1>1, TypeCorrect, ExplainedInvariant, PTL
===========================================================================
