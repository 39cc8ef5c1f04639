--------------------------- MODULE FlushGateProofs --------------------------
(* The flush gate's promise, for any number of callers, writes and calls. *)
EXTENDS FlushGate, TLAPS

\* The gate starts with nothing asked and nothing written.
LEMMA InitIInv == Init => IInv
BY NoneAssumption DEF Init, IInv, TypeOK, MutexInv, TicketInv, OkIsDurable, DoneIsDurable,
       FlushInv, Holds, Active

\* Every step of flush(), a failed or a dropped one included, preserves the
\* inductive invariant.
LEMMA NextIInv == IInv /\ [Next]_vars => IInv'
<1> SUFFICES ASSUME IInv, [Next]_vars PROVE IInv'
    OBVIOUS
<1> USE NoneAssumption, BoundsAssumption
<1> USE DEF IInv, TypeOK, MutexInv, TicketInv, OkIsDurable, DoneIsDurable, FlushInv,
        Holds, Active, MaxOf, gateVars, deviceVars
<1>1. CASE Write
    BY <1>1 DEF Write
<1>2. ASSUME NEW c \in Caller, Ask(c) PROVE IInv'
    BY <1>2 DEF Ask
<1>3. ASSUME NEW c \in Caller, Lock(c) PROVE IInv'
    BY <1>3 DEF Lock
<1>4. ASSUME NEW c \in Caller, Covered(c) PROVE IInv'
    BY <1>4 DEF Covered, Leave, IsCovered
<1>5. ASSUME NEW c \in Caller, Load(c) PROVE IInv'
    BY <1>5 DEF Load, IsCovered
<1>6. ASSUME NEW c \in Caller, Issue(c) PROVE IInv'
    BY <1>6 DEF Issue
<1>7. ASSUME NEW c \in Caller, Complete(c) PROVE IInv'
    BY <1>7 DEF Complete
<1>8. ASSUME NEW c \in Caller, Advance(c) PROVE IInv'
    BY <1>8 DEF Advance, Leave
<1>9. ASSUME NEW c \in Caller, Fail(c) PROVE IInv'
    BY <1>9 DEF Fail, Leave
<1>10. ASSUME NEW c \in Caller, Cancel(c) PROVE IInv'
    BY <1>10 DEF Cancel, Leave
<1>11. CASE UNCHANGED vars
    BY <1>11 DEF vars
<1>12. QED
    BY <1>1, <1>2, <1>3, <1>4, <1>5, <1>6, <1>7, <1>8, <1>9, <1>10, <1>11 DEF Next, Step

\* The inductive invariant holds in every reachable state of the gate.
THEOREM Invariance == Spec => []IInv
BY InitIInv, NextIInv, PTL DEF Spec

\* Whoever runs the flush, and whatever fails or is dropped on the way, a call
\* of flush() that answers Ok left the caller's completed writes on the media.
THEOREM FlushIsDurable == Spec => []OkIsDurable
<1>1. IInv => OkIsDurable
    BY DEF IInv
<1>2. QED
    BY <1>1, Invariance, PTL

\* Steps of the gate are steps of the flush promise.
LEMMA NextService == IInv /\ IInv' /\ [Next]_vars => [Service!Next]_(Service!vars)
<1> SUFFICES ASSUME IInv, IInv', [Next]_vars PROVE [Service!Next]_(Service!vars)
    OBVIOUS
<1> USE DEF Service!vars, gateVars, deviceVars
<1>1. CASE Write
    BY <1>1 DEF Write, Service!Write, Service!Next
<1>2. ASSUME NEW c \in Caller, Ask(c) PROVE Service!Next
    BY <1>2 DEF Ask, Service!Ask, Service!Next, IInv, TicketInv, Active
<1>3. ASSUME NEW c \in Caller, Lock(c) \/ Load(c) \/ Issue(c) PROVE UNCHANGED Service!vars
    BY <1>3 DEF Lock, Load, Issue
<1>4. ASSUME NEW c \in Caller, Covered(c) \/ Advance(c) PROVE Service!Next
  <2>1. result[c] = "pending"
    BY <1>4 DEF IInv, TicketInv, Active, Covered, Advance
  <2>2. need[c] <= durable
    BY <1>4 DEF IInv, OkIsDurable, TypeOK, Covered, Advance, Leave
  <2>3. Service!AnswerOk(c)
    BY <1>4, <2>1, <2>2 DEF Covered, Advance, Leave, Service!AnswerOk
  <2>4. QED
    BY <2>3 DEF Service!Next
<1>5. ASSUME NEW c \in Caller, Complete(c) PROVE Service!Next
  <2>1. durable' \in durable..written
    BY <1>5 DEF Complete, MaxOf, IInv, TypeOK, TicketInv
  <2>2. QED
    BY <1>5, <2>1 DEF Complete, Service!Persist, Service!Next
<1>6. ASSUME NEW c \in Caller, Fail(c) \/ Cancel(c) PROVE Service!Next
  <2>1. result[c] = "pending"
    BY <1>6 DEF IInv, TicketInv, Active, Fail, Cancel
  <2>2. Service!AnswerErr(c)
    BY <1>6, <2>1 DEF Fail, Cancel, Leave, Service!AnswerErr
  <2>3. QED
    BY <2>2 DEF Service!Next
<1>7. CASE UNCHANGED vars
    BY <1>7 DEF vars
<1>8. QED
    BY <1>1, <1>2, <1>3, <1>4, <1>5, <1>6, <1>7 DEF Next, Step

\* The ticketed gate implements the flush promise: however calls share device
\* flushes, each caller sees a flush of its own.
THEOREM Refinement == Spec => ServiceSpec
<1>1. Init => Service!Init
    BY DEF Init, Service!Init
<1>2. QED
    BY <1>1, Invariance, NextService, PTL DEF Spec, ServiceSpec, Service!Spec
=============================================================================
