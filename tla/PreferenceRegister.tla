-------------------------- MODULE PreferenceRegister --------------------------
(***************************************************************************)
(* What the preferences of a user promise to the user's devices: a         *)
(* register that a device changes only if it has seen what it replaces.    *)
(***************************************************************************)
EXTENDS Integers

CONSTANTS Device, Value, NoValue

VARIABLES
  current,   \* the version stored: its number and its content
  seen,      \* the version each device has seen last
  reply      \* the version a device has stored and not been told about

registerVars == <<current, seen, reply>>

Nothing == [rev |-> 0, val |-> NoValue]
NoReply == [rev |-> -1, val |-> NoValue]

Read(d) ==
  /\ reply[d] = NoReply
  /\ seen' = [seen EXCEPT ![d] = current]
  /\ UNCHANGED <<current, reply>>

Change(d) ==
  /\ reply[d] = NoReply
  /\ seen[d] = current
  /\ \E v \in Value : current' = [rev |-> current.rev + 1, val |-> v]
  /\ reply' = [reply EXCEPT ![d] = current']
  /\ UNCHANGED seen

\* The device is told what it stored, or the answer is lost.
Learn(d) ==
  /\ reply[d] # NoReply
  /\ seen' \in {seen, [seen EXCEPT ![d] = reply[d]]}
  /\ reply' = [reply EXCEPT ![d] = NoReply]
  /\ UNCHANGED current

RegisterStart ==
  /\ current \in {Nothing} \cup [rev : Nat \ {0}, val : Value]
  /\ seen = [d \in Device |-> Nothing]
  /\ reply = [d \in Device |-> NoReply]
RegisterNext == \E d \in Device : Read(d) \/ Change(d) \/ Learn(d)
RegisterSpec == RegisterStart /\ [][RegisterNext]_registerVars
=============================================================================
