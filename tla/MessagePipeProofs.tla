------------------------- MODULE MessagePipeProofs -------------------------
(* Proofs about MessagePipe, for any number of pipes.                       *)
EXTENDS MessagePipe, TLAPS

Messages == [end : Ends, index : Nat]

(* The types, and which ends are told what.                                 *)
TypeOK ==
    /\ sent \in [Ends -> Nat]
    /\ received \in [Ends -> Seq(Messages)]
    /\ closed \subseteq Ends
    /\ told \subseteq Ends

Inv == TypeOK /\ ReadsWhatWasSent /\ ToldWhenFinished

-----------------------------------------------------------------------------
(* The two ends of a pipe are each other's other end.                       *)
LEMMA OtherEnd ==
    ASSUME PipeCount \in Nat, NEW e \in Ends
    PROVE  Other(e) \in Ends /\ Other(Other(e)) = e /\ Other(e) # e
  BY DEF Ends, Other

(* No pipe has carried anything at first.                                   *)
LEMMA InitInv ==
    ASSUME PipeCount \in Nat, Init
    PROVE  Inv
  <1>1. Init
    OBVIOUS
  <1>2. << >> \in Seq(Messages) /\ Len(<< >>) = 0
    OBVIOUS
  <1>3. TypeOK
    BY <1>1, <1>2 DEF Init, TypeOK
  <1>4. ReadsWhatWasSent
    BY <1>1, <1>2, OtherEnd DEF Init, ReadsWhatWasSent
  <1>5. ToldWhenFinished
    BY <1>1 DEF Init, ToldWhenFinished
  <1> QED
    BY <1>3, <1>4, <1>5 DEF Inv

(* Every step of the pipes keeps Inv.                                       *)
LEMMA NextInv ==
    ASSUME PipeCount \in Nat, Inv, [Next]_vars
    PROVE  Inv'
  <1> USE DEF Inv
  <1>1. ASSUME NEW e \in Ends, Send(e) PROVE Inv'
    <2>1. TypeOK'
      BY <1>1 DEF Send, TypeOK
    <2>2. ReadsWhatWasSent'
      BY <1>1, OtherEnd DEF Send, TypeOK, ReadsWhatWasSent
    <2>3. ToldWhenFinished'
      BY <1>1, OtherEnd DEF Send, TypeOK, ToldWhenFinished, Finished
    <2> QED
      BY <2>1, <2>2, <2>3
  <1>2. ASSUME NEW e \in Ends, Receive(e) PROVE Inv'
    <2> DEFINE m == [end |-> Other(e), index |-> Len(received[e]) + 1]
    <2>0. received[e] \in Seq(Messages) /\ Len(received[e]) \in Nat
      BY DEF TypeOK
    <2>1. m \in Messages /\ received[e] \in Seq(Messages)
      BY <2>0, OtherEnd DEF Messages
    <2>2. /\ received' = [received EXCEPT ![e] = Append(@, m)]
          /\ UNCHANGED <<sent, closed>>
          /\ Len(received[e]) < sent[Other(e)]
      BY <1>2 DEF Receive
    <2> HIDE DEF m
    <2>3. /\ received'[e] = Append(received[e], m)
          /\ Len(received'[e]) = Len(received[e]) + 1
          /\ \A i \in 1 .. Len(received[e]) : received'[e][i] = received[e][i]
          /\ received'[e][Len(received[e]) + 1] = m
          /\ \A f \in Ends \ {e} : received'[f] = received[f]
      BY <2>1, <2>2 DEF TypeOK
    <2>4. TypeOK'
      BY <1>2, <2>1, <2>2 DEF Receive, TypeOK
    <2>5. ReadsWhatWasSent'
      <3> SUFFICES ASSUME NEW f \in Ends
                   PROVE  /\ Len(received'[f]) <= sent[Other(f)]
                          /\ \A i \in 1 .. Len(received'[f]) :
                                received'[f][i] =
                                    [end |-> Other(f), index |-> i]
        BY <2>2 DEF ReadsWhatWasSent
      <3>1. CASE f # e
        BY <3>1, <2>3 DEF ReadsWhatWasSent
      <3>2. CASE f = e
        <4>1. Len(received[e]) \in Nat /\ sent[Other(e)] \in Nat
          BY <2>1, OtherEnd DEF TypeOK
        <4>2. Len(received'[e]) <= sent[Other(e)]
          BY <4>1, <2>2, <2>3
        <4>3. ASSUME NEW i \in 1 .. Len(received'[e])
              PROVE  received'[e][i] = [end |-> Other(e), index |-> i]
          <5>1. CASE i \in 1 .. Len(received[e])
            BY <5>1, <2>3 DEF ReadsWhatWasSent
          <5>2. CASE i = Len(received[e]) + 1
            BY <5>2, <2>3 DEF m
          <5> QED
            BY <5>1, <5>2, <4>1, <2>3
        <4> QED
          BY <4>2, <4>3, <3>2
      <3> QED
        BY <3>1, <3>2
    <2>6. ToldWhenFinished'
      <3> SUFFICES ASSUME NEW f \in told' PROVE f \notin closed' /\ Finished(f)'
        BY DEF ToldWhenFinished
      <3>1. CASE f = e
        BY <3>1, <1>2 DEF Receive
      <3>2. CASE f # e
        <4>1. f \in told
          BY <3>2, <1>2 DEF Receive
        <4> QED
          BY <4>1, <3>2, <2>2, <2>3 DEF ToldWhenFinished, Finished, TypeOK
      <3> QED
        BY <3>1, <3>2
    <2> QED
      BY <2>4, <2>5, <2>6
  <1>3. ASSUME NEW e \in Ends, Tell(e) PROVE Inv'
    BY <1>3 DEF Tell, TypeOK, ReadsWhatWasSent, ToldWhenFinished, Finished
  <1>4. ASSUME NEW some \in SUBSET Ends, Close(some) PROVE Inv'
    BY <1>4 DEF Close, TypeOK, ReadsWhatWasSent, ToldWhenFinished, Finished
  <1>5. CASE UNCHANGED vars
    BY <1>5 DEF vars, TypeOK, ReadsWhatWasSent, ToldWhenFinished, Finished
  <1> QED
    BY <1>1, <1>2, <1>3, <1>4, <1>5 DEF Next

(* A pipe delivers to each end the messages of the other one once and in    *)
(* order, and tells of a closed end only when nothing is left to read       *)
(* (Node::GetMessage).                                                      *)
THEOREM PipesAreReliable ==
    ASSUME PipeCount \in Nat
    PROVE  Spec => [](ReadsWhatWasSent /\ ToldWhenFinished)
  <1>1. Inv => ReadsWhatWasSent /\ ToldWhenFinished
    BY DEF Inv
  <1>2. Init => Inv
    BY InitInv
  <1>3. Inv /\ [Next]_vars => Inv'
    BY NextInv
  <1> QED
    BY <1>1, <1>2, <1>3, PTL DEF Spec

=============================================================================
