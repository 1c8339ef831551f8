------------------------- MODULE ObservationProofs -------------------------
(***************************************************************************)
(* Proof of what a publicly observed generation stands for (module         *)
(* Observation), for any number of authorities, devices and crashes and    *)
(* whatever order P0 handles updates in.                                   *)
(*                                                                         *)
(* The argument has two halves.  While the publisher asks, every question  *)
(* it has had answered was answered by something the authority has served  *)
(* since the row was taken up (Asked).  And a mark is only made while the  *)
(* row still has the generation that was asked about, so that what was     *)
(* asked about is what the row says (BatchOK of PublicationProofs).        *)
(***************************************************************************)
EXTENDS Observation, PublicationProofs

(* The question for a family of an authority. *)
Question(s, family) == 2 * (s - 1) + family

AnsweredBy(s, family) ==
    \E z \in served[s] :
        RRset(z[batch[First].hostname], family) = RRset(batch[First].addresses, family)

Asked ==
    phase \in Observing =>
        /\ \A s \in Servers : view[s] \in served[s]
        /\ \A s \in Servers, family \in {0, 1} :
              Question(s, family) < queries => AnsweredBy(s, family)
        /\ phase = "observed" => queries = 2 * NumServers

ObservationInv == PublicationInv /\ Asked

(* The questions are numbered in the order they are asked. *)
LEMMA QuestionNumbers ==
    ASSUME NEW s \in Servers, NEW family \in {0, 1}
    PROVE  /\ Question(s, family) \in 0 .. 2 * NumServers - 1
           /\ Question(s, family) \div 2 + 1 = s
           /\ Question(s, family) % 2 = family
  BY PublicationAssumption DEF Servers, Question

(* Nothing is served from before the row was taken up. *)
LEMMA ServedKept ==
    ASSUME Serve, phase' \in Observing, NEW s \in Servers
    PROVE  /\ view'[s] \in served'[s]
           /\ batch' = batch => \A z \in served[s] : z \in served'[s]
  BY DEF Serve

(* A step after which the publisher is asking starts a row, asks the next   *)
(* question, or leaves the questions alone.                                 *)
LEMMA WhileObserving ==
    ASSUME PublicationInv, [Next]_vars, phase' \in Observing
    PROVE  \/ queries' = 0 /\ phase' = "observe"
           \/ QueryAgrees
           \/ phase' = phase /\ batch' = batch /\ queries' = queries
  <1>. USE DEF Observing
  <1>1. CASE PublisherStep
    BY <1>1 DEF PublisherStep, StartPass, ListOrigin, StartObservation, Publish, RecordApplied,
                RecordFailure, EndPublish, ListObservation, RecordObserved, EndPass, QueryFails
  <1>2. CASE GiveUp \/ Crash
    BY <1>2 DEF GiveUp, Crash
  <1>3. ASSUME NEW i \in Handled, ApplyUpdate(i) \/ RefuseUpdate(i)
        PROVE  phase' = phase /\ batch' = batch /\ queries' = queries
    BY <1>3 DEF ApplyUpdate, RefuseUpdate
  <1>4. CASE \E s \in Servers : StartTransfer(s) \/ FinishTransfer(s)
    BY <1>4 DEF StartTransfer, FinishTransfer, publisherVars
  <1>5. CASE (\E d \in Devices : Register(d)) \/ ControllerExpiry \/ Clock
    BY <1>5 DEF Register, ControllerExpiry, Clock, publisherVars
  <1>6. CASE UNCHANGED vars
    BY <1>6 DEF vars
  <1>. QED
    BY <1>1, <1>2, <1>3, <1>4, <1>5, <1>6 DEF Next

(* An answer stays good while the row is at hand. *)
LEMMA AnswerStays ==
    ASSUME Serve, phase' \in Observing, batch' = batch,
           NEW s \in Servers, NEW family \in {0, 1}, AnsweredBy(s, family)
    PROVE  AnsweredBy(s, family)'
  <1>1. First' = First
    BY DEF First
  <1>. QED
    BY <1>1, ServedKept DEF AnsweredBy, RRset

(* Every step keeps what is known of the answers. *)
LEMMA AskedStep ==
    ASSUME ObservationInv, [ObservationNext]_observationVars
    PROVE  Asked'
  <1>1. CASE UNCHANGED observationVars
    <2>1. UNCHANGED <<phase, batch, queries, view, served>>
      BY <1>1 DEF observationVars, vars
    <2>2. First' = First
      BY <2>1 DEF First
    <2>3. \A s \in Servers, family \in {0, 1} : AnsweredBy(s, family) => AnsweredBy(s, family)'
      BY <2>1, <2>2 DEF AnsweredBy, RRset
    <2>. QED
      BY <2>1, <2>3 DEF ObservationInv, Asked
  <1>2. CASE ObservationNext
    <2>. SUFFICES ASSUME phase' \in Observing
                  PROVE  /\ \A s \in Servers, family \in {0, 1} :
                               Question(s, family) < queries' => AnsweredBy(s, family)'
                         /\ phase' = "observed" => queries' = 2 * NumServers
      BY <1>2, ServedKept DEF Asked, ObservationNext
    <2>1. Serve /\ [Next]_vars /\ PublicationInv
      BY <1>2 DEF ObservationNext, ObservationInv
    <2>2. \A s \in Servers, family \in {0, 1} : Question(s, family) \in Nat
      BY QuestionNumbers
    <2>3. CASE queries' = 0 /\ phase' = "observe"
      BY <2>2, <2>3
    <2>4. CASE phase' = phase /\ batch' = batch /\ queries' = queries
      BY <2>1, <2>4, AnswerStays DEF ObservationInv, Asked
    <2>5. CASE QueryAgrees
      <3>1. /\ phase = "observe" /\ batch' = batch /\ view' = view
            /\ queries' = queries + 1
            /\ phase' = "observed" => queries' = 2 * NumServers
            /\ Answers(queries, batch[First])
            /\ queries \in Nat
        BY <2>1, <2>5, PublicationAssumption
           DEF QueryAgrees, dnsVars, PublicationInv, PublisherTyped
      <3>2. ASSUME NEW s \in Servers, NEW family \in {0, 1}, Question(s, family) < queries'
            PROVE  AnsweredBy(s, family)'
        <4>1. CASE Question(s, family) < queries
          BY <2>1, <3>1, <4>1, AnswerStays DEF ObservationInv, Asked, Observing
        <4>2. CASE Question(s, family) = queries
          <5>1. queries \div 2 + 1 = s /\ queries % 2 = family
            BY <4>2, QuestionNumbers
          <5>2. RRset(view[s][batch[First].hostname], family)
                  = RRset(batch[First].addresses, family)
            <6>1. RRset(view[s][batch[First].hostname], queries)
                    = RRset(batch[First].addresses, queries)
              BY <3>1, <5>1 DEF Answers
            <6>2. family % 2 = family
              BY SMT
            <6>. QED
              BY <5>1, <6>1, <6>2 DEF RRset
          <5>3. view[s] \in served'[s] /\ First' = First
            BY <2>1, <3>1, ServedKept DEF First
          <5>. QED
            BY <3>1, <5>2, <5>3 DEF AnsweredBy, RRset
        <4>. QED
          BY <2>2, <3>1, <3>2, <4>1, <4>2
      <3>. QED
        BY <3>1, <3>2
    <2>. QED
      BY <2>1, <2>3, <2>4, <2>5, WhileObserving
  <1>. QED
    BY <1>1, <1>2

(* A row is marked as observed by nothing but MarkPubliclyObserved, at the  *)
(* end of its questions and only at the generation asked about.             *)
LEMMA MarkedObserved ==
    ASSUME PublicationInv, [Next]_vars, NEW d \in Devices,
           intents'[d].public # intents[d].public
    PROVE  /\ phase = "observed" /\ d = First
           /\ batch[d].hostname = intents[d].hostname
           /\ batch[d].addresses = intents[d].addresses
  <1>1. intents \in [Devices -> Intent] /\ now \in Times
    BY IntentsAssumption DEF PublicationInv, NamesInv, TableInv, IntentsTypeOK, Times
  <1>2. ~ControllerNext
    BY ControllerRow DEF PublicationInv, Quietly
  <1>3. ~((\E e \in Devices : Register(e)) \/ ControllerExpiry \/ Clock \/ StartPass)
    BY <1>1, <1>2
       DEF Register, ControllerExpiry, Clock, Tick, StartPass, ControllerNext
  <1>4. ~ServerNext /\ ~UNCHANGED vars
    BY <1>2, TableAlone DEF ControllerNext, vars
  <1>5. ~RecordApplied /\ ~RecordFailure
    <2>1. CASE RecordApplied
      <3>1. First \in Devices
        BY <2>1, MarksExpected DEF RecordApplied
      <3>. QED
        BY <1>1, <1>2, <2>1, <3>1
           DEF RecordApplied, MarkOriginApplied, ControllerNext, Intent
    <2>2. CASE RecordFailure
      <3>1. First \in Devices
        BY <2>2, MarksExpected DEF RecordFailure
      <3>. QED
        BY <1>1, <1>2, <2>2, <3>1
           DEF RecordFailure, MarkPublicationError, ControllerNext, Intent
    <2>. QED
      BY <2>1, <2>2
  <1>6. RecordObserved
    BY <1>3, <1>4, <1>5 DEF Next, PublisherStep, ServerNext
  <1>7. phase = "observed" /\ MarkPubliclyObserved(First, batch[First].generation)
    BY <1>2, <1>6 DEF RecordObserved, ControllerNext
  <1>8. First \in Devices /\ BatchOK(First)
    BY <1>7, MarksExpected
  <1>9. d = First /\ intents[First].generation = batch[First].generation
    BY <1>1, <1>7, <1>8 DEF MarkPubliclyObserved
  <1>. QED
    BY <1>7, <1>8, <1>9 DEF BatchOK

(* A generation is only called publicly observed when every authority has   *)
(* answered for both address families as the row says, since the publisher  *)
(* took the row up (ObserveAddressRRsets, MarkPubliclyObserved).            *)
THEOREM ObservedByAll == ObservationSpec => ObservedEverywhere
  <1>1. ObservationInit => ObservationInv
    BY PublicationInitInv DEF ObservationInit, ObservationInv, Asked, Init, Observing
  <1>2. ObservationInv /\ [ObservationNext]_observationVars => ObservationInv'
    <2>. SUFFICES ASSUME ObservationInv, [ObservationNext]_observationVars
                  PROVE  ObservationInv'
      OBVIOUS
    <2>1. [Next]_vars
      BY DEF ObservationNext, observationVars
    <2>. QED
      BY <2>1, PublicationStep, AskedStep DEF ObservationInv
  <1>3. ASSUME ObservationInv, [ObservationNext]_observationVars,
               NEW d \in Devices, intents'[d].public # intents[d].public,
               NEW s \in Servers, NEW family \in {0, 1}
        PROVE  \E z \in served[s] :
                  RRset(z[intents[d].hostname], family) = RRset(intents[d].addresses, family)
    <2>1. [Next]_vars /\ PublicationInv
      BY <1>3 DEF ObservationNext, observationVars, ObservationInv
    <2>2. /\ phase = "observed" /\ d = First
          /\ batch[First].hostname = intents[d].hostname
          /\ batch[First].addresses = intents[d].addresses
      BY <1>3, <2>1, MarkedObserved
    <2>3. Question(s, family) < queries
      BY <1>3, <2>2, QuestionNumbers, PublicationAssumption DEF ObservationInv, Asked, Observing
    <2>4. AnsweredBy(s, family)
      BY <1>3, <2>2, <2>3 DEF ObservationInv, Asked, Observing
    <2>. QED
      BY <2>2, <2>4 DEF AnsweredBy
  <1>4. ObservationInv /\ [ObservationNext]_observationVars =>
          [\A d \in Devices : intents'[d].public # intents[d].public =>
             \A s \in Servers, family \in {0, 1} : \E z \in served[s] :
               RRset(z[intents[d].hostname], family) = RRset(intents[d].addresses, family)
          ]_observationVars
    BY <1>3
  <1>. QED
    BY <1>1, <1>2, <1>4, PTL DEF ObservationSpec, ObservedEverywhere
============================================================================
