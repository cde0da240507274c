---------------------------- MODULE HostServicesMC ----------------------------
(* The services a session uses, one at a time: its recording, and where it is  *)
(* delivered; its scheduled work, with one plan that may outlive several       *)
(* connections or with two plans of which one is not timed; and the broker of  *)
(* the host's resources.                                                       *)
EXTENDS Integers, SequencesExt

CONSTANTS MaxBuffered, PartSize, HoldSize, MaxSeen, MaxHolds,
          Interval, Backoff, ReleaseAfter, Refill,
          Operations, Owner, Nobody, Length, Chunk, Extent, MaxGrants,
          Calls, MaxParts, NoRequest

VARIABLES kind,
          seen, queue, queued, holds, gap, failed, told, drain, counted, file, torn, closer, dest,
          topology, svc, jobs, session, op, reading, history,
          scope, source, sink, flight, buffered, known, grants, reader,
          wire, registered, parts, state, sinks, handles, stuck, shutting, asked, at, result, answer,
          inbox, outbox, pending, closed, disposed, raced

capture == <<seen, queue, queued, holds, gap, failed, told, drain, counted, file, torn, closer, dest>>
polls == <<topology, svc, jobs, session, op, reading, history>>
broker == <<scope, source, sink, flight, buffered, known, grants, reader>>
delivery == <<wire, registered, parts, state, sinks, handles, stuck, shutting, asked, at, result, answer,
              inbox, outbox, pending, closed, disposed, raced>>
vars == <<kind, capture, polls, broker, delivery>>

Cap == INSTANCE CaptureWriter WITH Throws <- BOOLEAN
\* The service is taken with its proofs: they speak of the definitions the run checks.
One == INSTANCE PollServiceProofs WITH queue <- jobs, Ops <- {"o1"},
           Plans <- {"p1"}, Periodic <- {"p1"}, MaxGeneration <- 3, MaxQueue <- 2, Burst <- 1
Two == INSTANCE PollServiceProofs WITH queue <- jobs, Ops <- {"o1"},
           Plans <- {"p1", "p2"}, Periodic <- {"p1"}, MaxGeneration <- 2, MaxQueue <- 1, Burst <- 2
Br == INSTANCE ResourceBroker
Out == INSTANCE CaptureDelivery

ASSUME ServicesAssumption ==
    Cap!CaptureAssumption /\ One!PollAssumption /\ Two!PollAssumption /\ Br!BrokerAssumption

Init ==
    /\ kind \in {"capture", "poll", "polls", "broker", "delivery"}
    /\ Cap!Init
    /\ (kind = "polls" /\ Two!PollInit /\ topology = "periodic") \/ (kind # "polls" /\ One!PollInit)
    /\ kind \notin {"poll", "polls"} => topology = "periodic"
    /\ Br!BrokerInit /\ (kind # "broker" => scope = "session" /\ sink.open)
    /\ Out!DeliveryInit /\ (kind # "delivery" => wire = "direct" /\ registered)

Next ==
    /\ UNCHANGED kind
    /\ \/ kind = "capture" /\ Cap!Next /\ UNCHANGED <<polls, broker, delivery>>
       \/ kind = "poll" /\ One!PollNext /\ UNCHANGED <<capture, broker, delivery>>
       \/ kind = "polls" /\ Two!PollNext /\ UNCHANGED <<capture, broker, delivery>>
       \/ kind = "broker" /\ Br!BrokerNext /\ UNCHANGED <<capture, polls, delivery>>
       \/ kind = "delivery" /\ Out!DeliveryNext /\ UNCHANGED <<capture, polls, broker>>

\* Storage answers, and microtasks run; nothing is asked of the others.
Spec == Init /\ [][Next]_vars /\ WF_capture(Cap!Progress)

-----------------------------------------------------------------------------
\* A recording hides no loss, not while it is written and not when it is committed, and
\* its reservations find their room within a bounded buffer; the loader takes the file
\* wherever its writing stopped, and never for more than it holds (CaptureWriter); and
\* what delivers it to the host's storage mixes up no answers, counts its parts and
\* leaves none of a committed capture open (CaptureDelivery).
RecordingHonest ==
    /\ Cap!LossIsPlaced /\ Cap!CommittedIsHonest /\ Cap!SpaceExact /\ Cap!EveryFileLoads
    /\ Out!AnswersMatch /\ Out!PartsExact /\ Out!CommittedIsClosed

\* close() and abort() of a recording answer (CaptureWriter).
CaptureEnds == Cap!CaptureEnds

\* No scheduled work is forgotten or doubled, except what is forsaken with a release whose
\* last obstruction was an operation of an older connection, and the polls share one bucket
\* that is exact over any pauses (PollService).
NothingForgotten == IF kind = "polls" THEN Two!NothingForgotten /\ Two!BucketExact
                    ELSE One!NothingForgotten /\ One!BucketExact

\* Polls keep the distances they were declared with (PollService).
PollsKeepDistance == [][IF kind = "polls" THEN Two!KeepsDistance ELSE One!KeepsDistance]_polls

\* A grant confines who may use a resource, and how much, and reads survive cancellation
\* without a lost or repeated octet (ResourceBroker).
BrokerExact == Br!DelegationConfined /\ Br!ReadsExact
=============================================================================
