------------------------------ MODULE MCHLSWriter ------------------------------
(* The HLS writer, the manager its goroutine runs under, and a muxer that its  *)
(* requests wait in: each in behaviours of its own.                            *)
EXTENDS HLSWriter, Lifecycle

CONSTANTS Options, SegDuration, FragDuration, MaxTS, PktDurations, Readers, Parts,
          MaxPkts, MaxUpdates

VARIABLES role,
          opt, segs, segIDs, mediaSequence, discontinuitySequence, initVersion, initCache,
          gateOpen, capSplitSeen, ts, dirty, manifest, broadcasts, closed, wpc, job, rpc, rq,
          pkts, updates

M == INSTANCE HLSMuxer

muxerVars == <<opt, segs, segIDs, mediaSequence, discontinuitySequence, initVersion, initCache,
               gateOpen, capSplitSeen, ts, dirty, manifest, broadcasts, closed, wpc, job,
               rpc, rq, pkts, updates>>
MCVars == <<role, hlsVars, vars, muxerVars>>

\* Two resolutions, and parameters no muxer can be made of.
MCPars == {[id |-> 1, res |-> 1, ok |-> TRUE], [id |-> 2, res |-> 2, ok |-> TRUE],
           [id |-> 3, res |-> 1, ok |-> FALSE]}
ByTime     == [keyframeSplit |-> FALSE, cap |-> 0, keep |-> 0, count |-> 1]
ByKeyframe == [keyframeSplit |-> TRUE,  cap |-> 0, keep |-> 2, count |-> 1]
Capped     == [keyframeSplit |-> TRUE,  cap |-> 3, keep |-> 3, count |-> 1]
AllOptions == {ByTime, ByKeyframe, Capped}
SomeParts  == {-1, 1}

\* What the two other parts have still to choose does not matter.
MCInit ==
    /\ WriterInit /\ Init /\ M!Init
    /\ role \in {"writer", "manager", "muxer"}
    /\ role # "manager" => kind = CHOOSE k \in Kinds : TRUE
    /\ role # "muxer" => opt = ByTime

Writer(A)  == role = "writer"  /\ A /\ UNCHANGED <<role, vars, muxerVars>>
Manager(A) == role = "manager" /\ A /\ UNCHANGED <<role, hlsVars, muxerVars>>
Muxer(A)   == role = "muxer"   /\ A /\ UNCHANGED <<role, hlsVars, vars>>

MCNext == Writer(WriterNext) \/ Manager(Next) \/ Muxer(M!Next)

\* The fairness of WriterSpec and of the FairSpecs of Lifecycle and HLSMuxer.
MCSpec ==
    /\ MCInit /\ [][MCNext]_MCVars
    /\ WF_MCVars(Writer(RecalcManifest)) /\ WF_MCVars(Writer(ReleaseLock))
    /\ WF_MCVars(Manager(Process)) /\ SF_MCVars(Manager(StepBreak))
    /\ \A c \in Callers : WF_MCVars(Manager(Start(c))) /\ WF_MCVars(Manager(Close(c)))
    /\ \A r \in Readers : WF_MCVars(Muxer(M!IndexTimeout(r)))

\* IndexReturns of HLSMuxer: GetIndexM3u8 ends even when no packet comes any more.
IndexReturns == M!IndexReturns
===============================================================================
