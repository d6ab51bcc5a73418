------------------------------- MODULE Bridge --------------------------------
(***************************************************************************)
(* The ingestion bridge (runner/bridge_ingestion.py): it appends what it   *)
(* polls to a history in memory, replaces the snapshot file the dashboard  *)
(* reads by that history, and then commits its positions.  A bridge that   *)
(* starts with an empty history writes nothing until it has once been at   *)
(* the end of every partition.                                             *)
(*                                                                         *)
(* write_json (runner/store.py) replaces the file in one step, so a kill   *)
(* leaves the old snapshot or the new one.                                 *)
(***************************************************************************)
EXTENDS Topics

CONSTANTS
    PollSize,    \* max_records of a poll (500)
    Limits       \* values of INGESTION_STORE_LIMIT; 0 where it is not set

ASSUME PollAssumption   == PollSize \in Nat \ {0}
ASSUME LimitsAssumption == Limits \subseteq Nat

VARIABLES
    limit,              \* INGESTION_STORE_LIMIT of this deployment
    snapshot,           \* the file: survives the process
    b_committed,        \* offsets of the group ingestion-bridge
    b_pc,               \* where main stands; "down" when it does not run
    b_position,
    history,            \* the deque
    replay_complete,
    polled              \* records of the poll that is being appended

bridge == <<limit, snapshot, b_committed, b_pc, b_position, history, replay_complete, polled>>
bridgeVars == <<end_offset, crashes, limit, snapshot, b_committed, b_pc, b_position, history,
                replay_complete, polled>>

\* deque(..., maxlen=limit): the oldest records leave.
Trim(s) == IF limit = 0 \/ Len(s) <= limit THEN s
           ELSE SubSeq(s, Len(s) - limit + 1, Len(s))

BridgeInit ==
    /\ limit \in Limits
    /\ snapshot = <<>>
    /\ b_committed = NoneRead
    /\ b_pc = "down"
    /\ b_position = NoneRead
    /\ history = <<>>
    /\ replay_complete = FALSE
    /\ polled = 0

\* Mutant: a bridge that starts again has an empty history.
StartEmpty ==
    /\ b_pc = "down"
    /\ b_position' = b_committed
    /\ history' = <<>>
    /\ replay_complete' = (snapshot # <<>>)
    /\ snapshot' = snapshot
    /\ polled' = 0
    /\ b_pc' = "poll"
    /\ UNCHANGED <<limit, b_committed>>
\* main up to its loop: the history of the last life, trimmed and written back.
StartBridge ==
    /\ b_pc = "down"
    /\ b_position' = b_committed
    /\ history' = Trim(snapshot)
    /\ replay_complete' = (snapshot # <<>>)
    /\ snapshot' = Trim(snapshot)
    /\ polled' = 0
    /\ b_pc' = "poll"
    /\ UNCHANGED <<limit, b_committed>>

\* The next record of partition p that the poll returned.
Append1(p) ==
    /\ b_pc = "poll"
    /\ polled < PollSize
    /\ Available(b_position, p)
    /\ b_position' = Advanced(b_position, p)
    /\ history' = Trim(Append(history, <<p, b_position[p] + 1>>))
    /\ polled' = polled + 1
    /\ UNCHANGED <<limit, snapshot, b_committed, b_pc, replay_complete>>

\* After the records of a poll: write at once when the replay is complete.
EndPoll ==
    /\ b_pc = "poll"
    /\ replay_complete /\ polled > 0
    /\ b_pc' = "write"
    /\ UNCHANGED <<limit, snapshot, b_committed, b_position, history, replay_complete, polled>>

\* Mutant: the position is taken for the last record read.
ReadBeyondEnd == \A p \in Partition : b_position[p] > end_offset[p]
replay_caught_up == \A p \in Partition : b_position[p] >= end_offset[p]

\* The first replay is complete once no partition has more.
CompleteReplay ==
    /\ b_pc = "poll"
    /\ ~ replay_complete /\ replay_caught_up
    /\ replay_complete' = TRUE
    /\ b_pc' = "write"
    /\ UNCHANGED <<limit, snapshot, b_committed, b_position, history, polled>>

\* Until then polls follow each other.
PollOn ==
    /\ b_pc = "poll"
    /\ ~ replay_complete /\ ~ replay_caught_up /\ polled > 0
    /\ polled' = 0
    /\ UNCHANGED <<limit, snapshot, b_committed, b_pc, b_position, history, replay_complete>>

\* write_json
WriteSnapshot ==
    /\ b_pc = "write"
    /\ snapshot' = history
    /\ b_pc' = "commit"
    /\ UNCHANGED <<limit, b_committed, b_position, history, replay_complete, polled>>

\* consumer.commit
Commit ==
    /\ b_pc = "commit"
    /\ b_committed' = b_position
    /\ polled' = 0
    /\ b_pc' = "poll"
    /\ UNCHANGED <<limit, snapshot, b_position, history, replay_complete>>

\* The process is killed, or the write or the commit raises.
CrashBridge ==
    /\ b_pc # "down"
    /\ Kill
    /\ b_pc' = "down"
    /\ b_position' = NoneRead
    /\ history' = <<>>
    /\ replay_complete' = FALSE
    /\ polled' = 0
    /\ UNCHANGED <<limit, snapshot, b_committed>>

BridgeLoop == \/ EndPoll \/ CompleteReplay \/ PollOn \/ WriteSnapshot \/ Commit
              \/ \E p \in Partition : Append1(p)
BridgeStep == \/ (StartBridge \/ BridgeLoop) /\ UNCHANGED crashes
              \/ CrashBridge

\* The bridge on topics that anybody may extend, beside a process that may be killed.
BridgeNext ==
    \/ BridgeStep /\ UNCHANGED end_offset
    \/ Kill /\ UNCHANGED <<bridge, end_offset>>
    \/ (\E p \in Partition : Grow(p)) /\ UNCHANGED <<bridge, crashes>>

BridgeSpec == TopicsInit /\ BridgeInit /\ [][BridgeNext]_bridgeVars

-----------------------------------------------------------------------------
(* Properties *)

BridgeTypeOK ==
    /\ end_offset \in [Partition -> Nat]
    /\ crashes \in 0..MaxCrashes
    /\ limit \in Limits
    /\ snapshot \in Seq(Record)
    /\ b_committed \in [Partition -> Nat]
    /\ b_pc \in {"down", "poll", "write", "commit"}
    /\ b_position \in [Partition -> Nat]
    /\ history \in Seq(Record)
    /\ replay_complete \in BOOLEAN
    /\ polled \in 0..PollSize

OnSnapshot(r) == \E i \in 1..Len(snapshot) : snapshot[i] = r
Full(s)       == limit # 0 /\ Len(s) = limit

\* A record whose offset the bridge has committed, and which it will not read
\* again, is on the snapshot, unless later records pushed it over the limit
\* (bridge_ingestion.py:60-61, 86-91): through kills between the poll, the write
\* and the commit, and through a first replay that is cut short.
CommittedOnSnapshot ==
    \A p \in Partition : \A i \in 1..b_committed[p] : OnSnapshot(<<p, i>>) \/ Full(snapshot)
=============================================================================
