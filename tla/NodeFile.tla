------------------------------- MODULE NodeFile -------------------------------
(***************************************************************************)
(* The node file (mmr/node_store.go): a flat file of 32-byte records that  *)
(* a host keeps so that its tree survives a restart.  The host indexes a   *)
(* log it has elsewhere, leaf by leaf; every leaf is one or more records,  *)
(* each written and fsynced by itself.  Errors leave the store open;       *)
(* processes die and power fails between and inside writes.                *)
(***************************************************************************)
EXTENDS MMR

CONSTANTS
  Logs,        \* the logs hosts with a node file index; << >> for no file
  MaxFailures  \* bound: failed writes and fsyncs, deaths and power failures

ASSUME FileAssumption ==
  << >> \in Logs /\ Logs \subseteq Seq(Value) /\ MaxFailures \in Nat

VARIABLES
  log,        \* the log to index
  file,       \* whole records, and whether part of another one follows
  disk,       \* the contents a power failure may reveal
  open,       \* whether a process has the store open
  nodeCount,  \* FileNodeStore.nodeCount
  target,     \* the nodes once the leaf being added is complete, or << >>
  rebuild,    \* leaves Rebuild still has to reach, 0 when it does not run
  failures,   \* faults so far
  kept        \* history: records whose Append returned, since the file exists

fileVars == <<file, disk, open, nodeCount, target, rebuild, failures, kept>>
allVars == <<vars, log, fileVars>>

Image(records) == [records |-> records, torn |-> FALSE]
Torn(records) == [records |-> records, torn |-> TRUE]

(* Part of a record over another one, of which the rest stays.             *)
mixedHash == <<"mixed">>

Whole == SubSeq(file.records, 1, nodeCount)

FileInit ==
  /\ Init
  /\ log \in Logs
  /\ file = Image(<< >>) /\ disk = {file}
  /\ open = FALSE /\ nodeCount = 0 /\ target = << >> /\ rebuild = 0
  /\ failures = 0 /\ kept = 0

(* A host that keeps no file has its tree in memory.                       *)
InMemory ==
  /\ log = << >>
  /\ Next
  /\ UNCHANGED <<log, fileVars>>

-----------------------------------------------------------------------------
(* What the record at nodeCount may leave in the file before its fsync.    *)
Partial ==
  LET node == target[nodeCount + 1]
      over == Len(file.records) > nodeCount /\ file.records[nodeCount + 1] # node
  IN  {file, Image(Append(Whole, node)),
       IF over THEN Image(Append(Whole, mixedHash)) ELSE Torn(Whole)}

Closed == open' = FALSE /\ nodeCount' = 0 /\ target' = << >> /\ rebuild' = 0

(* OpenFileNodeStore truncates a torn tail and fsyncs; NewFromNodeStore    *)
(* makes a tree of the records, and the host goes on from its leaves.  If  *)
(* New refuses them the host closes the store again.                       *)
OpenFileNodeStore ==
  /\ log # << >> /\ ~open
  /\ file' = Image(file.records)
  /\ disk' = IF file.torn THEN {file'} ELSE disk
  /\ IF New(file.records)
     THEN /\ open' = TRUE /\ nodeCount' = Len(file.records)
          /\ nodes' = file.records
          /\ leaves' = SubSeq(log, 1, LeafCount(Len(file.records)))
     ELSE UNCHANGED <<open, nodeCount, vars>>
  /\ UNCHANGED <<log, target, rebuild, failures, kept>>

(* The truncation or the fsync after it fails, and with it the open.       *)
OpenFails ==
  /\ log # << >> /\ ~open /\ file.torn /\ failures < MaxFailures
  /\ file' \in {file, Image(file.records)}
  /\ disk' = disk \cup {file'}
  /\ failures' = failures + 1
  /\ UNCHANGED <<vars, log, open, nodeCount, target, rebuild, kept>>

Close ==
  /\ open /\ target = << >> /\ rebuild = 0
  /\ Closed
  /\ UNCHANGED <<vars, log, file, disk, failures, kept>>

(* RebuildFileNodeStoreFromLeaves: a new file, then every leaf again.  The *)
(* directory is not fsynced: that the name outlives a crash once a record  *)
(* of the file is fsynced is assumed of the file system.                   *)
Rebuild ==
  /\ log # << >> /\ ~open
  /\ leaves' = << >> /\ nodes' = << >>
  /\ file' = Image(<< >>) /\ disk' = disk \cup {file'}
  /\ open' = TRUE /\ nodeCount' = 0 /\ rebuild' = Len(log) /\ kept' = 0
  /\ UNCHANGED <<log, target, failures>>

(* AddHashedLeaf on the store begins: the next leaf of the log.            *)
StartLeaf ==
  /\ open /\ target = << >> /\ Len(leaves) < Len(log)
  /\ target' = AddHashedLeaf(Whole, leafHash(log[Len(leaves) + 1]))
  /\ UNCHANGED <<vars, log, file, disk, open, nodeCount, rebuild, failures, kept>>

(* The last record of the leaf was appended: AddHashedLeaf returns, and    *)
(* the host appends the leaf to its tree.                                  *)
LeafDone ==
  LET v == log[Len(leaves) + 1]
  IN  /\ leaves' = Append(leaves, v)
      /\ nodes' = AddHashedLeaf(nodes, leafHash(v))
      /\ target' = << >>
      /\ rebuild' = IF rebuild = Len(leaves) + 1 THEN 0 ELSE rebuild

(* Fault: Append returns without an fsync.                                 *)
AppendNodeUnsynced ==
  /\ target # << >>
  /\ file' = Image(Append(Whole, target[nodeCount + 1]))
  /\ disk' = disk \cup Partial
  /\ nodeCount' = nodeCount + 1 /\ kept' = nodeCount + 1
  /\ IF nodeCount + 1 = Len(target) THEN LeafDone
                                    ELSE UNCHANGED <<vars, target, rebuild>>
  /\ UNCHANGED <<log, open, failures>>

(* Append: WriteAt the end, fsync, count the node.                         *)
AppendNode ==
  /\ target # << >>
  /\ file' = Image(Append(Whole, target[nodeCount + 1]))
  /\ disk' = {file'}
  /\ nodeCount' = nodeCount + 1 /\ kept' = nodeCount + 1
  /\ IF nodeCount + 1 = Len(target) THEN LeafDone
                                    ELSE UNCHANGED <<vars, target, rebuild>>
  /\ UNCHANGED <<log, open, failures>>

(* The write or the fsync fails: the node is not counted, AddHashedLeaf    *)
(* returns the error and Rebuild closes the store.                         *)
AppendFails ==
  /\ target # << >> /\ failures < MaxFailures
  /\ file' \in Partial
  /\ disk' = disk \cup Partial
  /\ failures' = failures + 1
  /\ IF rebuild # 0 THEN Closed
     ELSE target' = << >> /\ UNCHANGED <<open, nodeCount, rebuild>>
  /\ UNCHANGED <<vars, log, kept>>

(* The process dies, possibly inside a write.                              *)
Kill ==
  /\ open /\ failures < MaxFailures
  /\ IF target = << >> THEN UNCHANGED <<file, disk>>
     ELSE file' \in Partial /\ disk' = disk \cup Partial
  /\ Closed
  /\ failures' = failures + 1
  /\ UNCHANGED <<vars, log, kept>>

(* The power fails, possibly inside a write.                               *)
PowerLoss ==
  /\ log # << >> /\ failures < MaxFailures
  /\ file' \in disk \cup (IF target = << >> THEN {} ELSE Partial)
  /\ disk' = {file'}
  /\ Closed
  /\ failures' = failures + 1
  /\ UNCHANGED <<vars, log, kept>>

FileNext ==
  \/ InMemory \/ OpenFileNodeStore \/ OpenFails \/ Close \/ Rebuild
  \/ StartLeaf \/ AppendNode \/ AppendFails \/ Kill \/ PowerLoss

FileSpec == FileInit /\ [][FileNext]_allVars

-----------------------------------------------------------------------------
(* Whatever was written, failed, retried or cut short, and whenever power  *)
(* fails: records that make a tree at all (New) make the tree over the     *)
(* log's first leaves, never another one.  A crash inside a leaf leaves    *)
(* records New refuses.                                                    *)
ImagesRestoreExactly ==
  \A d \in disk \cup {file} :
    New(d.records) =>
      d.records = Build(SubSeq(log, 1, LeafCount(Len(d.records))))

(* A record whose Append has returned is whole in every image a crash can  *)
(* leave, also after later writes to the same file have failed.            *)
AppendedNodesSurvive ==
  \A d \in disk \cup {file} :
    /\ Len(d.records) >= kept
    /\ SubSeq(d.records, 1, kept) = SubSeq(file.records, 1, kept)
=============================================================================
