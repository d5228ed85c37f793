--------------------------- MODULE WalletSyncProofs ---------------------------
(***************************************************************************)
(* Proofs about WalletSync: what the wallet file keeps while no two        *)
(* writers of it get between each other's read and write, for every number *)
(* of processes, keys, payments and coins, and any bounds.                 *)
(***************************************************************************)
EXTENDS WalletSync, TLAPS, SequenceTheorems, Induction

Fields == {"cmd", "pc", "for", "awaited", "base", "key", "from", "seen", "top", "rescan"}

\* A process that is about to write has drawn a key, or has read a whole file.
Ready(l) ==
  \/ l.cmd = "create" /\ l.base \in {None, Torn} /\ l.key \in Key
  \/ /\ l.cmd \in {"address", "fast", "reset", "balance", "send"}
     /\ l.base \in WalletState
     /\ l.cmd = "address" => l.base.index < MaxIndex

LocalOK(l) ==
  /\ l = [x \in Fields |-> l[x]]
  /\ l.top \in 0 .. MaxHeight
  /\ l.pc = "load" => l.cmd \in Command
  /\ l.pc \in {"blocks", "mempool"} => l.cmd \in {"balance", "send"}
  /\ l.pc = "reload" => l.cmd \in {"balance", "send", "fast"}
  /\ l.rescan # "no" => l.cmd = "send"
  /\ l.pc \in {"truncate", "write"} => Ready(l)

LocalInv ==
  /\ local = [d \in Process |-> local[d]]
  /\ \A d \in Process : LocalOK(local[d])

FileInv ==
  /\ file \in {None, Torn} \union WalletState
  /\ tip \in 0 .. MaxHeight
  /\ told \subseteq Key \X (0 .. MaxIndex)

\* While all is calm: one process writes, into an empty file, what continues the
\* file that it emptied, and every address told is of the file.
Continued(f) == \A a \in told : a[1] = f.key /\ a[2] =< f.index

CalmInv ==
  calm =>
    /\ file \in WalletState => Continued(file)
    /\ file = None => told = {}
    /\ \A d \in Process : local[d].pc = "write" =>
         /\ file = Torn
         /\ Continued(Draft(d))
         /\ local[d].cmd = "address" => \A a \in told : a[2] < Draft(d).index
         /\ \A e \in Process : local[e].pc = "write" => e = d

WalletInv == LocalInv /\ FileInv /\ CalmInv
-----------------------------------------------------------------------------
LEMMA WholeFile == FileInv => (Whole(file) <=> file \in WalletState)
  BY FileAssumption DEF FileInv, Whole

LEMMA DraftTyped ==
  ASSUME NEW d, LocalOK(local[d]), local[d].pc \in {"truncate", "write"}
  PROVE  Draft(d) \in WalletState
<1>1. Ready(local[d]) /\ local[d].top \in 0 .. MaxHeight
  BY DEF LocalOK
<1>2. CASE local[d].cmd = "create"
  BY <1>1, <1>2, BoundAssumption DEF Draft, WalletState, Ready
<1>3. CASE local[d].cmd = "address"
  <2>1. local[d].base \in WalletState /\ local[d].base.index < MaxIndex
    BY <1>1, <1>3 DEF Ready
  <2> QED
    BY <2>1, <1>3, BoundAssumption DEF Draft, WalletState
<1>4. CASE local[d].cmd \in {"fast", "reset", "balance", "send"}
  <2>1. local[d].base \in WalletState
    BY <1>1, <1>4 DEF Ready
  <2> QED
    BY <2>1, <1>1, <1>4, BoundAssumption DEF Draft, WalletState
<1> QED
  BY <1>1, <1>2, <1>3, <1>4 DEF Ready

\* Steps that neither write the file nor tell an address.
LEMMA CalmKept ==
  ASSUME CalmInv, UNCHANGED <<file, told, calm>>,
         \A d \in Process : local'[d].pc = "write" =>
           /\ local[d].pc = "write"
           /\ \A x \in {"cmd", "base", "key", "top", "rescan"} : local'[d][x] = local[d][x]
  PROVE  CalmInv'
<1>1. ASSUME NEW d \in Process, local'[d].pc = "write"
      PROVE  local[d].pc = "write" /\ Draft(d)' = Draft(d) /\ local'[d].cmd = local[d].cmd
  BY <1>1 DEF Draft
<1> QED
  BY <1>1 DEF CalmInv, Continued

\* A process moves on, and the others stay where they are.
LEMMA OneMoves ==
  ASSUME LocalInv, NEW d \in Process, NEW l, LocalOK(l), local' = [local EXCEPT ![d] = l]
  PROVE  LocalInv' /\ local'[d] = l /\ \A e \in Process : e # d => local'[e] = local[e]
  BY DEF LocalInv

LEMMA IdleOK == LocalOK(Idle)
<1>1. DOMAIN Idle = Fields
  BY DEF Idle, Fields
<1>2. Idle = [x \in Fields |-> Idle[x]]
  BY <1>1 DEF Idle
<1>3. Idle.top = 0 /\ Idle.pc = "idle" /\ Idle.rescan = "no"
  BY DEF Idle
<1> QED
  BY <1>2, <1>3, BoundAssumption DEF LocalOK

\* A process takes up a command.
LEMMA BeginOK ==
  ASSUME NEW cmd \in Command, NEW p, NEW awaited
  PROVE  /\ LocalOK([Idle EXCEPT !.cmd = cmd, !.pc = "load"])
         /\ LocalOK([Idle EXCEPT !.cmd = cmd, !.pc = "load", !.for = p, !.awaited = awaited])
  BY IdleOK DEF LocalOK, Fields, Idle

\* What the processes hold after a step that is not one of the two writing steps.
LEMMA OthersKept ==
  ASSUME WalletInv, NEW d \in Process, NEW l, LocalOK(l), local' = [local EXCEPT ![d] = l],
         l.pc = "write" =>
           /\ local[d].pc = "write"
           /\ \A x \in {"cmd", "base", "key", "top", "rescan"} : l[x] = local[d][x],
         UNCHANGED <<file, tip, told, calm>>
  PROVE  WalletInv'
<1>1. LocalInv' /\ local'[d] = l /\ \A e \in Process : e # d => local'[e] = local[e]
  BY OneMoves DEF WalletInv
<1>2. FileInv'
  BY DEF WalletInv, FileInv
<1>3. CalmInv'
  BY <1>1, CalmKept DEF WalletInv
<1> QED
  BY <1>1, <1>2, <1>3 DEF WalletInv

LEMMA FinishKeeps ==
  ASSUME WalletInv, NEW d \in Process, local' = [local EXCEPT ![d] = Idle],
         UNCHANGED <<file, tip, told, calm>>
  PROVE  WalletInv'
  BY IdleOK, OthersKept DEF Idle

LEMMA BeginKeeps ==
  ASSUME WalletInv, NEW d \in Process
  PROVE  /\ \A cmd \in Command : Begin(d, cmd) => WalletInv'
         /\ \A p \in Payment : BeginSend(d, p) => WalletInv'
<1>1. ASSUME NEW cmd \in Command, Begin(d, cmd) PROVE WalletInv'
  <2> DEFINE l == [Idle EXCEPT !.cmd = cmd, !.pc = "load"]
  <2>1. LocalOK(l) /\ l.pc = "load"
    BY BeginOK DEF Idle
  <2>2. local' = [local EXCEPT ![d] = l] /\ UNCHANGED <<file, tip, told, calm>>
    BY <1>1 DEF Begin
  <2> HIDE DEF l
  <2> QED
    BY <2>1, <2>2, OthersKept
<1>2. ASSUME NEW p \in Payment, BeginSend(d, p) PROVE WalletInv'
  <2> DEFINE l == [Idle EXCEPT !.cmd = "send", !.pc = "load", !.for = p, !.awaited = TRUE]
  <2>1. LocalOK(l) /\ l.pc = "load"
    BY BeginOK DEF Idle, Command
  <2>2. local' = [local EXCEPT ![d] = l] /\ UNCHANGED <<file, tip, told, calm>>
    BY <1>2 DEF BeginSend
  <2> HIDE DEF l
  <2> QED
    BY <2>1, <2>2, OthersKept
<1> QED
  BY <1>1, <1>2

\* create-wallet tells the address of the file, or draws a key.
LEMMA LoadCreateKeeps ==
  ASSUME WalletInv, NEW d \in Process, LoadCreate(d)
  PROVE  WalletInv'
<1>1. CASE Exists
  <2>1. /\ file \in WalletState /\ told' = told \union {<<file.key, file.index>>}
        /\ local' = [local EXCEPT ![d] = Idle]
        /\ UNCHANGED <<file, tip, calm>>
    BY <1>1, WholeFile DEF LoadCreate, Exists, WalletInv
  <2>2. /\ LocalInv' /\ local'[d] = Idle
        /\ \A e \in Process : e # d => local'[e] = local[e]
    BY <2>1, IdleOK, OneMoves DEF WalletInv
  <2>3. FileInv'
    BY <2>1 DEF WalletInv, FileInv, WalletState
  <2>4. CalmInv'
    <3> SUFFICES ASSUME calm PROVE CalmInv'
      BY <2>1 DEF CalmInv
    <3>1. file \notin {None, Torn}
      BY <2>1, FileAssumption
    <3>2. \A e \in Process : local'[e].pc # "write"
      BY <2>2, <3>1 DEF WalletInv, CalmInv, Idle
    <3>3. file.index \in Nat
      BY <2>1, BoundAssumption DEF WalletState
    <3>4. Continued(file)'
      BY <2>1, <3>3 DEF WalletInv, CalmInv, Continued
    <3> QED
      BY <2>1, <3>1, <3>2, <3>4 DEF CalmInv
  <2> QED
    BY <2>2, <2>3, <2>4 DEF WalletInv
<1>2. CASE ~ Exists
  <2>1. PICK k \in Key : local' = [local EXCEPT ![d].pc = "truncate", ![d].base = file,
                                                ![d].key = k]
    BY <1>2 DEF LoadCreate
  <2>2. /\ file \in {None, Torn} /\ local[d].cmd = "create"
        /\ UNCHANGED <<file, tip, told, calm>>
    BY <1>2 DEF LoadCreate, Exists, Whole
  <2> DEFINE l == [local[d] EXCEPT !.pc = "truncate", !.base = file, !.key = k]
  <2>3. LocalOK(local[d])
    BY DEF WalletInv, LocalInv
  <2>4. /\ l = [x \in Fields |-> l[x]] /\ l.pc = "truncate" /\ l.base = file /\ l.key = k
        /\ l.cmd = "create" /\ l.top = local[d].top /\ l.rescan = local[d].rescan
    BY <2>2, <2>3 DEF LocalOK, Fields
  <2>5. local' = [local EXCEPT ![d] = l]
    BY <2>1 DEF WalletInv, LocalInv
  <2> HIDE DEF l
  <2>6. LocalOK(l)
    BY <2>2, <2>3, <2>4 DEF LocalOK, Ready
  <2> QED
    BY <2>2, <2>4, <2>5, <2>6, OthersKept
<1> QED
  BY <1>1, <1>2

LEMMA LoadKeeps ==
  ASSUME WalletInv, NEW d \in Process, Load(d)
  PROVE  WalletInv'
<1>1. CASE Whole(file)
  <2> DEFINE l == [local[d] EXCEPT !.pc = AfterLoad(local[d].cmd), !.base = file,
                                   !.key = file.key, !.from = file.checkpoint]
  <2>1. /\ local[d].cmd # "create" /\ local[d].pc = "load" /\ file \in WalletState
        /\ local[d].cmd = "address" => file.index < MaxIndex
        /\ local' = [local EXCEPT ![d].pc = AfterLoad(local[d].cmd), ![d].base = file,
                                  ![d].key = file.key, ![d].from = file.checkpoint]
        /\ UNCHANGED <<file, tip, told, calm>>
    BY <1>1, WholeFile DEF Load, WalletInv
  <2>2. LocalOK(local[d])
    BY DEF WalletInv, LocalInv
  <2>3. /\ l = [x \in Fields |-> l[x]] /\ l.pc = AfterLoad(local[d].cmd) /\ l.base = file
        /\ l.cmd = local[d].cmd /\ l.top = local[d].top /\ l.rescan = local[d].rescan
    BY <2>2 DEF LocalOK, Fields
  <2>4. local' = [local EXCEPT ![d] = l]
    BY <2>1 DEF WalletInv, LocalInv
  <2> HIDE DEF l
  <2>5. l.cmd \in Command \ {"create"}
    BY <2>1, <2>2, <2>3 DEF LocalOK
  <2>6. /\ l.cmd \in {"balance", "send"} => l.pc = "blocks"
        /\ l.cmd = "fast" => l.pc = "reload"
        /\ l.cmd \in {"address", "reset"} => l.pc = "truncate"
    BY <2>3, <2>5 DEF AfterLoad, Command
  <2>7. LocalOK(l) /\ l.pc # "write"
    BY <2>1, <2>2, <2>3, <2>5, <2>6 DEF LocalOK, Ready, Command
  <2> QED
    BY <2>1, <2>4, <2>7, OthersKept
<1>2. CASE ~ Whole(file)
  BY <1>2, FinishKeeps DEF Load, Finish
<1> QED
  BY <1>1, <1>2

LEMMA SyncKeeps ==
  ASSUME WalletInv, NEW d \in Process, SyncBlocks(d) \/ SyncMempool(d)
  PROVE  WalletInv'
<1>1. LocalOK(local[d]) /\ tip \in 0 .. MaxHeight
  BY DEF WalletInv, LocalInv, FileInv
<1>2. CASE SyncBlocks(d)
  <2> DEFINE pc == IF local[d].cmd = "send" THEN "mempool" ELSE "reload"
  <2>1. PICK seen : local' = [local EXCEPT ![d].pc = pc, ![d].seen = seen, ![d].top = tip,
                                           ![d].from = 0]
    BY <1>2 DEF SyncBlocks
  <2> DEFINE l == [local[d] EXCEPT !.pc = pc, !.seen = seen, !.top = tip, !.from = 0]
  <2>2. /\ l = [x \in Fields |-> l[x]] /\ l.pc = pc /\ l.top = tip
        /\ l.cmd = local[d].cmd /\ l.rescan = local[d].rescan
    BY <1>1 DEF LocalOK, Fields
  <2>3. local' = [local EXCEPT ![d] = l]
    BY <2>1 DEF WalletInv, LocalInv
  <2> HIDE DEF l
  <2>4. local[d].pc = "blocks" /\ UNCHANGED <<file, tip, told, calm>>
    BY <1>2 DEF SyncBlocks
  <2>5. LocalOK(l)
    BY <1>1, <2>2, <2>4 DEF LocalOK
  <2> QED
    BY <2>2, <2>3, <2>4, <2>5, OthersKept
<1>3. CASE SyncMempool(d)
  <2>1. PICK seen : local' = [local EXCEPT ![d].pc = "reload", ![d].seen = seen]
    BY <1>3 DEF SyncMempool
  <2> DEFINE l == [local[d] EXCEPT !.pc = "reload", !.seen = seen]
  <2>2. /\ l = [x \in Fields |-> l[x]] /\ l.pc = "reload" /\ l.top = local[d].top
        /\ l.cmd = local[d].cmd /\ l.rescan = local[d].rescan
    BY <1>1 DEF LocalOK, Fields
  <2>3. local' = [local EXCEPT ![d] = l]
    BY <2>1 DEF WalletInv, LocalInv
  <2> HIDE DEF l
  <2>4. local[d].pc = "mempool" /\ UNCHANGED <<file, tip, told, calm>>
    BY <1>3 DEF SyncMempool
  <2>5. LocalOK(l)
    BY <1>1, <2>2, <2>4 DEF LocalOK
  <2> QED
    BY <2>2, <2>3, <2>4, <2>5, OthersKept
<1> QED
  BY <1>2, <1>3

\* Where a command goes after its save, from the step before or after the write.
LEMMA AfterCheckpointMoves ==
  ASSUME LocalInv, NEW d \in Process, local[d].pc \in {"reload", "write"}, AfterCheckpoint(d)
  PROVE  \E l : /\ LocalOK(l) /\ l.pc \notin {"truncate", "write"}
                /\ local' = [local EXCEPT ![d] = l]
<1>1. LocalOK(local[d])
  BY DEF LocalInv
<1>2. CASE local[d].cmd # "send"
  BY <1>2, IdleOK DEF AfterCheckpoint, Idle
<1>3. CASE local[d].cmd = "send" /\ NeedsRescan(d)
  <2> DEFINE l == [local[d] EXCEPT !.pc = "reload", !.rescan = "due"]
  <2>1. /\ l = [x \in Fields |-> l[x]] /\ l.pc = "reload" /\ l.top = local[d].top
        /\ l.cmd = "send"
    BY <1>1, <1>3 DEF LocalOK, Fields
  <2>2. local' = [local EXCEPT ![d] = l]
    BY <1>3 DEF LocalInv, AfterCheckpoint
  <2> HIDE DEF l
  <2>3. LocalOK(l)
    BY <1>1, <2>1 DEF LocalOK
  <2> QED
    BY <2>1, <2>2, <2>3
<1>4. CASE local[d].cmd = "send" /\ ~ NeedsRescan(d)
  <2> DEFINE l == [local[d] EXCEPT !.pc = "build", !.base = None]
  <2>1. /\ l = [x \in Fields |-> l[x]] /\ l.pc = "build" /\ l.top = local[d].top
        /\ l.cmd = "send"
    BY <1>1, <1>4 DEF LocalOK, Fields
  <2>2. local' = [local EXCEPT ![d] = l]
    BY <1>4 DEF LocalInv, AfterCheckpoint
  <2> HIDE DEF l
  <2>3. LocalOK(l)
    BY <1>1, <2>1 DEF LocalOK
  <2> QED
    BY <2>1, <2>2, <2>3
<1> QED
  BY <1>2, <1>3, <1>4

LEMMA ReloadKeeps ==
  ASSUME WalletInv, NEW d \in Process, Reload(d)
  PROVE  WalletInv'
<1>1. LocalOK(local[d]) /\ local[d].pc = "reload" /\ UNCHANGED <<file, tip, told, calm>>
  BY DEF WalletInv, LocalInv, Reload
<1>2. CASE Whole(file)
  <2> DEFINE l == [local[d] EXCEPT !.pc = "truncate", !.base = file]
  <2>1. /\ l = [x \in Fields |-> l[x]] /\ l.pc = "truncate" /\ l.top = local[d].top
        /\ l.cmd = local[d].cmd /\ l.rescan = local[d].rescan /\ l.base = file
    BY <1>1 DEF LocalOK, Fields
  <2>2. local' = [local EXCEPT ![d].pc = "truncate", ![d].base = file]
    BY <1>2 DEF Reload
  <2>3. local' = [local EXCEPT ![d] = l]
    BY <2>2 DEF WalletInv, LocalInv
  <2> HIDE DEF l
  <2>4. LocalOK(l)
    BY <1>1, <1>2, <2>1, WholeFile DEF LocalOK, Ready, WalletInv
  <2> QED
    BY <1>1, <2>1, <2>3, <2>4, OthersKept
<1>3. CASE ~ Whole(file) /\ local[d].rescan = "due"
  BY <1>1, <1>3, FinishKeeps DEF Reload, Finish
<1>4. CASE ~ Whole(file) /\ local[d].rescan # "due"
  <2>1. AfterCheckpoint(d)
    BY <1>4 DEF Reload
  <2>2. PICK l : /\ LocalOK(l) /\ l.pc \notin {"truncate", "write"}
                 /\ local' = [local EXCEPT ![d] = l]
    BY <1>1, <2>1, AfterCheckpointMoves DEF WalletInv
  <2> QED
    BY <1>1, <2>2, OthersKept
<1> QED
  BY <1>2, <1>3, <1>4

\* Only one process empties the file that it has read, and continues it.
LEMMA TruncateKeeps ==
  ASSUME WalletInv, NEW d \in Process, Truncate(d)
  PROVE  WalletInv'
<1> DEFINE l == [local[d] EXCEPT !.pc = "write"]
<1>1. /\ local[d].pc = "truncate" /\ file' = Torn /\ UNCHANGED <<tip, told>>
      /\ calm' = (calm /\ file = local[d].base /\ file # Torn)
      /\ local' = [local EXCEPT ![d].pc = "write"]
  BY DEF Truncate, Goto
<1>2. LocalOK(local[d])
  BY DEF WalletInv, LocalInv
<1>3. /\ l = [x \in Fields |-> l[x]] /\ l.pc = "write"
      /\ l.cmd = local[d].cmd /\ l.base = local[d].base /\ l.key = local[d].key
      /\ l.top = local[d].top /\ l.rescan = local[d].rescan
  BY <1>2 DEF LocalOK, Fields
<1>4. local' = [local EXCEPT ![d] = l]
  BY <1>1 DEF WalletInv, LocalInv
<1> HIDE DEF l
<1>5. LocalOK(l)
  BY <1>1, <1>2, <1>3 DEF LocalOK, Ready
<1>6. LocalInv' /\ local'[d] = l /\ \A e \in Process : e # d => local'[e] = local[e]
  BY <1>4, <1>5, OneMoves DEF WalletInv
<1>7. FileInv'
  BY <1>1 DEF WalletInv, FileInv
<1>8. ASSUME calm' PROVE CalmInv'
  <2>1. calm /\ file = local[d].base /\ file # Torn
    BY <1>1, <1>8
  <2>2. \A e \in Process : local'[e].pc = "write" => e = d
    BY <1>6, <2>1 DEF WalletInv, CalmInv
  <2>3. Draft(d)' = Draft(d)
    BY <1>3, <1>6 DEF Draft
  <2>4. CASE local[d].cmd = "create"
    <3>1. told = {}
      BY <1>1, <1>2, <2>1, <2>4 DEF LocalOK, Ready, WalletInv, CalmInv
    <3> QED
      BY <1>1, <2>2, <3>1, FileAssumption DEF CalmInv, Continued
  <2>5. CASE local[d].cmd # "create"
    <3>1. /\ file \in WalletState /\ Continued(file)
          /\ local[d].cmd \in {"address", "fast", "reset", "balance", "send"}
      BY <1>1, <1>2, <2>1, <2>5 DEF LocalOK, Ready, WalletInv, CalmInv
    <3>2. /\ Draft(d).key = file.key
          /\ Draft(d).index = IF local[d].cmd = "address" THEN file.index + 1 ELSE file.index
      BY <2>1, <3>1 DEF Draft, WalletState
    <3>3. \A a \in told : a[2] \in Nat
      BY BoundAssumption DEF WalletInv, FileInv
    <3>4. file.index \in Nat
      BY <3>1, BoundAssumption DEF WalletState
    <3>5. Continued(Draft(d)) /\ (local[d].cmd = "address" => \A a \in told : a[2] < Draft(d).index)
      BY <3>1, <3>2, <3>3, <3>4 DEF Continued
    <3>6. /\ Continued(Draft(d)')
          /\ local'[d].cmd = "address" => \A a \in told : a[2] < Draft(d)'.index
      BY <1>3, <1>6, <2>3, <3>5
    <3>7. Torn \notin WalletState /\ Torn # None
      BY FileAssumption, WriterAssumption
    <3> QED
      BY <1>1, <2>2, <3>6, <3>7 DEF CalmInv, Continued
  <2> QED
    BY <2>4, <2>5
<1> QED
  BY <1>6, <1>7, <1>8 DEF WalletInv, CalmInv

\* What the write makes of the process: it ends, goes on, or reads the chain again.
LEMMA WriteMoves ==
  ASSUME LocalInv, NEW d \in Process, Write(d)
  PROVE  \E l : /\ LocalOK(l) /\ l.pc \notin {"truncate", "write"}
                /\ local' = [local EXCEPT ![d] = l]
<1>1. LocalOK(local[d]) /\ local[d].pc = "write"
  BY DEF LocalInv, Write
<1>2. CASE local[d].rescan = "due"
  <2>1. PICK key, from : local' = [local EXCEPT ![d].pc = "blocks", ![d].rescan = "done",
                                     ![d].base = None, ![d].seen = {}, ![d].top = 0,
                                     ![d].key = key, ![d].from = from]
    BY <1>2 DEF Write
  <2> DEFINE l == [local[d] EXCEPT !.pc = "blocks", !.rescan = "done", !.base = None, !.seen = {},
                                   !.top = 0, !.key = key, !.from = from]
  <2>2. /\ l = [x \in Fields |-> l[x]] /\ l.pc = "blocks" /\ l.top = 0 /\ l.cmd = local[d].cmd
    BY <1>1 DEF LocalOK, Fields
  <2>3. local' = [local EXCEPT ![d] = l]
    BY <2>1 DEF LocalInv
  <2> HIDE DEF l
  <2>4. LocalOK(l)
    BY <1>1, <1>2, <2>2, BoundAssumption DEF LocalOK
  <2> QED
    BY <2>2, <2>3, <2>4
<1>3. CASE local[d].rescan # "due"
  <2>1. AfterCheckpoint(d)
    BY <1>3 DEF Write
  <2> QED
    BY <1>1, <2>1, AfterCheckpointMoves
<1> QED
  BY <1>2, <1>3

LEMMA WriteKeeps ==
  ASSUME WalletInv, NEW d \in Process, Write(d)
  PROVE  WalletInv'
<1>1. /\ local[d].pc = "write" /\ file' = Draft(d) /\ UNCHANGED tip
      /\ calm' = (calm /\ file = Torn)
      /\ told' \in {told, told \union {<<Draft(d).key, Draft(d).index>>}}
  BY DEF Write, Written
<1>2. Draft(d) \in WalletState
  BY <1>1, DraftTyped DEF WalletInv, LocalInv
<1>3. PICK l : /\ LocalOK(l) /\ l.pc \notin {"truncate", "write"}
               /\ local' = [local EXCEPT ![d] = l]
  BY WriteMoves DEF WalletInv
<1>4. LocalInv' /\ local'[d] = l /\ \A e \in Process : e # d => local'[e] = local[e]
  BY <1>3, OneMoves DEF WalletInv
<1>5. Draft(d).key \in Key /\ Draft(d).index \in 0 .. MaxIndex
  BY <1>2 DEF WalletState
<1>6. FileInv'
  BY <1>1, <1>2, <1>5 DEF WalletInv, FileInv
<1>7. ASSUME calm' PROVE CalmInv'
  <2>1. Continued(Draft(d)) /\ \A e \in Process : local'[e].pc # "write"
    BY <1>1, <1>3, <1>4, <1>7 DEF WalletInv, CalmInv
  <2>2. Draft(d).index \in Nat
    BY <1>5, BoundAssumption
  <2>3. Continued(file)'
    BY <1>1, <2>1, <2>2 DEF Continued
  <2>4. file' # None
    BY <1>1, <1>2, FileAssumption
  <2> QED
    BY <2>1, <2>3, <2>4 DEF CalmInv
<1> QED
  BY <1>4, <1>6, <1>7 DEF WalletInv, CalmInv

LEMMA SendKeeps ==
  ASSUME WalletInv, NEW d \in Process,
         Refuse(d) \/ Broadcast(d) \/ Conflict(d) \/ Verify(d) \/ TimeOut(d) \/ Die(d)
  PROVE  WalletInv'
<1>1. UNCHANGED <<file, tip, told, calm>>
  BY DEF Refuse, Broadcast, Conflict, Verify, TimeOut, Die
<1>2. CASE local' = [local EXCEPT ![d] = Idle]
  BY <1>1, <1>2, FinishKeeps
<1>3. CASE local' = [local EXCEPT ![d].pc = "verify"]
  <2> DEFINE l == [local[d] EXCEPT !.pc = "verify"]
  <2>1. LocalOK(local[d])
    BY DEF WalletInv, LocalInv
  <2>2. /\ l = [x \in Fields |-> l[x]] /\ l.pc = "verify" /\ l.top = local[d].top
        /\ l.cmd = local[d].cmd /\ l.rescan = local[d].rescan
    BY <2>1 DEF LocalOK, Fields
  <2>3. local' = [local EXCEPT ![d] = l]
    BY <1>3 DEF WalletInv, LocalInv
  <2> HIDE DEF l
  <2>4. LocalOK(l)
    BY <2>1, <2>2 DEF LocalOK
  <2> QED
    BY <1>1, <2>2, <2>3, <2>4, OthersKept
<1>4. CASE local' = [local EXCEPT ![d].awaited = FALSE]
  <2> DEFINE l == [local[d] EXCEPT !.awaited = FALSE]
  <2>1. LocalOK(local[d])
    BY DEF WalletInv, LocalInv
  <2>2. /\ l = [x \in Fields |-> l[x]]
        /\ \A x \in Fields \ {"awaited"} : l[x] = local[d][x]
    BY <2>1 DEF LocalOK, Fields
  <2>3. local' = [local EXCEPT ![d] = l]
    BY <1>4 DEF WalletInv, LocalInv
  <2> HIDE DEF l
  <2>4. /\ l.pc = local[d].pc /\ l.top = local[d].top /\ l.cmd = local[d].cmd
        /\ l.rescan = local[d].rescan /\ l.base = local[d].base /\ l.key = local[d].key
    BY <2>2 DEF Fields
  <2>5. LocalOK(l)
    BY <2>1, <2>2, <2>4 DEF LocalOK, Ready
  <2> QED
    BY <1>1, <2>3, <2>4, <2>5, OthersKept
<1> QED
  BY <1>2, <1>3, <1>4 DEF Refuse, Broadcast, Conflict, Verify, TimeOut, Die, Finish, Goto

\* Deposits and blocks, of which the file knows nothing.
LEMMA OutsideKeeps ==
  ASSUME WalletInv, Deposit \/ Mine \/ UNCHANGED vars
  PROVE  WalletInv'
<1>1. UNCHANGED <<file, local, told, calm>>
  BY DEF Deposit, Mine, vars
<1>2. tip' \in 0 .. MaxHeight
  <2>1. tip' = tip \/ (tip < MaxHeight /\ tip' = tip + 1)
    BY DEF Deposit, Mine, vars
  <2>2. tip \in 0 .. MaxHeight
    BY DEF WalletInv, FileInv
  <2> QED
    BY <2>1, <2>2, BoundAssumption
<1>3. LocalInv' /\ FileInv'
  BY <1>1, <1>2 DEF WalletInv, LocalInv, FileInv
<1>4. CalmInv'
  BY <1>1, CalmKept DEF WalletInv
<1> QED
  BY <1>3, <1>4 DEF WalletInv

LEMMA WalletStep == WalletInv /\ [Next]_vars => WalletInv'
<1> SUFFICES ASSUME WalletInv, [Next]_vars PROVE WalletInv'
  OBVIOUS
<1>1. Daemon \subseteq Process
  BY DEF Process
<1>2. ASSUME NEW d \in Daemon, NEW p \in Payment, BeginSend(d, p) PROVE WalletInv'
  BY <1>1, <1>2, BeginKeeps
<1> QED
  BY <1>2, BeginKeeps, LoadCreateKeeps, LoadKeeps, SyncKeeps, ReloadKeeps, TruncateKeeps,
     WriteKeeps, SendKeeps, OutsideKeeps DEF Next

LEMMA WalletCorrect == Spec => []WalletInv
<1>1. Init => WalletInv
  BY IdleOK, BoundAssumption, FileAssumption
     DEF Init, WalletInv, LocalInv, FileInv, CalmInv, Idle
<1> QED
  BY <1>1, WalletStep, PTL DEF Spec
-----------------------------------------------------------------------------
\* While no two writers of the file get between each other's read and write and none
\* dies while writing, every address that a caller was given is of the wallet in the
\* file, whichever commands the processes and the reset route run
\* (veiled_wallet.rs: handle_create_wallet).
THEOREM AddressesOfTheFile == Spec => []KeysKept
<1>1. WalletInv => KeysKept
  BY WholeFile DEF WalletInv, CalmInv, Continued, KeysKept
<1> QED
  BY WalletCorrect, <1>1, PTL

\* Under the same condition no address is given out twice by get-address, whatever the
\* other commands wrote back in between (veiled_wallet.rs: handle_get_address).
THEOREM NoAddressTwice == Spec => AddressesFresh
<1> DEFINE Fresh(d) ==
      local[d].cmd = "address" /\ local[d].pc = "write" /\ local'[d].cmd = None /\ calm'
        /\ file' # file /\ Whole(file')
        => told' # told
<1>1. ASSUME WalletInv, [Next]_vars, NEW d \in Daemon PROVE Fresh(d)
  <2> SUFFICES ASSUME local[d].cmd = "address", local[d].pc = "write", calm', file' # file,
                      Whole(file')
               PROVE  told' # told
    OBVIOUS
  <2>1. PICK e \in Process : Truncate(e) \/ Write(e)
    BY <1>1 DEF Next, Begin, BeginSend, LoadCreate, Load, SyncBlocks, SyncMempool, Reload, Refuse,
       Broadcast, Conflict, Verify, TimeOut, Die, Deposit, Mine, Finish, vars
  <2>2. Write(e)
    BY <2>1 DEF Truncate, Whole
  <2>3. calm /\ local[e].pc = "write"
    BY <2>2 DEF Write
  <2>4. e = d
    BY <1>1, <2>3 DEF WalletInv, CalmInv, Process
  <2>5. told' = told \union {<<Draft(d).key, Draft(d).index>>}
    BY <2>2, <2>4 DEF Write
  <2>6. \A a \in told : a[2] < Draft(d).index
    BY <1>1, <2>3 DEF WalletInv, CalmInv, Process
  <2>7. Draft(d).index \in Nat
    <3>1. Draft(d) \in WalletState
      BY <1>1, <2>3, <2>4, DraftTyped DEF WalletInv, LocalInv
    <3> QED
      BY <3>1, BoundAssumption DEF WalletState
  <2>8. <<Draft(d).key, Draft(d).index>> \notin told
    BY <2>6, <2>7
  <2> QED
    BY <2>5, <2>8
<1>2. WalletInv /\ [Next]_vars => \A d \in Daemon : Fresh(d)
  BY <1>1
<1> QED
  BY WalletCorrect, <1>2, PTL DEF Spec, AddressesFresh
-----------------------------------------------------------------------------
\* What a set of coins is worth is a sum.
LEMMA TotalSum ==
  ASSUME NEW seen, IsFiniteSet(seen)
  PROVE  \E f : SumBy(f, seen, [i \in seen |-> coins[i].value]) /\ Total(seen) = f[seen]
<1> DEFINE v == [i \in seen |-> coins[i].value]
           Plus(f, s) == IF s = {} THEN 0
                         ELSE LET x == CHOOSE x \in s : TRUE IN coins[x].value + f[s \ {x}]
           g == CHOOSE g : g = [s \in SUBSET seen |-> Plus(g, s)]
<1>1. PICK f : SumBy(f, seen, v)
  BY SumExists
<1>2. f = [s \in SUBSET seen |-> Plus(f, s)]
  BY <1>1 DEF SumBy
<1>3. g = [s \in SUBSET seen |-> Plus(g, s)]
  BY <1>2
<1>4. SumBy(g, seen, v)
  BY <1>3 DEF SumBy
<1>5. Total(seen) = g[seen]
  BY DEF Total, MapThenSumSet, MapThenFoldSet
<1> QED
  BY <1>4, <1>5

\* Nothing in sight is worth nothing.
LEMMA TotalEmpty == Total({}) = 0
<1>1. IsFiniteSet({})
  BY FS_EmptySet
<1> QED
  BY <1>1, TotalSum DEF SumBy

LEMMA TotalIsNat ==
  ASSUME NEW seen, IsFiniteSet(seen), \A i \in seen : coins[i].value \in Nat
  PROVE  Total(seen) \in Nat
<1> DEFINE v == [i \in seen |-> coins[i].value]
<1>1. \A i \in seen : v[i] \in Nat
  OBVIOUS
<1> HIDE DEF v
<1>2. \A f : SumBy(f, seen, v) => f[seen] \in Nat
  BY <1>1, SumIsNat
<1> QED
  BY <1>2, TotalSum DEF v
-----------------------------------------------------------------------------
(***************************************************************************)
(* What the processes know of the coins.                                   *)
(***************************************************************************)

\* No unspent coin of the process's wallet, in the part of the chain that it has
\* read, is missing from what it sees.
Sees(l, cs) ==
  \A i \in DOMAIN cs :
    cs[i].key = l.key /\ cs[i].height \in 1 .. l.top /\ cs[i].spent = Unspent => i \in l.seen

ProcTyped(l) ==
  /\ l.cmd \in Command \union {None} /\ l.pc \in Step
  /\ l.for \in Payment \union {None} /\ l.awaited \in BOOLEAN
  /\ l.base \in {None, Torn} \union WalletState
  /\ l.key \in {None} \union Key /\ l.from \in 0 .. MaxHeight
  /\ l.rescan \in {"no", "due", "done"}
  /\ l.pc \notin {"idle", "load"} => l.key \in Key

\* The rescan reads the chain from genesis, and without one a payment that is built
\* has funds in sight.
RescanOK(l, cs) ==
  /\ l.pc = "load" => l.rescan = "no"
  /\ l.rescan = "done" /\ l.pc = "blocks" => l.from = 0
  /\ l.rescan = "done" /\ l.pc \in {"mempool", "reload", "truncate", "write", "build"}
       => Sees(l, cs)
  /\ l.pc = "build" => l.rescan # "due" /\ (l.rescan = "no" => l.seen # {})

ProcOK(l, cs, t) ==
  /\ ProcTyped(l)
  /\ l.seen \subseteq DOMAIN cs
  /\ l.top <= t
  /\ RescanOK(l, cs)

CoinInv ==
  /\ coins \in Seq(Coin) /\ Len(coins) <= MaxCoins
  /\ \A d \in Process : ProcOK(local[d], coins, tip)

\* What deposits, payments and blocks make of the coins: none disappears, and what
\* is unspent in the old part of the chain was so before.
Grown(cs, t, more, u) ==
  /\ DOMAIN cs \subseteq DOMAIN more
  /\ t <= u
  /\ \A i \in DOMAIN more :
       more[i].height \in 1 .. t /\ more[i].spent = Unspent
         => /\ i \in DOMAIN cs
            /\ cs[i].key = more[i].key /\ cs[i].height = more[i].height
            /\ cs[i].spent = Unspent

LEMMA GrownKeeps ==
  ASSUME NEW cs, NEW t \in Nat, NEW more, NEW u \in Nat, Grown(cs, t, more, u),
         NEW l, l.top \in Nat, ProcOK(l, cs, t)
  PROVE  ProcOK(l, more, u)
<1>1. /\ l.seen \subseteq DOMAIN cs /\ l.top <= t /\ RescanOK(l, cs) /\ ProcTyped(l)
  BY DEF ProcOK
<1>2. l.seen \subseteq DOMAIN more /\ l.top <= u
  BY <1>1 DEF Grown
<1>3. Sees(l, cs) => Sees(l, more)
  <2> SUFFICES ASSUME Sees(l, cs), NEW i \in DOMAIN more, more[i].key = l.key,
                      more[i].height \in 1 .. l.top, more[i].spent = Unspent
               PROVE  i \in l.seen
    BY DEF Sees
  <2>1. more[i].height \in 1 .. t
    BY <1>1
  <2>2. /\ i \in DOMAIN cs /\ cs[i].key = more[i].key /\ cs[i].height = more[i].height
        /\ cs[i].spent = Unspent
    BY <2>1 DEF Grown
  <2> QED
    BY <2>2 DEF Sees
<1> QED
  BY <1>1, <1>2, <1>3 DEF ProcOK, RescanOK

LEMMA IdleProcOK ==
  ASSUME FileInv
  PROVE  ProcOK(Idle, coins, tip)
<1>1. /\ Idle.cmd = None /\ Idle.pc = "idle" /\ Idle.for = None /\ Idle.awaited = FALSE
      /\ Idle.base = None /\ Idle.key = None /\ Idle.from = 0 /\ Idle.seen = {}
      /\ Idle.top = 0 /\ Idle.rescan = "no"
  BY DEF Idle
<1>2. 0 \in 0 .. MaxHeight /\ 0 <= tip
  BY BoundAssumption DEF FileInv
<1>3. ProcTyped(Idle)
  BY <1>1, <1>2 DEF ProcTyped, Step
<1>4. RescanOK(Idle, coins)
  BY <1>1 DEF RescanOK
<1> QED
  BY <1>1, <1>2, <1>3, <1>4 DEF ProcOK

\* A process moves on, and the coins stay as they are.
LEMMA OneProcMoves ==
  ASSUME LocalInv, CoinInv, NEW d \in Process, NEW l, ProcOK(l, coins, tip),
         local' = [local EXCEPT ![d] = l], UNCHANGED <<coins, tip>>
  PROVE  CoinInv'
<1>1. local'[d] = l /\ \A e \in Process : e # d => local'[e] = local[e]
  BY DEF LocalInv
<1>2. \A e \in Process : ProcOK(local'[e], coins, tip)
  BY <1>1 DEF CoinInv
<1> QED
  BY <1>2 DEF CoinInv

\* A command ends.
LEMMA FinishCoins ==
  ASSUME WalletInv, CoinInv, NEW d \in Process, local' = [local EXCEPT ![d] = Idle],
         UNCHANGED <<coins, tip>>
  PROVE  CoinInv'
  BY IdleProcOK, OneProcMoves DEF WalletInv

\* What a process is that has taken up a command.
Begun(l) ==
  /\ l.cmd \in Command /\ l.pc = "load"
  /\ l.for \in Payment \union {None} /\ l.awaited \in BOOLEAN
  /\ l.base = None /\ l.key = None /\ l.from = 0 /\ l.seen = {}
  /\ l.top = 0 /\ l.rescan = "no"

LEMMA BeginCoins ==
  ASSUME WalletInv, CoinInv, NEW d \in Process, NEW l, Begun(l),
         local' = [local EXCEPT ![d] = l], UNCHANGED <<coins, tip>>
  PROVE  CoinInv'
<1>1. 0 \in 0 .. MaxHeight /\ 0 <= tip
  BY BoundAssumption DEF WalletInv, FileInv
<1>2. ProcOK(l, coins, tip)
  BY <1>1 DEF Begun, ProcOK, ProcTyped, RescanOK, Step
<1> QED
  BY <1>2, OneProcMoves DEF WalletInv

LEMMA LoadCreateCoins ==
  ASSUME WalletInv, CoinInv, NEW d \in Process, LoadCreate(d)
  PROVE  CoinInv'
<1>1. UNCHANGED <<coins, tip>>
  BY DEF LoadCreate
<1>2. CASE Exists
  BY <1>1, <1>2, FinishCoins DEF LoadCreate
<1>3. CASE ~ Exists
  <2>1. PICK k \in Key : local' = [local EXCEPT ![d].pc = "truncate", ![d].base = file,
                                                ![d].key = k]
    BY <1>3 DEF LoadCreate
  <2>2. LocalOK(local[d]) /\ ProcOK(local[d], coins, tip) /\ local[d].pc = "load"
    BY DEF WalletInv, LocalInv, CoinInv, LoadCreate
  <2> DEFINE l == [local[d] EXCEPT !.pc = "truncate", !.base = file, !.key = k]
  <2>3. /\ l.pc = "truncate" /\ l.base = file /\ l.key = k
        /\ \A x \in Fields \ {"pc", "base", "key"} : l[x] = local[d][x]
    BY <2>2 DEF LocalOK, Fields
  <2>4. local' = [local EXCEPT ![d] = l]
    BY <2>1 DEF WalletInv, LocalInv
  <2> HIDE DEF l
  <2>5. ProcTyped(l)
    BY <2>2, <2>3 DEF ProcOK, ProcTyped, Fields, Step, WalletInv, FileInv
  <2>6. RescanOK(l, coins) /\ l.seen \subseteq DOMAIN coins /\ l.top <= tip
    BY <2>2, <2>3 DEF ProcOK, RescanOK, Fields
  <2>7. ProcOK(l, coins, tip)
    BY <2>5, <2>6 DEF ProcOK
  <2> QED
    BY <1>1, <2>4, <2>7, OneProcMoves DEF WalletInv
<1> QED
  BY <1>2, <1>3

LEMMA LoadCoins ==
  ASSUME WalletInv, CoinInv, NEW d \in Process, Load(d)
  PROVE  CoinInv'
<1>1. UNCHANGED <<coins, tip>>
  BY DEF Load
<1>2. CASE ~ Whole(file)
  BY <1>1, <1>2, FinishCoins DEF Load, Finish
<1>3. CASE Whole(file)
  <2>1. local' = [local EXCEPT ![d].pc = AfterLoad(local[d].cmd), ![d].base = file,
                               ![d].key = file.key, ![d].from = file.checkpoint]
    BY <1>3 DEF Load
  <2>2. /\ LocalOK(local[d]) /\ ProcOK(local[d], coins, tip) /\ local[d].pc = "load"
        /\ local[d].cmd \in Command \ {"create"} /\ file \in WalletState
    BY <1>3, WholeFile DEF WalletInv, LocalInv, LocalOK, CoinInv, Load
  <2> DEFINE l == [local[d] EXCEPT !.pc = AfterLoad(local[d].cmd), !.base = file,
                                   !.key = file.key, !.from = file.checkpoint]
  <2>3. /\ l.pc = AfterLoad(local[d].cmd) /\ l.base = file /\ l.key = file.key
        /\ l.from = file.checkpoint
        /\ \A x \in Fields \ {"pc", "base", "key", "from"} : l[x] = local[d][x]
    BY <2>2 DEF LocalOK, Fields
  <2>4. local' = [local EXCEPT ![d] = l]
    BY <2>1 DEF WalletInv, LocalInv
  <2>5. AfterLoad(local[d].cmd) \in {"blocks", "reload", "truncate"}
    BY <2>2 DEF AfterLoad, Command
  <2> HIDE DEF l
  <2>6. file.key \in Key /\ file.checkpoint \in 0 .. MaxHeight
    BY <2>2 DEF WalletState
  <2>7. ProcTyped(l)
    BY <2>2, <2>3, <2>5, <2>6 DEF ProcOK, ProcTyped, Fields, Step
  <2>8. RescanOK(l, coins) /\ l.seen \subseteq DOMAIN coins /\ l.top <= tip
    BY <2>2, <2>3, <2>5 DEF ProcOK, RescanOK, Fields
  <2>9. ProcOK(l, coins, tip)
    BY <2>7, <2>8 DEF ProcOK
  <2> QED
    BY <1>1, <2>4, <2>9, OneProcMoves DEF WalletInv
<1> QED
  BY <1>2, <1>3

\* The blocks from genesis on show every unspent coin in them.
LEMMA SyncBlocksCoins ==
  ASSUME WalletInv, CoinInv, NEW d \in Process, SyncBlocks(d)
  PROVE  CoinInv'
<1> DEFINE Found == {i \in DOMAIN coins : /\ coins[i].key = local[d].key
                                          /\ local[d].from < coins[i].height
                                          /\ coins[i].height <= tip
                                          /\ coins[i].spent \notin 1 .. tip}
           paying == local[d].cmd = "send"
           pc == IF paying THEN "mempool" ELSE "reload"
           seen == IF paying THEN Found ELSE {}
           l == [local[d] EXCEPT !.pc = pc, !.seen = seen, !.top = tip, !.from = 0]
<1>1. /\ UNCHANGED <<coins, tip>> /\ local[d].pc = "blocks"
      /\ local' = [local EXCEPT ![d].pc = pc, ![d].seen = seen, ![d].top = tip,
                                ![d].from = 0]
  BY DEF SyncBlocks
<1>2. LocalOK(local[d]) /\ ProcOK(local[d], coins, tip) /\ tip \in 0 .. MaxHeight
  BY DEF WalletInv, LocalInv, CoinInv, FileInv
<1>3. /\ l.pc = pc /\ l.seen = seen /\ l.top = tip /\ l.from = 0
      /\ \A x \in Fields \ {"pc", "seen", "top", "from"} : l[x] = local[d][x]
  BY <1>2 DEF LocalOK, Fields
<1>4. local' = [local EXCEPT ![d] = l]
  BY <1>1 DEF WalletInv, LocalInv
<1> HIDE DEF l
<1>5. ProcTyped(l)
  <2>1. pc \in {"mempool", "reload"} /\ 0 \in 0 .. MaxHeight
    BY BoundAssumption
  <2> HIDE DEF pc, seen
  <2> QED
    BY <1>1, <1>2, <1>3, <2>1 DEF ProcOK, ProcTyped, Fields, Step
<1>6. l.rescan = "done" => Sees(l, coins)
  <2> SUFFICES ASSUME l.rescan = "done", NEW i \in DOMAIN coins, coins[i].key = l.key,
                      coins[i].height \in 1 .. l.top, coins[i].spent = Unspent
               PROVE  i \in l.seen
    BY DEF Sees
  <2>1. local[d].rescan = "done" /\ local[d].from = 0 /\ l.key = local[d].key
    BY <1>1, <1>2, <1>3 DEF ProcOK, RescanOK, Fields
  <2>2. paying
    BY <1>2, <2>1 DEF LocalOK
  <2>3. i \in Found
    BY <1>2, <1>3, <2>1 DEF Unspent
  <2> QED
    BY <1>3, <2>2, <2>3
<1>7. RescanOK(l, coins) /\ l.seen \subseteq DOMAIN coins /\ l.top <= tip
  BY <1>2, <1>3, <1>6 DEF RescanOK
<1>8. ProcOK(l, coins, tip)
  BY <1>5, <1>7 DEF ProcOK
<1> QED
  BY <1>1, <1>4, <1>8, OneProcMoves DEF WalletInv

\* What the mempool takes away is spent.
LEMMA SyncMempoolCoins ==
  ASSUME WalletInv, CoinInv, NEW d \in Process, SyncMempool(d)
  PROVE  CoinInv'
<1> DEFINE Added == {i \in DOMAIN coins : coins[i].key = local[d].key /\ coins[i].height = 0}
           Gone == {i \in DOMAIN coins : coins[i].spent = 0}
           seen == (local[d].seen \union Added) \ Gone
           l == [local[d] EXCEPT !.pc = "reload", !.seen = seen]
<1>1. /\ UNCHANGED <<coins, tip>> /\ local[d].pc = "mempool"
      /\ local' = [local EXCEPT ![d].pc = "reload", ![d].seen = (@ \union Added) \ Gone]
  BY DEF SyncMempool
<1>2. LocalOK(local[d]) /\ ProcOK(local[d], coins, tip)
  BY DEF WalletInv, LocalInv, CoinInv
<1>3. /\ l.pc = "reload" /\ l.seen = seen
      /\ \A x \in Fields \ {"pc", "seen"} : l[x] = local[d][x]
  BY <1>2 DEF LocalOK, Fields
<1>4. local' = [local EXCEPT ![d] = l]
  BY <1>1 DEF WalletInv, LocalInv
<1> HIDE DEF l
<1>5. ProcTyped(l)
  BY <1>1, <1>2, <1>3 DEF ProcOK, ProcTyped, Fields, Step
<1>6. l.rescan = "done" => Sees(l, coins)
  <2> SUFFICES ASSUME l.rescan = "done", NEW i \in DOMAIN coins, coins[i].key = l.key,
                      coins[i].height \in 1 .. l.top, coins[i].spent = Unspent
               PROVE  i \in l.seen
    BY DEF Sees
  <2>1. Sees(local[d], coins) /\ l.key = local[d].key /\ l.top = local[d].top
    BY <1>1, <1>2, <1>3 DEF ProcOK, RescanOK, Fields
  <2>2. i \in local[d].seen /\ i \notin Gone
    BY <2>1 DEF Sees, Unspent
  <2> QED
    BY <1>3, <2>2
<1>7. RescanOK(l, coins) /\ l.seen \subseteq DOMAIN coins /\ l.top <= tip
  BY <1>2, <1>3, <1>6 DEF RescanOK, ProcOK, Fields
<1>8. ProcOK(l, coins, tip)
  BY <1>5, <1>7 DEF ProcOK
<1> QED
  BY <1>1, <1>4, <1>8, OneProcMoves DEF WalletInv

\* A payment is built when the chain was read from genesis or funds are in sight.
LEMMA AfterCheckpointCoins ==
  ASSUME WalletInv, CoinInv, NEW d \in Process, local[d].pc \in {"reload", "write"},
         local[d].rescan # "due", AfterCheckpoint(d), UNCHANGED <<coins, tip>>
  PROVE  CoinInv'
<1>1. LocalOK(local[d]) /\ ProcOK(local[d], coins, tip)
  BY DEF WalletInv, LocalInv, CoinInv
<1>2. CASE local[d].cmd # "send"
  BY <1>2, FinishCoins DEF AfterCheckpoint
<1>3. CASE local[d].cmd = "send" /\ NeedsRescan(d)
  <2> DEFINE l == [local[d] EXCEPT !.pc = "reload", !.rescan = "due"]
  <2>1. /\ l.pc = "reload" /\ l.rescan = "due"
        /\ \A x \in Fields \ {"pc", "rescan"} : l[x] = local[d][x]
    BY <1>1 DEF LocalOK, Fields
  <2>2. local' = [local EXCEPT ![d] = l]
    BY <1>3 DEF WalletInv, LocalInv, AfterCheckpoint
  <2> HIDE DEF l
  <2>3. ProcOK(l, coins, tip)
    BY <1>1, <2>1 DEF ProcOK, ProcTyped, RescanOK, Fields, Step
  <2> QED
    BY <2>2, <2>3, OneProcMoves DEF WalletInv
<1>4. CASE local[d].cmd = "send" /\ ~ NeedsRescan(d)
  <2> DEFINE l == [local[d] EXCEPT !.pc = "build", !.base = None]
  <2>1. /\ l.pc = "build" /\ l.base = None
        /\ \A x \in Fields \ {"pc", "base"} : l[x] = local[d][x]
    BY <1>1 DEF LocalOK, Fields
  <2>2. local' = [local EXCEPT ![d] = l]
    BY <1>4 DEF WalletInv, LocalInv, AfterCheckpoint
  <2> HIDE DEF l
  <2>3. l.rescan = "no" => l.seen # {}
    BY <1>4, <2>1, TotalEmpty DEF NeedsRescan, Fields
  <2>4. Sees(local[d], coins) => Sees(l, coins)
    BY <2>1 DEF Sees, Fields
  <2>5. RescanOK(l, coins)
    BY <1>1, <2>1, <2>3, <2>4 DEF ProcOK, RescanOK, Fields
  <2>6. ProcOK(l, coins, tip)
    BY <1>1, <2>1, <2>5 DEF ProcOK, ProcTyped, Fields, Step
  <2> QED
    BY <2>2, <2>6, OneProcMoves DEF WalletInv
<1> QED
  BY <1>2, <1>3, <1>4

LEMMA ReloadCoins ==
  ASSUME WalletInv, CoinInv, NEW d \in Process, Reload(d)
  PROVE  CoinInv'
<1>1. LocalOK(local[d]) /\ ProcOK(local[d], coins, tip) /\ local[d].pc = "reload"
      /\ UNCHANGED <<coins, tip>>
  BY DEF WalletInv, LocalInv, CoinInv, Reload
<1>2. CASE Whole(file)
  <2> DEFINE l == [local[d] EXCEPT !.pc = "truncate", !.base = file]
  <2>1. /\ l.pc = "truncate" /\ l.base = file
        /\ \A x \in Fields \ {"pc", "base"} : l[x] = local[d][x]
    BY <1>1 DEF LocalOK, Fields
  <2>2. local' = [local EXCEPT ![d].pc = "truncate", ![d].base = file]
    BY <1>2 DEF Reload
  <2>3. local' = [local EXCEPT ![d] = l]
    BY <2>2 DEF WalletInv, LocalInv
  <2> HIDE DEF l
  <2>4. Sees(local[d], coins) => Sees(l, coins)
    BY <2>1 DEF Sees, Fields
  <2>5. RescanOK(l, coins)
    BY <1>1, <2>1, <2>4 DEF ProcOK, RescanOK, Fields
  <2>6. ProcTyped(l)
    BY <1>1, <2>1 DEF ProcOK, ProcTyped, Fields, Step, WalletInv, FileInv
  <2>7. ProcOK(l, coins, tip)
    BY <1>1, <2>1, <2>5, <2>6 DEF ProcOK, Fields
  <2> QED
    BY <1>1, <2>3, <2>7, OneProcMoves DEF WalletInv
<1>3. CASE ~ Whole(file) /\ local[d].rescan = "due"
  BY <1>1, <1>3, FinishCoins DEF Reload, Finish
<1>4. CASE ~ Whole(file) /\ local[d].rescan # "due"
  <2>1. AfterCheckpoint(d)
    BY <1>4 DEF Reload
  <2> QED
    BY <1>1, <1>4, <2>1, AfterCheckpointCoins
<1> QED
  BY <1>2, <1>3, <1>4

\* A process that only moves from one of these steps to one of those.
LEMMA StepCoins ==
  ASSUME WalletInv, CoinInv, NEW d \in Process,
         \/ local[d].pc = "truncate" /\ Goto(d, "write")
         \/ local[d].pc = "build" /\ Goto(d, "verify")
         \/ local' = [local EXCEPT ![d].awaited = FALSE],
         UNCHANGED <<coins, tip>>
  PROVE  CoinInv'
<1>1. LocalOK(local[d]) /\ ProcOK(local[d], coins, tip)
  BY DEF WalletInv, LocalInv, CoinInv
<1>2. PICK pc \in Step, awaited \in BOOLEAN :
        /\ local' = [local EXCEPT ![d] = [local[d] EXCEPT !.pc = pc, !.awaited = awaited]]
        /\ \/ pc = local[d].pc
           \/ local[d].pc = "truncate" /\ pc = "write"
           \/ local[d].pc = "build" /\ pc = "verify"
  <2>1. /\ local = [e \in Process |-> local[e]] /\ local[d] = [x \in Fields |-> local[d][x]]
        /\ local[d].pc \in Step /\ local[d].awaited \in BOOLEAN
    BY <1>1 DEF WalletInv, LocalInv, LocalOK, ProcOK, ProcTyped
  <2>2. \A pc : [local EXCEPT ![d].pc = pc]
                  = [local EXCEPT ![d] = [local[d] EXCEPT !.pc = pc, !.awaited = local[d].awaited]]
    BY <2>1 DEF Fields
  <2>3. [local EXCEPT ![d].awaited = FALSE]
          = [local EXCEPT ![d] = [local[d] EXCEPT !.pc = local[d].pc, !.awaited = FALSE]]
    BY <2>1 DEF Fields
  <2>4. "write" \in Step /\ "verify" \in Step /\ FALSE \in BOOLEAN
    BY DEF Step
  <2>5. CASE local[d].pc = "truncate" /\ Goto(d, "write")
    BY <2>1, <2>2, <2>4, <2>5 DEF Goto
  <2>6. CASE local[d].pc = "build" /\ Goto(d, "verify")
    BY <2>1, <2>2, <2>4, <2>6 DEF Goto
  <2>7. CASE local' = [local EXCEPT ![d].awaited = FALSE]
    <3>1. local' = [local EXCEPT ![d] = [local[d] EXCEPT !.pc = local[d].pc, !.awaited = FALSE]]
      BY <2>3, <2>7
    <3> QED
      BY <2>1, <2>4, <3>1
  <2> QED
    BY <2>5, <2>6, <2>7
<1> DEFINE l == [local[d] EXCEPT !.pc = pc, !.awaited = awaited]
<1>3. /\ l.pc = pc /\ l.awaited = awaited
      /\ \A x \in Fields \ {"pc", "awaited"} : l[x] = local[d][x]
  BY <1>1 DEF LocalOK, Fields
<1>4. local' = [local EXCEPT ![d] = l]
  BY <1>2
<1> HIDE DEF l
<1>5. Sees(local[d], coins) => Sees(l, coins)
  BY <1>3 DEF Sees, Fields
<1>6. RescanOK(l, coins)
  BY <1>1, <1>2, <1>3, <1>5 DEF ProcOK, RescanOK, Fields
<1>7. ProcTyped(l)
  BY <1>1, <1>2, <1>3 DEF ProcOK, ProcTyped, Fields
<1>8. ProcOK(l, coins, tip)
  BY <1>1, <1>3, <1>6, <1>7 DEF ProcOK, Fields
<1> QED
  BY <1>4, <1>8, OneProcMoves DEF WalletInv

\* The save before the rescan clears the checkpoint that the rescan resumes from.
LEMMA WriteCoins ==
  ASSUME WalletInv, CoinInv, NEW d \in Process, Write(d)
  PROVE  CoinInv'
<1>1. LocalOK(local[d]) /\ ProcOK(local[d], coins, tip) /\ local[d].pc = "write"
      /\ UNCHANGED <<coins, tip>>
  BY DEF WalletInv, LocalInv, CoinInv, Write
<1>2. CASE local[d].rescan # "due"
  BY <1>1, <1>2, AfterCheckpointCoins DEF Write
<1>3. CASE local[d].rescan = "due"
  <2> DEFINE draft == Draft(d)
             l == [local[d] EXCEPT !.pc = "blocks", !.rescan = "done", !.base = None,
                                   !.seen = {}, !.top = 0, !.key = draft.key,
                                   !.from = draft.checkpoint]
  <2>1. local' = [local EXCEPT ![d].pc = "blocks", ![d].rescan = "done", ![d].base = None,
                               ![d].seen = {}, ![d].top = 0, ![d].key = draft.key,
                               ![d].from = draft.checkpoint]
    BY <1>3 DEF Write, Rescanned
  <2>2. draft \in WalletState /\ draft.checkpoint = 0
    <3>1. local[d].cmd = "send" /\ local[d].base \in WalletState
      BY <1>1, <1>3 DEF LocalOK, Ready
    <3> QED
      BY <1>1, <1>3, <3>1, DraftTyped DEF Draft, WalletState
  <2> HIDE DEF draft
  <2>3. /\ l.pc = "blocks" /\ l.rescan = "done" /\ l.base = None /\ l.seen = {} /\ l.top = 0
        /\ l.key = draft.key /\ l.from = draft.checkpoint
        /\ \A x \in {"cmd", "for", "awaited"} : l[x] = local[d][x]
    BY <1>1 DEF LocalOK, Fields
  <2>4. local' = [local EXCEPT ![d] = l]
    BY <2>1 DEF WalletInv, LocalInv
  <2> HIDE DEF l
  <2>5. ProcTyped(l)
    BY <1>1, <2>2, <2>3, BoundAssumption DEF ProcOK, ProcTyped, Step, WalletState
  <2>6. RescanOK(l, coins) /\ l.seen \subseteq DOMAIN coins /\ l.top <= tip
    BY <2>2, <2>3, BoundAssumption DEF RescanOK, WalletInv, FileInv
  <2>7. ProcOK(l, coins, tip)
    BY <2>5, <2>6 DEF ProcOK
  <2> QED
    BY <1>1, <2>4, <2>7, OneProcMoves DEF WalletInv
<1> QED
  BY <1>2, <1>3

\* A coin that is spent, or that a block takes.
Changed(c, h, s) == [c EXCEPT !.height = h, !.spent = s]

LEMMA CoinChanged ==
  ASSUME NEW c \in Coin, NEW h \in 0 .. MaxHeight, NEW s \in -1 .. MaxHeight
  PROVE  /\ Changed(c, h, s) \in Coin
         /\ Changed(c, h, s).key = c.key
         /\ Changed(c, h, s).height = h
         /\ Changed(c, h, s).spent = s
<1> DEFINE X == {"key", "value", "height", "spent"}
           m == [c EXCEPT !.height = h, !.spent = s]
<1>1. /\ c = [x \in X |-> c[x]]
      /\ c.key \in Key /\ c.value \in Nat
  BY DEF Coin
<1>2. /\ m = [x \in X |-> m[x]]
      /\ m.key = c.key /\ m.value = c.value /\ m.height = h /\ m.spent = s
  BY <1>1
<1> HIDE DEF m
<1>3. m = [key |-> m.key, value |-> m.value, height |-> m.height, spent |-> m.spent]
  BY <1>2
<1>4. m \in Coin
  BY <1>1, <1>2, <1>3 DEF Coin
<1> QED
  BY <1>2, <1>4 DEF m, Changed

LEMMA CoinSpent ==
  ASSUME NEW c \in Coin
  PROVE  /\ [c EXCEPT !.spent = 0] \in Coin
         /\ [c EXCEPT !.spent = 0].key = c.key
         /\ [c EXCEPT !.spent = 0].height = c.height
         /\ [c EXCEPT !.spent = 0].spent = 0
<1> DEFINE X == {"key", "value", "height", "spent"}
           m == [c EXCEPT !.spent = 0]
<1>1. /\ c = [x \in X |-> c[x]]
      /\ c.key \in Key /\ c.value \in Nat /\ c.height \in 0 .. MaxHeight
      /\ 0 \in -1 .. MaxHeight
  BY BoundAssumption DEF Coin
<1>2. /\ m = [x \in X |-> m[x]]
      /\ m.key = c.key /\ m.value = c.value /\ m.height = c.height /\ m.spent = 0
  BY <1>1
<1> HIDE DEF m
<1>3. m = [key |-> m.key, value |-> m.value, height |-> m.height, spent |-> m.spent]
  BY <1>2
<1>4. m \in Coin
  BY <1>1, <1>2, <1>3 DEF Coin
<1> QED
  BY <1>2, <1>4 DEF m

\* What a payment leaves of the coins: its inputs are spent, its change is new.
LEMMA SpendingCoins ==
  ASSUME coins \in Seq(Coin), NEW inputs, inputs \subseteq DOMAIN coins,
         Total(inputs) >= Amount, NEW k \in Key, NEW t \in Nat
  PROVE  /\ Spending(inputs, k) \in Seq(Coin)
         /\ Grown(coins, t, Spending(inputs, k), t)
<1> DEFINE spent == [i \in DOMAIN coins |-> IF i \in inputs THEN [coins[i] EXCEPT !.spent = 0]
                                            ELSE coins[i]]
           change == Total(inputs) - Amount
           new == [key |-> k, value |-> change, height |-> 0, spent |-> Unspent]
           rest == IF change = 0 THEN << >> ELSE <<new>>
<1>1. Len(coins) \in Nat /\ DOMAIN coins = 1 .. Len(coins)
  OBVIOUS
<1>2. \A i \in DOMAIN coins : coins[i] \in Coin
  BY <1>1
<1>3. change \in Nat
  <2>1. IsFiniteSet(inputs)
    <3>1. IsFiniteSet(1 .. Len(coins))
      BY <1>1, FS_Interval
    <3> QED
      BY <1>1, <3>1, FS_Subset
  <2>2. Total(inputs) \in Nat
    BY <1>2, <2>1, TotalIsNat DEF Coin
  <2> QED
    BY <2>2, AmountAssumption
<1>4. new \in Coin /\ new.height = 0
  BY <1>3, BoundAssumption DEF Coin, Unspent
<1>5. /\ spent \in Seq(Coin) /\ Len(spent) = Len(coins)
      /\ \A i \in DOMAIN coins : /\ spent[i].key = coins[i].key
                                 /\ spent[i].height = coins[i].height
                                 /\ spent[i].spent = Unspent => coins[i].spent = Unspent
  <2>1. \A i \in DOMAIN coins : /\ [coins[i] EXCEPT !.spent = 0] \in Coin
                                /\ [coins[i] EXCEPT !.spent = 0].key = coins[i].key
                                /\ [coins[i] EXCEPT !.spent = 0].height = coins[i].height
                                /\ [coins[i] EXCEPT !.spent = 0].spent = 0
    BY <1>2, CoinSpent
  <2>2. \A i \in DOMAIN coins : spent[i] \in Coin
    BY <1>2, <2>1
  <2> QED
    BY <1>1, <2>1, <2>2 DEF Unspent
<1> HIDE DEF new, spent, change
<1>6. rest \in Seq(Coin) /\ \A i \in 1 .. Len(rest) : rest[i].height = 0
  <2>1. CASE change = 0
    BY <2>1, EmptySeq
  <2>2. CASE change # 0
    <3>1. <<new>> \in Seq(Coin) /\ Len(<<new>>) = 1 /\ <<new>>[1] = new
      BY <1>4
    <3> QED
      BY <1>4, <2>2, <3>1
  <2> QED
    BY <2>1, <2>2
<1> HIDE DEF rest
<1>7. Spending(inputs, k) = spent \o rest
  BY DEF Spending, spent, rest, change, new
<1> DEFINE more == spent \o rest
<1>8. /\ more \in Seq(Coin) /\ Len(more) = Len(spent) + Len(rest)
      /\ \A i \in 1 .. Len(spent) + Len(rest) :
           more[i] = IF i <= Len(spent) THEN spent[i] ELSE rest[i - Len(spent)]
  BY <1>5, <1>6, ConcatProperties
<1> HIDE DEF more
<1>9. DOMAIN more = 1 .. Len(more) /\ Len(rest) \in Nat
  BY <1>6, <1>8
<1>10. ASSUME NEW i \in DOMAIN more, more[i].height \in 1 .. t, more[i].spent = Unspent
       PROVE  /\ i \in DOMAIN coins
              /\ coins[i].key = more[i].key /\ coins[i].height = more[i].height
              /\ coins[i].spent = Unspent
  <2>1. CASE i \in DOMAIN coins
    BY <1>1, <1>5, <1>8, <1>9, <1>10, <2>1
  <2>2. CASE i \notin DOMAIN coins
    <3>1. i - Len(spent) \in 1 .. Len(rest) /\ more[i] = rest[i - Len(spent)]
      BY <1>1, <1>5, <1>8, <1>9, <2>2
    <3> QED
      BY <1>6, <1>10, <3>1
  <2> QED
    BY <2>1, <2>2
<1>11. DOMAIN coins \subseteq DOMAIN more
  BY <1>1, <1>5, <1>8, <1>9
<1> QED
  BY <1>7, <1>8, <1>10, <1>11 DEF Grown, more

\* When the coins grow, what the processes know stays right.
LEMMA CoinsGrow ==
  ASSUME WalletInv, CoinInv, coins' \in Seq(Coin), Len(coins') <= MaxCoins,
         tip' \in Nat, Grown(coins, tip, coins', tip'), UNCHANGED local
  PROVE  CoinInv'
<1>1. ASSUME NEW d \in Process PROVE ProcOK(local[d], coins', tip')
  <2>1. local[d].top \in Nat /\ tip \in Nat
    BY BoundAssumption DEF WalletInv, LocalInv, LocalOK, FileInv
  <2> QED
    BY <2>1, GrownKeeps DEF CoinInv
<1> QED
  BY <1>1 DEF CoinInv

LEMMA DepositCoins ==
  ASSUME WalletInv, CoinInv, Deposit
  PROVE  CoinInv'
<1>1. PICK a \in told, v \in Value :
        coins' = Append(coins, [key |-> a[1], value |-> v, height |-> 0, spent |-> Unspent])
  BY DEF Deposit
<1> DEFINE new == [key |-> a[1], value |-> v, height |-> 0, spent |-> Unspent]
<1>2. new \in Coin /\ new.height = 0
  <2>1. a[1] \in Key /\ v \in Nat
    BY AmountAssumption DEF WalletInv, FileInv
  <2> QED
    BY <2>1, BoundAssumption DEF Coin, Unspent
<1>3. coins \in Seq(Coin) /\ Len(coins) \in Nat /\ Len(coins) < MaxCoins
      /\ UNCHANGED <<local, tip>>
  BY DEF CoinInv, Deposit
<1>4. coins' = Append(coins, new)
  BY <1>1
<1> HIDE DEF new
<1>5. /\ coins' \in Seq(Coin) /\ Len(coins') = Len(coins) + 1
      /\ \A i \in 1 .. Len(coins) : coins'[i] = coins[i]
      /\ coins'[Len(coins) + 1] = new
  BY <1>2, <1>3, <1>4, AppendProperties
<1>6. DOMAIN coins = 1 .. Len(coins) /\ DOMAIN coins' = 1 .. Len(coins) + 1
  BY <1>3, <1>5
<1>7. tip \in Nat /\ Len(coins') <= MaxCoins
  BY <1>3, <1>5, BoundAssumption DEF WalletInv, FileInv
<1>8. Grown(coins, tip, coins', tip')
  <2>1. ASSUME NEW i \in DOMAIN coins', coins'[i].height \in 1 .. tip
        PROVE  i \in DOMAIN coins /\ coins'[i] = coins[i]
    <3>1. i # Len(coins) + 1
      BY <1>2, <1>5, <2>1
    <3> QED
      BY <1>3, <1>5, <1>6, <3>1
  <2> QED
    BY <1>3, <1>6, <1>7, <2>1 DEF Grown
<1> QED
  BY <1>3, <1>5, <1>7, <1>8, CoinsGrow

\* A block confirms what nobody has read yet.
LEMMA MineCoins ==
  ASSUME WalletInv, CoinInv, Mine
  PROVE  CoinInv'
<1> DEFINE Mined(c) == [c EXCEPT !.height = IF @ = 0 THEN tip + 1 ELSE @,
                                 !.spent = IF @ = 0 THEN tip + 1 ELSE @]
<1>1. /\ tip < MaxHeight /\ tip' = tip + 1 /\ UNCHANGED local
      /\ coins' = [i \in DOMAIN coins |-> Mined(coins[i])]
  BY DEF Mine
<1>2. tip \in Nat /\ tip + 1 \in 0 .. MaxHeight /\ tip + 1 \in -1 .. MaxHeight
  <2>1. tip \in 0 .. MaxHeight
    BY DEF WalletInv, FileInv
  <2>2. tip < MaxHeight /\ MaxHeight \in Nat
    BY <1>1, BoundAssumption
  <2> HIDE DEF Mined
  <2> QED
    BY <2>1, <2>2
<1>3. coins \in Seq(Coin) /\ DOMAIN coins = 1 .. Len(coins) /\ Len(coins) \in Nat
      /\ Len(coins) <= MaxCoins /\ \A i \in DOMAIN coins : coins[i] \in Coin
  BY DEF CoinInv
<1>4. ASSUME NEW c \in Coin
      PROVE  /\ Mined(c) \in Coin /\ Mined(c).key = c.key
             /\ Mined(c).height \in 1 .. tip => Mined(c).height = c.height
             /\ Mined(c).spent = Unspent => c.spent = Unspent
  <2> DEFINE h == IF c.height = 0 THEN tip + 1 ELSE c.height
             s == IF c.spent = 0 THEN tip + 1 ELSE c.spent
  <2>1. c.height \in 0 .. MaxHeight /\ c.spent \in -1 .. MaxHeight
    BY DEF Coin
  <2>2. /\ h \in 0 .. MaxHeight /\ s \in -1 .. MaxHeight
        /\ h \in 1 .. tip => h = c.height
        /\ s = Unspent => c.spent = Unspent
    BY <1>2, <2>1 DEF Unspent
  <2>3. Mined(c) = Changed(c, h, s)
    BY DEF Changed
  <2> HIDE DEF h, s, Mined
  <2>4. /\ Changed(c, h, s) \in Coin /\ Changed(c, h, s).key = c.key
        /\ Changed(c, h, s).height = h /\ Changed(c, h, s).spent = s
    BY <2>2, CoinChanged
  <2> QED
    BY <2>2, <2>3, <2>4
<1> HIDE DEF Mined
<1>5. coins' \in Seq(Coin) /\ Len(coins') = Len(coins) /\ DOMAIN coins' = DOMAIN coins
  BY <1>1, <1>3, <1>4
<1>6. \A i \in DOMAIN coins : /\ coins'[i].key = coins[i].key
                              /\ coins'[i].height \in 1 .. tip => coins'[i].height = coins[i].height
                              /\ coins'[i].spent = Unspent => coins[i].spent = Unspent
  BY <1>1, <1>3, <1>4
<1>7. Grown(coins, tip, coins', tip')
  BY <1>1, <1>2, <1>5, <1>6 DEF Grown
<1> QED
  BY <1>1, <1>2, <1>3, <1>5, <1>7, CoinsGrow

LEMMA BroadcastCoins ==
  ASSUME WalletInv, CoinInv, NEW d \in Process, Broadcast(d)
  PROVE  CoinInv'
<1>1. PICK inputs \in SUBSET local[d].seen :
        Total(inputs) >= Amount /\ coins' = Spending(inputs, local[d].key)
  BY DEF Broadcast
<1>2. /\ local[d].pc = "build" /\ tip' = tip /\ Len(coins') <= MaxCoins
      /\ Goto(d, "verify") \/ local' = [local EXCEPT ![d] = Idle]
  BY DEF Broadcast
<1>3. LocalOK(local[d]) /\ ProcOK(local[d], coins, tip) /\ coins \in Seq(Coin) /\ tip \in Nat
  BY BoundAssumption DEF WalletInv, LocalInv, CoinInv, FileInv
<1>4. inputs \subseteq DOMAIN coins /\ local[d].key \in Key
  BY <1>2, <1>3 DEF ProcOK, ProcTyped
<1>5. coins' \in Seq(Coin) /\ Grown(coins, tip, coins', tip)
  BY <1>1, <1>3, <1>4, SpendingCoins
<1> DEFINE l == IF Goto(d, "verify") THEN [local[d] EXCEPT !.pc = "verify"] ELSE Idle
<1>6. ProcOK(l, coins, tip) /\ l.top \in Nat /\ local' = [local EXCEPT ![d] = l]
  <2>1. CASE Goto(d, "verify")
    <3> DEFINE m == [local[d] EXCEPT !.pc = "verify"]
    <3>1. m.pc = "verify" /\ \A x \in Fields \ {"pc"} : m[x] = local[d][x]
      BY <1>3 DEF LocalOK, Fields
    <3>2. local' = [local EXCEPT ![d] = m]
      BY <2>1 DEF WalletInv, LocalInv, Goto
    <3>3. l = m
      BY <2>1
    <3> HIDE DEF m, l
    <3>4. ProcOK(m, coins, tip)
      BY <1>2, <1>3, <3>1 DEF ProcOK, ProcTyped, RescanOK, Fields, Step
    <3>5. m.top \in Nat
      <4>1. m.top = local[d].top
        BY <3>1 DEF Fields
      <4> QED
        BY <1>3, <4>1, BoundAssumption DEF LocalOK
    <3> QED
      BY <3>2, <3>3, <3>4, <3>5
  <2>2. CASE ~ Goto(d, "verify")
    <3>1. l = Idle /\ local' = [local EXCEPT ![d] = Idle]
      BY <1>2, <2>2
    <3> HIDE DEF l
    <3> QED
      BY <3>1, IdleProcOK DEF Idle, WalletInv
  <2> QED
    BY <2>1, <2>2
<1> HIDE DEF l
<1>7. ASSUME NEW e \in Process PROVE ProcOK(local'[e], coins', tip')
  <2>1. local'[e] = IF e = d THEN l ELSE local[e]
    BY <1>6 DEF WalletInv, LocalInv
  <2>2. ProcOK(local'[e], coins, tip) /\ local'[e].top \in Nat
    BY <1>6, <2>1, BoundAssumption DEF WalletInv, LocalInv, LocalOK, CoinInv
  <2> DEFINE m == local'[e]
  <2> HIDE DEF m
  <2>3. ProcOK(m, coins, tip) /\ m.top \in Nat
    BY <2>2 DEF m
  <2>4. ProcOK(m, coins', tip)
    BY <1>3, <1>5, <2>3, GrownKeeps
  <2> QED
    BY <1>2, <2>4 DEF m
<1> QED
  BY <1>2, <1>5, <1>7 DEF CoinInv

LEMMA CoinStep == WalletInv /\ CoinInv /\ [Next]_vars => CoinInv'
<1> SUFFICES ASSUME WalletInv, CoinInv, [Next]_vars
             PROVE  CoinInv'
  OBVIOUS
<1>1. Daemon \subseteq Process
  BY DEF Process
<1>2. ASSUME NEW d \in Process, NEW cmd \in Command, Begin(d, cmd) PROVE CoinInv'
  <2> DEFINE l == [Idle EXCEPT !.cmd = cmd, !.pc = "load"]
  <2>1. Begun(l)
    BY DEF Begun, Idle
  <2>2. local' = [local EXCEPT ![d] = l] /\ UNCHANGED <<coins, tip>>
    BY <1>2 DEF Begin
  <2> HIDE DEF l
  <2> QED
    BY <2>1, <2>2, BeginCoins
<1>3. ASSUME NEW d \in Daemon, NEW p \in Payment, BeginSend(d, p) PROVE CoinInv'
  <2> DEFINE l == [Idle EXCEPT !.cmd = "send", !.pc = "load", !.for = p, !.awaited = TRUE]
  <2>1. Begun(l)
    BY DEF Begun, Idle, Command
  <2>2. local' = [local EXCEPT ![d] = l] /\ UNCHANGED <<coins, tip>>
    BY <1>3 DEF BeginSend
  <2> HIDE DEF l
  <2> QED
    BY <1>1, <2>1, <2>2, BeginCoins
<1>4. ASSUME NEW d \in Process, Truncate(d) \/ TimeOut(d) PROVE CoinInv'
  BY <1>4, StepCoins DEF Truncate, TimeOut
<1>5. ASSUME NEW d \in Process, Refuse(d) \/ Conflict(d) \/ Verify(d) \/ Die(d) PROVE CoinInv'
  BY <1>5, FinishCoins DEF Refuse, Conflict, Verify, Die, Finish
<1>6. CASE UNCHANGED vars
  BY <1>6 DEF vars, CoinInv
<1> QED
  BY <1>2, <1>3, <1>4, <1>5, <1>6, LoadCreateCoins, LoadCoins, SyncBlocksCoins, SyncMempoolCoins,
     ReloadCoins, WriteCoins, BroadcastCoins, DepositCoins, MineCoins DEF Next

LEMMA CoinsCorrect == Spec => [](WalletInv /\ CoinInv)
<1>1. Init => CoinInv
  <2> SUFFICES ASSUME Init
               PROVE  CoinInv
    OBVIOUS
  <2>1. FileInv /\ coins = << >> /\ local = [d \in Process |-> Idle]
    BY BoundAssumption DEF Init, FileInv
  <2>2. << >> \in Seq(Coin) /\ Len(<< >>) <= MaxCoins
    BY EmptySeq, BoundAssumption
  <2> QED
    BY <2>1, <2>2, IdleProcOK DEF CoinInv
<1> QED
  BY WalletCorrect, <1>1, CoinStep, PTL DEF Spec

\* A payment is refused for want of funds only when no unspent output of its wallet
\* lies in the part of the chain it has read: whatever checkpoint it began from and
\* whatever was mined, paid or written in between (veiled_wallet.rs: handle_send, the
\* rescan from genesis).
THEOREM NothingOverlooked == Spec => []RescanBeforeRefusal
<1>1. CoinInv => RescanBeforeRefusal
  <2> SUFFICES ASSUME CoinInv, NEW d \in Daemon, local[d].pc = "build", local[d].seen = {},
                      NEW i \in DOMAIN coins, coins[i].key = local[d].key,
                      coins[i].height \in 1 .. local[d].top, coins[i].spent = Unspent
               PROVE  FALSE
    BY DEF RescanBeforeRefusal
  <2>1. ProcOK(local[d], coins, tip)
    BY DEF CoinInv, Process
  <2>2. local[d].rescan = "done"
    BY <2>1 DEF ProcOK, ProcTyped, RescanOK
  <2>3. Sees(local[d], coins)
    BY <2>1, <2>2 DEF ProcOK, RescanOK
  <2> QED
    BY <2>3 DEF Sees
<1> QED
  BY CoinsCorrect, <1>1, PTL
-----------------------------------------------------------------------------
CalmTyped == calm \in BOOLEAN

\* Every variable keeps its type (veiled_wallet.rs: WalletState, the commands).
THEOREM WalletTypeCorrect == Spec => []TypeOK
<1>1. Init => CalmTyped
  BY DEF Init, CalmTyped
<1>2. CalmTyped /\ [Next]_vars => CalmTyped'
  <2>1. \A d : Truncate(d) \/ Write(d) => calm' \in BOOLEAN
    BY DEF Truncate, Write
  <2>2. calm' = calm \/ \E d : Truncate(d) \/ Write(d) \/ ~ [Next]_vars
    BY DEF Next, Begin, BeginSend, LoadCreate, Load, SyncBlocks, SyncMempool, Reload, Refuse,
       Broadcast, Conflict, Verify, TimeOut, Die, Deposit, Mine, vars
  <2> QED
    BY <2>1, <2>2 DEF CalmTyped
<1>3. WalletInv /\ CoinInv /\ CalmTyped => TypeOK
  BY DEF CalmTyped, WalletInv, LocalInv, LocalOK, FileInv, CoinInv, ProcOK, ProcTyped, TypeOK
<1> QED
  BY CoinsCorrect, <1>1, <1>2, <1>3, PTL DEF Spec
-----------------------------------------------------------------------------
(***************************************************************************)
(* What callers are told of payments.                                      *)
(***************************************************************************)

\* A process works for a payment that the pool no longer waits for, and has not
\* broadcast yet.
Stray(l, p) == ~ l.awaited /\ l.cmd = "send" /\ l.for = p /\ l.pc \notin {"idle", "verify"}

Strays(p) == {d \in Process : Stray(local[d], p)}

\* The attempt that the pool waits for has broadcast.
SentBy(l, p) == l.awaited /\ l.for = p /\ l.pc = "verify"

Sent(p) == \E d \in Process : SentBy(local[d], p)

Outcome == {"none", "waiting", "retry", "done", "failed"}

PayTyped == pay \in [Payment -> [outcome : Outcome, tries : Nat, lost : Nat, paid : Nat]]

\* The process works for a payment, one that waits if the pool does.
Engaged(l, pays) ==
  /\ l.cmd = "send" /\ l.pc # "idle" => l.for \in Payment
  /\ l.pc \in {"build", "verify"} => l.cmd = "send"
  /\ l.awaited => l.cmd = "send" /\ l.pc # "idle" /\ pays[l.for].outcome = "waiting"

\* Each stray attempt may still pay once, and was counted as lost.
Balance(paid, lost, strays, sent) ==
  /\ paid + strays <= lost + (IF sent THEN 1 ELSE 0)
  /\ sent => paid >= 1

Balanced(p) ==
  Balance(pay[p].paid, pay[p].lost, Cardinality(Strays(p)), pay[p].outcome = "done" \/ Sent(p))

PayInv ==
  /\ PayTyped
  /\ \A d \in Process : Engaged(local[d], pay)
  /\ \A d, e \in Process :
       local[d].awaited /\ local[e].awaited /\ local[d].for = local[e].for => d = e
  /\ \A p \in Payment : Balanced(p)

Weight(l, p) == IF Stray(l, p) THEN 1 ELSE 0

\* How the number of strays changes when a process moves.
LEMMA StraysMove ==
  ASSUME LocalInv, NEW d \in Process, NEW l, local' = [local EXCEPT ![d] = l], NEW p
  PROVE  /\ Cardinality(Strays(p)) \in Nat /\ Cardinality(Strays(p)') \in Nat
         /\ Cardinality(Strays(p)') = Cardinality(Strays(p)) - Weight(local[d], p) + Weight(l, p)
<1>1. local'[d] = l /\ \A e \in Process : e # d => local'[e] = local[e]
  BY DEF LocalInv
<1>2. IsFiniteSet(Process)
  BY DaemonAssumption, FS_AddElement DEF Process
<1>3. /\ Strays(p) \subseteq Process /\ Strays(p)' \subseteq Process
      /\ Strays(p) \ {d} = Strays(p)' \ {d}
      /\ d \in Strays(p) <=> Stray(local[d], p)
      /\ d \in Strays(p)' <=> Stray(l, p)
  BY <1>1 DEF Strays, Stray
<1> DEFINE s == Strays(p)
           t == Strays(p)'
<1> HIDE DEF s, t
<1>4. /\ IsFiniteSet(s) /\ IsFiniteSet(t) /\ s \ {d} = t \ {d}
      /\ d \in s <=> Stray(local[d], p)
      /\ d \in t <=> Stray(l, p)
  BY <1>2, <1>3, FS_Subset DEF s, t
<1>5. /\ Cardinality(s) \in Nat /\ Cardinality(t) \in Nat
      /\ Cardinality(s \ {d}) = IF d \in s THEN Cardinality(s) - 1 ELSE Cardinality(s)
      /\ Cardinality(t \ {d}) = IF d \in t THEN Cardinality(t) - 1 ELSE Cardinality(t)
  BY <1>4, FS_CardinalityType, FS_RemoveElement
<1>6. Cardinality(t) = Cardinality(s) - Weight(local[d], p) + Weight(l, p)
  BY <1>4, <1>5 DEF Weight
<1> QED
  BY <1>5, <1>6 DEF s, t

\* What remains to be shown when a process moves.
LEMMA PayMove ==
  ASSUME LocalInv, PayInv, NEW d \in Process, NEW l, local' = [local EXCEPT ![d] = l],
         PayTyped', Engaged(l, pay'),
         l.awaited => \/ local[d].awaited /\ local[d].for = l.for
                      \/ pay[l.for].outcome # "waiting",
         \A p \in Payment : pay[p].outcome = "waiting" =>
           \/ pay'[p].outcome = "waiting"
           \/ local[d].awaited /\ local[d].for = p /\ ~ l.awaited,
         \A p \in Payment : Balanced(p)'
  PROVE  PayInv'
<1>1. local'[d] = l /\ \A e \in Process : e # d => local'[e] = local[e]
  BY DEF LocalInv
<1>2. ASSUME NEW e \in Process PROVE Engaged(local'[e], pay')
  <2>1. CASE e = d
    BY <1>1, <2>1
  <2>2. CASE e # d
    <3>1. local'[e] = local[e] /\ Engaged(local[e], pay)
      BY <1>1, <2>2 DEF PayInv
    <3>2. local[e].awaited => /\ local[e].for \in Payment
                              /\ pay[local[e].for].outcome = "waiting"
      BY <3>1 DEF Engaged
    <3>3. local[e].awaited => ~ (local[d].awaited /\ local[d].for = local[e].for)
      BY <2>2 DEF PayInv
    <3>4. local[e].awaited => pay'[local[e].for].outcome = "waiting"
      BY <3>2, <3>3
    <3> QED
      BY <3>1, <3>4 DEF Engaged
  <2> QED
    BY <2>1, <2>2
<1>3. ASSUME NEW e \in Process, NEW f \in Process, local'[e].awaited, local'[f].awaited,
             local'[e].for = local'[f].for
      PROVE  e = f
  <2>1. CASE e # d /\ f # d
    BY <1>1, <1>3, <2>1 DEF PayInv
  <2>2. \A g \in Process : g # d /\ local[g].awaited /\ l.awaited => local[g].for # l.for
    <3> SUFFICES ASSUME NEW g \in Process, g # d, local[g].awaited, l.awaited,
                        local[g].for = l.for
                 PROVE  FALSE
      OBVIOUS
    <3>1. pay[l.for].outcome = "waiting"
      BY DEF PayInv, Engaged
    <3> QED
      BY <3>1 DEF PayInv
  <2> QED
    BY <1>1, <1>3, <2>1, <2>2
<1> QED
  BY <1>2, <1>3 DEF PayInv

\* Whether the payment's broadcast is known: only the process moves.
LEMMA SentMove ==
  ASSUME LocalInv, PayInv, NEW d \in Process, NEW l, local' = [local EXCEPT ![d] = l], NEW p
  PROVE  /\ SentBy(local[d], p) = SentBy(l, p) => Sent(p)' = Sent(p)
         /\ local[d].awaited /\ local[d].for = p =>
              /\ Sent(p) = (local[d].pc = "verify")
              /\ Sent(p)' = SentBy(l, p)
<1>1. local'[d] = l /\ \A e \in Process : e # d => local'[e] = local[e]
  BY DEF LocalInv
<1>2. Sent(p)' <=> SentBy(l, p) \/ \E e \in Process : e # d /\ SentBy(local[e], p)
  BY <1>1 DEF Sent
<1>3. Sent(p) <=> SentBy(local[d], p) \/ \E e \in Process : e # d /\ SentBy(local[e], p)
  BY DEF Sent
<1>4. local[d].awaited /\ local[d].for = p => \A e \in Process : e # d => ~ SentBy(local[e], p)
  BY DEF SentBy, PayInv
<1> QED
  BY <1>2, <1>3, <1>4 DEF SentBy, Sent

\* A payment that neither the step nor the process concerns.
LEMMA BalanceKept ==
  ASSUME LocalInv, PayInv, NEW d \in Process, NEW l, local' = [local EXCEPT ![d] = l],
         NEW p \in Payment, pay'[p] = pay[p],
         Weight(l, p) <= Weight(local[d], p), SentBy(local[d], p) = SentBy(l, p)
  PROVE  Balanced(p)'
<1>1. pay[p].paid \in Nat /\ pay[p].lost \in Nat /\ Balanced(p)
  BY DEF PayInv, PayTyped
<1>2. /\ Cardinality(Strays(p)) \in Nat /\ Cardinality(Strays(p)') \in Nat
      /\ Cardinality(Strays(p)') = Cardinality(Strays(p)) - Weight(local[d], p) + Weight(l, p)
  BY StraysMove
<1>3. Sent(p)' = Sent(p)
  BY SentMove
<1>4. Weight(l, p) \in Nat /\ Weight(local[d], p) \in Nat
  BY DEF Weight
<1>5. Cardinality(Strays(p)') <= Cardinality(Strays(p))
  BY <1>2, <1>4
<1> DEFINE s == Cardinality(Strays(p))
           t == Cardinality(Strays(p)')
           sent == pay[p].outcome = "done" \/ Sent(p)
<1>6. /\ Balanced(p) <=> Balance(pay[p].paid, pay[p].lost, s, sent)
      /\ Balanced(p)' <=> Balance(pay[p].paid, pay[p].lost, t, sent)
  BY <1>3 DEF Balanced
<1> HIDE DEF s, t, sent
<1>7. s \in Nat /\ t \in Nat /\ t <= s
  BY <1>2, <1>5 DEF s, t
<1>8. Balance(pay[p].paid, pay[p].lost, s, sent)
  BY <1>1, <1>6
<1>9. Balance(pay[p].paid, pay[p].lost, t, sent)
  BY <1>1, <1>7, <1>8 DEF Balance
<1> QED
  BY <1>6, <1>9

\* A process goes on with its command.
LEMMA GoesOn ==
  ASSUME LocalInv, PayInv, NEW d \in Process, NEW l, local' = [local EXCEPT ![d] = l],
         pay' = pay, \A x \in {"cmd", "for", "awaited"} : l[x] = local[d][x],
         local[d].pc \notin {"idle", "verify"}, l.pc \notin {"idle", "verify"},
         l.pc = "build" => l.cmd = "send"
  PROVE  PayInv'
<1>1. l.cmd = local[d].cmd /\ l.for = local[d].for /\ l.awaited = local[d].awaited
  OBVIOUS
<1>2. Engaged(l, pay')
  BY <1>1 DEF PayInv, Engaged
<1>3. \A p : Weight(l, p) = Weight(local[d], p) /\ SentBy(local[d], p) = SentBy(l, p)
  BY <1>1 DEF Weight, Stray, SentBy
<1>4. \A p \in Payment : Balanced(p)'
  <2> SUFFICES ASSUME NEW p \in Payment
               PROVE  Balanced(p)'
    OBVIOUS
  <2>1. Weight(l, p) <= Weight(local[d], p)
    BY <1>3 DEF Weight
  <2> QED
    BY <1>3, <2>1, BalanceKept
<1>5. PayTyped'
  BY DEF PayInv, PayTyped
<1> QED
  BY <1>1, <1>2, <1>4, <1>5, PayMove

\* A payment that the step concerns: what the accounts gain is paid for.
LEMMA BalanceChange ==
  ASSUME LocalInv, PayInv, NEW d \in Process, NEW l, local' = [local EXCEPT ![d] = l],
         NEW p \in Payment, NEW sent \in BOOLEAN, NEW sentNow \in BOOLEAN,
         pay[p].outcome = "done" \/ Sent(p) <=> sent,
         pay'[p].outcome = "done" \/ Sent(p)' <=> sentNow,
         PayTyped', pay[p].paid <= pay'[p].paid,
         (pay'[p].paid - pay[p].paid) + Weight(l, p) + (IF sent THEN 1 ELSE 0)
           <= (pay'[p].lost - pay[p].lost) + Weight(local[d], p) + (IF sentNow THEN 1 ELSE 0),
         sentNow => sent \/ pay'[p].paid >= 1
  PROVE  Balanced(p)'
<1>1. /\ pay[p].paid \in Nat /\ pay[p].lost \in Nat /\ Balanced(p)
      /\ pay'[p].paid \in Nat /\ pay'[p].lost \in Nat
  BY DEF PayInv, PayTyped
<1> DEFINE s == Cardinality(Strays(p))
           t == Cardinality(Strays(p)')
           a == Weight(local[d], p)
           b == Weight(l, p)
<1>2. s \in Nat /\ t \in Nat /\ t = s - a + b /\ a \in Nat /\ b \in Nat
  BY StraysMove DEF Weight
<1>3. /\ Balanced(p) <=> Balance(pay[p].paid, pay[p].lost, s, sent)
      /\ Balanced(p)' <=> Balance(pay'[p].paid, pay'[p].lost, t, sentNow)
  BY DEF Balanced, Balance
<1>4. (pay'[p].paid - pay[p].paid) + b + (IF sent THEN 1 ELSE 0)
        <= (pay'[p].lost - pay[p].lost) + a + (IF sentNow THEN 1 ELSE 0)
  OBVIOUS
<1> HIDE DEF s, t, a, b
<1>5. /\ pay[p].paid + s <= pay[p].lost + (IF sent THEN 1 ELSE 0)
      /\ sent => pay[p].paid >= 1
  BY <1>1, <1>3 DEF Balance
<1>6. pay'[p].paid + t <= pay'[p].lost + (IF sentNow THEN 1 ELSE 0)
  BY <1>1, <1>2, <1>4, <1>5
<1>7. sentNow => pay'[p].paid >= 1
  BY <1>1, <1>5
<1> QED
  BY <1>3, <1>6, <1>7 DEF Balance

\* What a process is when it works for no payment.
Disengaged(l) ==
  ~ l.awaited /\ (l.cmd # "send" \/ l.pc = "idle") /\ l.pc \notin {"build", "verify"}

LEMMA DisengagedIs ==
  ASSUME NEW l, Disengaged(l)
  PROVE  Engaged(l, pay') /\ \A p : Weight(l, p) = 0 /\ ~ SentBy(l, p)
  BY DEF Disengaged, Engaged, Weight, Stray, SentBy

\* A process that the pool does not wait for ends or begins another command.
LEMMA Leaves ==
  ASSUME LocalInv, PayInv, NEW d \in Process, NEW l, local' = [local EXCEPT ![d] = l],
         Disengaged(l), ~ local[d].awaited, pay' = pay
  PROVE  PayInv'
<1>1. Engaged(l, pay') /\ \A p : Weight(l, p) = 0 /\ ~ SentBy(l, p)
  BY DisengagedIs
<1>2. \A p : Weight(l, p) <= Weight(local[d], p) /\ SentBy(local[d], p) = SentBy(l, p)
  BY <1>1 DEF Weight, SentBy
<1>3. \A p \in Payment : Balanced(p)'
  BY <1>2, BalanceKept
<1>4. PayTyped' /\ ~ l.awaited
  BY DEF PayInv, PayTyped, Disengaged
<1> QED
  BY <1>1, <1>3, <1>4, PayMove

\* A process that the pool waits for ends, and the outcome of its payment is known
\* or lost.
LEMMA AwaitedEnds ==
  ASSUME LocalInv, PayInv, NEW d \in Process, NEW l, local' = [local EXCEPT ![d] = l],
         Disengaged(l), local[d].awaited, NEW q \in Payment, q = local[d].for,
         PayTyped', \A p \in Payment : p # q => pay'[p] = pay[p],
         pay'[q].outcome \in {"retry", "done", "failed"},
         NEW paid \in {0, 1}, NEW lost \in {0, 1},
         pay'[q].paid = pay[q].paid + paid, pay'[q].lost = pay[q].lost + lost,
         paid = 1 => local[d].pc # "verify",
         paid <= lost,
         lost = 0 => (local[d].pc = "verify" <=> pay'[q].outcome = "done"),
         pay'[q].outcome = "done" => lost = 0
  PROVE  PayInv'
<1>1. Engaged(l, pay') /\ \A p : Weight(l, p) = 0 /\ ~ SentBy(l, p)
  BY DisengagedIs
<1>2. \A p : Weight(local[d], p) = 0
  BY DEF Weight, Stray
<1>3. ASSUME NEW p \in Payment, p # q PROVE Balanced(p)'
  <2>1. Weight(l, p) <= Weight(local[d], p) /\ SentBy(local[d], p) = SentBy(l, p)
        /\ pay'[p] = pay[p]
    BY <1>1, <1>2, <1>3 DEF SentBy
  <2> QED
    BY <2>1, BalanceKept
<1>4. Balanced(q)'
  <2>1. Sent(q) = (local[d].pc = "verify") /\ ~ Sent(q)'
    BY <1>1, SentMove
  <2>2. pay[q].outcome = "waiting"
    BY DEF PayInv, Engaged
  <2> DEFINE sent == local[d].pc = "verify"
             sentNow == pay'[q].outcome = "done"
  <2>3. /\ sent \in BOOLEAN /\ sentNow \in BOOLEAN
        /\ pay[q].outcome = "done" \/ Sent(q) <=> sent
        /\ pay'[q].outcome = "done" \/ Sent(q)' <=> sentNow
    BY <2>1, <2>2
  <2>4. /\ paid = 1 => ~ sent
        /\ lost = 0 => (sent <=> sentNow)
        /\ sentNow => lost = 0
    OBVIOUS
  <2> HIDE DEF sent, sentNow
  <2>5. paid + (IF sent THEN 1 ELSE 0) <= lost + (IF sentNow THEN 1 ELSE 0)
    BY <2>4
  <2>6. /\ pay[q].paid <= pay'[q].paid
        /\ (pay'[q].paid - pay[q].paid) + Weight(l, q) + (IF sent THEN 1 ELSE 0)
             <= (pay'[q].lost - pay[q].lost) + Weight(local[d], q) + (IF sentNow THEN 1 ELSE 0)
        /\ sentNow => sent
    <3>1. Weight(l, q) = 0 /\ Weight(local[d], q) = 0
      BY <1>1, <1>2
    <3>2. pay[q].paid \in Nat /\ pay[q].lost \in Nat
      BY DEF PayInv, PayTyped
    <3> QED
      BY <2>3, <2>4, <2>5, <3>1, <3>2
  <2> QED
    BY <2>3, <2>6, BalanceChange
<1>5. \A p \in Payment : Balanced(p)'
  BY <1>3, <1>4
<1>6. \A p \in Payment : pay[p].outcome = "waiting" =>
        \/ pay'[p].outcome = "waiting"
        \/ local[d].awaited /\ local[d].for = p /\ ~ l.awaited
  BY DEF Disengaged
<1> QED
  BY <1>1, <1>5, <1>6, PayMove DEF Disengaged

\* The account of a payment after the changes that the steps make.
LEMMA AccountChanged ==
  ASSUME PayTyped, NEW q \in Payment, NEW n \in Nat
  PROVE  /\ [pay EXCEPT ![q].paid = @ + n] \in
              [Payment -> [outcome : Outcome, tries : Nat, lost : Nat, paid : Nat]]
         /\ [pay EXCEPT ![q].paid = @ + n][q].paid = pay[q].paid + n
         /\ [pay EXCEPT ![q].paid = @ + n][q].lost = pay[q].lost
         /\ [pay EXCEPT ![q].paid = @ + n][q].outcome = pay[q].outcome
         /\ \A p \in Payment : p # q => [pay EXCEPT ![q].paid = @ + n][p] = pay[p]
<1>1. pay[q] \in [outcome : Outcome, tries : Nat, lost : Nat, paid : Nat]
  BY DEF PayTyped
<1> DEFINE r == [pay[q] EXCEPT !.paid = @ + n]
           X == {"outcome", "tries", "lost", "paid"}
<1>2. /\ pay[q] = [x \in X |-> pay[q][x]]
      /\ pay[q].outcome \in Outcome /\ pay[q].tries \in Nat /\ pay[q].lost \in Nat
      /\ pay[q].paid \in Nat
  BY <1>1
<1>3. /\ r = [x \in X |-> r[x]] /\ r.outcome = pay[q].outcome /\ r.tries = pay[q].tries
      /\ r.lost = pay[q].lost /\ r.paid = pay[q].paid + n
  BY <1>2
<1>4. [pay EXCEPT ![q].paid = @ + n] = [pay EXCEPT ![q] = r]
  BY DEF PayTyped
<1> HIDE DEF r
<1>5. r = [outcome |-> r.outcome, tries |-> r.tries, lost |-> r.lost, paid |-> r.paid]
  BY <1>3
<1>6. r \in [outcome : Outcome, tries : Nat, lost : Nat, paid : Nat]
  BY <1>2, <1>3, <1>5
<1> DEFINE more == [pay EXCEPT ![q] = r]
<1>7. more \in [Payment -> [outcome : Outcome, tries : Nat, lost : Nat, paid : Nat]]
      /\ more[q] = r /\ \A p \in Payment : p # q => more[p] = pay[p]
  BY <1>6 DEF PayTyped
<1> HIDE DEF more
<1> QED
  BY <1>3, <1>4, <1>7 DEF more

LEMMA AccountSettled ==
  ASSUME PayTyped, NEW q \in Payment, NEW outcome \in Outcome
  PROVE  /\ [pay EXCEPT ![q].outcome = outcome] \in
              [Payment -> [outcome : Outcome, tries : Nat, lost : Nat, paid : Nat]]
         /\ [pay EXCEPT ![q].outcome = outcome][q].paid = pay[q].paid
         /\ [pay EXCEPT ![q].outcome = outcome][q].lost = pay[q].lost
         /\ [pay EXCEPT ![q].outcome = outcome][q].outcome = outcome
         /\ \A p \in Payment : p # q => [pay EXCEPT ![q].outcome = outcome][p] = pay[p]
<1>1. pay[q] \in [outcome : Outcome, tries : Nat, lost : Nat, paid : Nat]
  BY DEF PayTyped
<1> DEFINE r == [pay[q] EXCEPT !.outcome = outcome]
           X == {"outcome", "tries", "lost", "paid"}
<1>2. /\ pay[q] = [x \in X |-> pay[q][x]]
      /\ pay[q].tries \in Nat /\ pay[q].lost \in Nat /\ pay[q].paid \in Nat
  BY <1>1
<1>3. /\ r = [x \in X |-> r[x]] /\ r.outcome = outcome /\ r.tries = pay[q].tries
      /\ r.lost = pay[q].lost /\ r.paid = pay[q].paid
  BY <1>2
<1>4. [pay EXCEPT ![q].outcome = outcome] = [pay EXCEPT ![q] = r]
  BY DEF PayTyped
<1> HIDE DEF r
<1>5. r = [outcome |-> r.outcome, tries |-> r.tries, lost |-> r.lost, paid |-> r.paid]
  BY <1>3
<1>6. r \in [outcome : Outcome, tries : Nat, lost : Nat, paid : Nat]
  BY <1>2, <1>3, <1>5
<1> DEFINE more == [pay EXCEPT ![q] = r]
<1>7. more \in [Payment -> [outcome : Outcome, tries : Nat, lost : Nat, paid : Nat]]
      /\ more[q] = r /\ \A p \in Payment : p # q => more[p] = pay[p]
  BY <1>6 DEF PayTyped
<1> HIDE DEF more
<1> QED
  BY <1>3, <1>4, <1>7 DEF more

\* An attempt is lost: its payment is tried again, or fails.
LEMMA AccountLost ==
  ASSUME PayInv, NEW d \in Process, NEW n \in Nat, local[d].awaited, Lose(d, n)
  PROVE  /\ PayTyped'
         /\ \E q \in Payment :
              /\ q = local[d].for
              /\ pay'[q].paid = pay[q].paid + n /\ pay'[q].lost = pay[q].lost + 1
              /\ pay'[q].outcome \in {"retry", "failed"}
              /\ \A p \in Payment : p # q => pay'[p] = pay[p]
<1> DEFINE q == local[d].for
           outcome == IF pay[q].tries < Tries THEN "retry" ELSE "failed"
           r == [outcome |-> outcome, tries |-> pay[q].tries, lost |-> pay[q].lost + 1,
                 paid |-> pay[q].paid + n]
<1>1. q \in Payment
  BY DEF PayInv, Engaged
<1>2. PayTyped
  BY DEF PayInv
<1>3. pay' = [pay EXCEPT ![q] = r]
  BY DEF Lose
<1>4. outcome \in {"retry", "failed"}
  OBVIOUS
<1> HIDE DEF outcome, q
<1>5. /\ pay[q].tries \in Nat /\ pay[q].lost \in Nat /\ pay[q].paid \in Nat
  BY <1>1, <1>2 DEF PayTyped
<1>6. /\ r \in [outcome : Outcome, tries : Nat, lost : Nat, paid : Nat]
      /\ r.paid = pay[q].paid + n /\ r.lost = pay[q].lost + 1 /\ r.outcome = outcome
  BY <1>4, <1>5 DEF Outcome
<1> HIDE DEF r
<1>7. /\ pay' \in [Payment -> [outcome : Outcome, tries : Nat, lost : Nat, paid : Nat]]
      /\ pay'[q] = r /\ \A p \in Payment : p # q => pay'[p] = pay[p]
  BY <1>1, <1>2, <1>3, <1>6 DEF PayTyped
<1> QED
  BY <1>1, <1>4, <1>6, <1>7 DEF PayTyped, q

\* A stray attempt pays after all.
LEMMA StrayPays ==
  ASSUME LocalInv, PayInv, NEW d \in Process, NEW l, local' = [local EXCEPT ![d] = l],
         ~ local[d].awaited, local[d].cmd = "send", local[d].pc = "build",
         ~ l.awaited, l.pc \in {"idle", "verify"}, l.for = local[d].for \/ l.pc = "idle",
         l.pc = "verify" => l.cmd = "send",
         pay' = [pay EXCEPT ![local[d].for].paid = @ + 1]
  PROVE  PayInv'
<1>1. PICK q \in Payment : q = local[d].for /\ PayTyped
  BY DEF PayInv, Engaged
<1>2. pay' = [pay EXCEPT ![q].paid = @ + 1]
  BY <1>1
<1>3. /\ PayTyped' /\ pay'[q].paid = pay[q].paid + 1 /\ pay'[q].lost = pay[q].lost
      /\ pay'[q].outcome = pay[q].outcome /\ \A p \in Payment : p # q => pay'[p] = pay[p]
  BY <1>1, <1>2, AccountChanged DEF PayTyped
<1>4. Engaged(l, pay')
  BY <1>1 DEF Engaged
<1>5. /\ \A p : Weight(l, p) = 0 /\ SentBy(local[d], p) = SentBy(l, p)
      /\ Weight(local[d], q) = 1
      /\ \A p : 0 <= Weight(local[d], p)
  BY <1>1 DEF Weight, Stray, SentBy
<1>6. ASSUME NEW p \in Payment PROVE Balanced(p)'
  <2>1. CASE p # q
    <3>1. /\ pay'[p] = pay[p] /\ Weight(l, p) <= Weight(local[d], p)
          /\ SentBy(local[d], p) = SentBy(l, p)
      BY <1>3, <1>5, <2>1
    <3> QED
      BY <3>1, BalanceKept
  <2>2. CASE p = q
    <3> DEFINE sent == pay[q].outcome = "done" \/ Sent(q)
    <3>0. Sent(q)' = Sent(q)
      BY <1>5, SentMove
    <3>1. sent \in BOOLEAN /\ (pay'[q].outcome = "done" \/ Sent(q)' <=> sent)
      BY <1>3, <3>0
    <3>2. pay[q].outcome = "done" \/ Sent(q) <=> sent
      OBVIOUS
    <3> HIDE DEF sent
    <3>3. pay[q].lost \in Nat /\ pay[q].paid \in Nat
      BY <1>1 DEF PayTyped
    <3>4. /\ pay[q].paid <= pay'[q].paid
          /\ (pay'[q].paid - pay[q].paid) + Weight(l, q) + (IF sent THEN 1 ELSE 0)
               <= (pay'[q].lost - pay[q].lost) + Weight(local[d], q) + (IF sent THEN 1 ELSE 0)
          /\ sent => sent
      BY <1>3, <1>5, <3>3
    <3>6. Balanced(q)'
      BY <1>1, <1>3, <3>1, <3>2, <3>4, BalanceChange
    <3> QED
      BY <2>2, <3>6
  <2> QED
    BY <2>1, <2>2
<1>7. \A p \in Payment : pay[p].outcome = "waiting" => pay'[p].outcome = "waiting"
  BY <1>3
<1> QED
  BY <1>3, <1>4, <1>6, <1>7, PayMove

\* The pool gives an attempt up: it becomes a stray, unless it has paid.
LEMMA GivenUp ==
  ASSUME LocalInv, PayInv, NEW d \in Process, NEW l, local' = [local EXCEPT ![d] = l],
         local[d].awaited, Lose(d, 0), ~ l.awaited,
         \A x \in {"cmd", "pc", "for"} : l[x] = local[d][x]
  PROVE  PayInv'
<1>0. l.cmd = local[d].cmd /\ l.pc = local[d].pc /\ l.for = local[d].for
  OBVIOUS
<1>1. PayTyped' /\ \E q \in Payment :
        /\ q = local[d].for
        /\ pay'[q].paid = pay[q].paid + 0 /\ pay'[q].lost = pay[q].lost + 1
        /\ pay'[q].outcome \in {"retry", "failed"}
        /\ \A p \in Payment : p # q => pay'[p] = pay[p]
  BY AccountLost
<1>2. PICK q \in Payment :
        /\ q = local[d].for
        /\ pay'[q].paid = pay[q].paid + 0 /\ pay'[q].lost = pay[q].lost + 1
        /\ pay'[q].outcome \in {"retry", "failed"}
        /\ \A p \in Payment : p # q => pay'[p] = pay[p]
  BY <1>1
<1>3. Engaged(l, pay') /\ local[d].cmd = "send" /\ local[d].pc # "idle"
      /\ pay[q].outcome = "waiting"
  BY <1>0, <1>2 DEF PayInv, Engaged
<1>4. ASSUME NEW p \in Payment, p # q PROVE Balanced(p)'
  <2>1. /\ pay'[p] = pay[p] /\ Weight(l, p) <= Weight(local[d], p)
        /\ SentBy(local[d], p) = SentBy(l, p)
    BY <1>0, <1>2, <1>4 DEF Weight, Stray, SentBy
  <2> QED
    BY <2>1, BalanceKept
<1>5. Balanced(q)'
  <2> DEFINE sent == local[d].pc = "verify"
  <2>1. Sent(q) = (local[d].pc = "verify") /\ ~ Sent(q)'
    BY <1>2, SentMove DEF SentBy
  <2>2. /\ sent \in BOOLEAN /\ FALSE \in BOOLEAN
        /\ pay[q].outcome = "done" \/ Sent(q) <=> sent
        /\ pay'[q].outcome = "done" \/ Sent(q)' <=> FALSE
    BY <1>2, <1>3, <2>1
  <2>3. Weight(local[d], q) = 0 /\ Weight(l, q) = IF sent THEN 0 ELSE 1
    BY <1>0, <1>2, <1>3 DEF Weight, Stray
  <2> HIDE DEF sent
  <2>4. pay[q].paid \in Nat /\ pay[q].lost \in Nat
    BY DEF PayInv, PayTyped
  <2>5. /\ pay[q].paid <= pay'[q].paid
        /\ (pay'[q].paid - pay[q].paid) + Weight(l, q) + (IF sent THEN 1 ELSE 0)
             <= (pay'[q].lost - pay[q].lost) + Weight(local[d], q) + (IF FALSE THEN 1 ELSE 0)
    BY <1>2, <2>3, <2>4
  <2> QED
    BY <1>1, <2>2, <2>5, BalanceChange
<1>6. \A p \in Payment : Balanced(p)'
  BY <1>4, <1>5
<1>7. \A p \in Payment : pay[p].outcome = "waiting" =>
        \/ pay'[p].outcome = "waiting"
        \/ local[d].awaited /\ local[d].for = p /\ ~ l.awaited
  BY <1>2
<1> QED
  BY <1>1, <1>3, <1>6, <1>7, PayMove

\* The attempt that the pool waits for pays.
LEMMA AwaitedPays ==
  ASSUME LocalInv, PayInv, NEW d \in Process, NEW l, local' = [local EXCEPT ![d] = l],
         local[d].awaited, local[d].pc = "build", l.pc = "verify",
         \A x \in {"cmd", "awaited", "for"} : l[x] = local[d][x],
         pay' = [pay EXCEPT ![local[d].for].paid = @ + 1]
  PROVE  PayInv'
<1>0. l.cmd = local[d].cmd /\ l.awaited = local[d].awaited /\ l.for = local[d].for
  OBVIOUS
<1>1. PICK q \in Payment : /\ q = local[d].for /\ PayTyped /\ pay[q].outcome = "waiting"
                           /\ local[d].cmd = "send"
  BY DEF PayInv, Engaged
<1>2. pay' = [pay EXCEPT ![q].paid = @ + 1]
  BY <1>1
<1>3. /\ PayTyped' /\ pay'[q].paid = pay[q].paid + 1 /\ pay'[q].lost = pay[q].lost
      /\ pay'[q].outcome = pay[q].outcome /\ \A p \in Payment : p # q => pay'[p] = pay[p]
  BY <1>1, <1>2, AccountChanged DEF PayTyped
<1>4. Engaged(l, pay')
  BY <1>0, <1>1, <1>3 DEF Engaged
<1>5. \A p : Weight(l, p) = 0 /\ Weight(local[d], p) = 0
  BY <1>0 DEF Weight, Stray
<1>6. ASSUME NEW p \in Payment, p # q PROVE Balanced(p)'
  <2>1. /\ pay'[p] = pay[p] /\ Weight(l, p) <= Weight(local[d], p)
        /\ SentBy(local[d], p) = SentBy(l, p)
    BY <1>0, <1>1, <1>3, <1>5, <1>6 DEF SentBy
  <2> QED
    BY <2>1, BalanceKept
<1>7. Balanced(q)'
  <2>1. ~ Sent(q) /\ Sent(q)'
    BY <1>0, <1>1, SentMove DEF SentBy
  <2>2. /\ FALSE \in BOOLEAN /\ TRUE \in BOOLEAN
        /\ pay[q].outcome = "done" \/ Sent(q) <=> FALSE
        /\ pay'[q].outcome = "done" \/ Sent(q)' <=> TRUE
    BY <1>1, <2>1
  <2>3. pay[q].paid \in Nat /\ pay[q].lost \in Nat
    BY <1>1 DEF PayTyped
  <2>4. /\ pay[q].paid <= pay'[q].paid
        /\ (pay'[q].paid - pay[q].paid) + Weight(l, q) + (IF FALSE THEN 1 ELSE 0)
             <= (pay'[q].lost - pay[q].lost) + Weight(local[d], q) + (IF TRUE THEN 1 ELSE 0)
        /\ pay'[q].paid >= 1
    BY <1>3, <1>5, <2>3
  <2> QED
    BY <1>3, <2>2, <2>4, BalanceChange
<1>8. \A p \in Payment : Balanced(p)'
  BY <1>6, <1>7
<1>9. \A p \in Payment : pay[p].outcome = "waiting" => pay'[p].outcome = "waiting"
  BY <1>3
<1> QED
  BY <1>0, <1>3, <1>4, <1>8, <1>9, PayMove

\* The pool makes a call, for the first time or again.
LEMMA BeginSendPay ==
  ASSUME LocalInv, PayInv, NEW d \in Process, NEW q \in Payment, BeginSend(d, q)
  PROVE  PayInv'
<1> DEFINE l == [Idle EXCEPT !.cmd = "send", !.pc = "load", !.for = q, !.awaited = TRUE]
           r == [pay[q] EXCEPT !.outcome = "waiting", !.tries = @ + 1]
           X == {"outcome", "tries", "lost", "paid"}
<1>1. /\ l.cmd = "send" /\ l.pc = "load" /\ l.for = q /\ l.awaited = TRUE
      /\ local' = [local EXCEPT ![d] = l]
      /\ local[d].pc = "idle" /\ pay[q].outcome \in {"none", "retry"}
      /\ pay' = [pay EXCEPT ![q].outcome = "waiting", ![q].tries = @ + 1]
  BY DEF BeginSend, Free, Idle
<1>2. PayTyped
  BY DEF PayInv
<1>3. pay' = [pay EXCEPT ![q] = r]
  BY <1>1, <1>2 DEF PayTyped
<1>4. /\ pay[q] = [x \in X |-> pay[q][x]]
      /\ pay[q].tries \in Nat /\ pay[q].lost \in Nat /\ pay[q].paid \in Nat
  BY <1>2 DEF PayTyped
<1>5. /\ r = [x \in X |-> r[x]] /\ r.outcome = "waiting" /\ r.tries = pay[q].tries + 1
      /\ r.lost = pay[q].lost /\ r.paid = pay[q].paid
  BY <1>4
<1> HIDE DEF l, r
<1>6. r = [outcome |-> r.outcome, tries |-> r.tries, lost |-> r.lost, paid |-> r.paid]
  BY <1>5
<1>7. r \in [outcome : Outcome, tries : Nat, lost : Nat, paid : Nat]
  BY <1>4, <1>5, <1>6 DEF Outcome
<1>8. PayTyped' /\ pay'[q] = r /\ \A p \in Payment : p # q => pay'[p] = pay[p]
  BY <1>2, <1>3, <1>7 DEF PayTyped
<1>9. ~ local[d].awaited /\ Engaged(l, pay')
  BY <1>1, <1>5, <1>8 DEF PayInv, Engaged
<1>10. \A p : /\ Weight(l, p) = 0 /\ Weight(local[d], p) = 0
              /\ SentBy(local[d], p) = SentBy(l, p)
  BY <1>1, <1>9 DEF Weight, Stray, SentBy
<1>11. ASSUME NEW p \in Payment, p # q PROVE Balanced(p)'
  <2>1. /\ pay'[p] = pay[p] /\ Weight(l, p) <= Weight(local[d], p)
        /\ SentBy(local[d], p) = SentBy(l, p)
    BY <1>8, <1>10, <1>11
  <2> QED
    BY <1>1, <2>1, BalanceKept
<1>12. Balanced(q)'
  <2>1. ~ Sent(q)
    <3> SUFFICES ASSUME NEW e \in Process, SentBy(local[e], q)
                 PROVE  FALSE
      BY DEF Sent
    <3> QED
      BY <1>1 DEF SentBy, PayInv, Engaged
  <2>2. Sent(q)' = Sent(q)
    BY <1>1, <1>10, SentMove
  <2>3. /\ FALSE \in BOOLEAN
        /\ pay[q].outcome = "done" \/ Sent(q) <=> FALSE
        /\ pay'[q].outcome = "done" \/ Sent(q)' <=> FALSE
    BY <1>1, <1>5, <1>8, <2>1, <2>2
  <2>4. /\ pay[q].paid <= pay'[q].paid
        /\ (pay'[q].paid - pay[q].paid) + Weight(l, q) + (IF FALSE THEN 1 ELSE 0)
             <= (pay'[q].lost - pay[q].lost) + Weight(local[d], q) + (IF FALSE THEN 1 ELSE 0)
    BY <1>4, <1>5, <1>8, <1>10
  <2> QED
    BY <1>1, <1>8, <2>3, <2>4, BalanceChange
<1>13. \A p \in Payment : Balanced(p)'
  BY <1>11, <1>12
<1>14. \A p \in Payment : pay[p].outcome = "waiting" => pay'[p].outcome = "waiting"
  BY <1>1, <1>5, <1>8
<1>15. pay[l.for].outcome # "waiting"
  BY <1>1
<1> QED
  BY <1>1, <1>8, <1>9, <1>13, <1>14, <1>15, PayMove

\* A step of a command ends it, unless it is a payment, or leads to its next one.
LEMMA StepPay ==
  ASSUME LocalInv, PayInv, NEW d \in Process, NEW l, local' = [local EXCEPT ![d] = l],
         pay' = pay, local[d].pc \notin {"idle", "verify"},
         \/ l = Idle /\ local[d].cmd # "send"
         \/ /\ l.cmd = local[d].cmd /\ l.for = local[d].for /\ l.awaited = local[d].awaited
            /\ l.pc \notin {"idle", "verify"} /\ (l.pc = "build" => l.cmd = "send")
  PROVE  PayInv'
<1>1. CASE l = Idle /\ local[d].cmd # "send"
  <2>1. ~ local[d].awaited /\ Disengaged(l)
    BY <1>1 DEF PayInv, Engaged, Disengaged, Idle
  <2> QED
    BY <2>1, Leaves
<1>2. CASE /\ l.cmd = local[d].cmd /\ l.for = local[d].for /\ l.awaited = local[d].awaited
           /\ l.pc \notin {"idle", "verify"} /\ (l.pc = "build" => l.cmd = "send")
  BY <1>2, GoesOn
<1> QED
  BY <1>1, <1>2

LEMMA BeginPay ==
  ASSUME LocalInv, PayInv, NEW d \in Process, NEW cmd \in Command \ {"send"}, Begin(d, cmd)
  PROVE  PayInv'
<1> DEFINE l == [Idle EXCEPT !.cmd = cmd, !.pc = "load"]
<1>1. /\ local[d].pc = "idle" /\ pay' = pay /\ local' = [local EXCEPT ![d] = l]
      /\ l.cmd = cmd /\ l.pc = "load" /\ l.awaited = FALSE
  BY DEF Begin, Free, Idle
<1> HIDE DEF l
<1>2. ~ local[d].awaited /\ Disengaged(l)
  BY <1>1 DEF PayInv, Engaged, Disengaged
<1> QED
  BY <1>1, <1>2, Leaves

LEMMA LoadCreatePay ==
  ASSUME LocalInv, PayInv, NEW d \in Process, LoadCreate(d)
  PROVE  PayInv'
<1>1. local[d].cmd = "create" /\ local[d].pc = "load" /\ pay' = pay /\ LocalOK(local[d])
  BY DEF LoadCreate, LocalInv
<1>2. CASE Exists
  <2>1. local' = [local EXCEPT ![d] = Idle]
    BY <1>2 DEF LoadCreate
  <2> QED
    BY <1>1, <2>1, StepPay
<1>3. CASE ~ Exists
  <2>1. PICK k \in Key : local' = [local EXCEPT ![d].pc = "truncate", ![d].base = file,
                                                ![d].key = k]
    BY <1>3 DEF LoadCreate
  <2> DEFINE l == [local[d] EXCEPT !.pc = "truncate", !.base = file, !.key = k]
  <2>2. /\ l.pc = "truncate" /\ l.cmd = local[d].cmd /\ l.for = local[d].for
        /\ l.awaited = local[d].awaited
    BY <1>1 DEF LocalOK, Fields
  <2>3. local' = [local EXCEPT ![d] = l]
    BY <2>1 DEF LocalInv
  <2> HIDE DEF l
  <2> QED
    BY <1>1, <2>2, <2>3, StepPay
<1> QED
  BY <1>2, <1>3

\* A command ends, and its caller learns how.
LEMMA FinishPay ==
  ASSUME LocalInv, PayInv, NEW d \in Process, NEW outcome \in {"done", "failed"},
         Finish(d, outcome), local[d].pc = "verify" <=> outcome = "done"
  PROVE  PayInv'
<1>1. local' = [local EXCEPT ![d] = Idle] /\ Disengaged(Idle)
  BY DEF Finish, Disengaged, Idle
<1>2. CASE ~ local[d].awaited
  <2>1. pay' = pay
    BY <1>2 DEF Finish
  <2> QED
    BY <1>1, <1>2, <2>1, Leaves
<1>3. CASE local[d].awaited
  <2>1. PICK q \in Payment : q = local[d].for /\ PayTyped
    BY <1>3 DEF PayInv, Engaged
  <2>2. pay' = [pay EXCEPT ![q].outcome = outcome] /\ outcome \in Outcome
    BY <1>3, <2>1 DEF Finish, Outcome
  <2>3. /\ PayTyped' /\ pay'[q].outcome = outcome
        /\ pay'[q].paid = pay[q].paid /\ pay'[q].lost = pay[q].lost
        /\ \A p \in Payment : p # q => pay'[p] = pay[p]
    BY <2>1, <2>2, AccountSettled DEF PayTyped
  <2>4. pay[q].paid \in Nat /\ pay[q].lost \in Nat /\ 0 \in {0, 1}
    BY <2>1 DEF PayTyped
  <2> DEFINE zero == 0
  <2>5. zero \in {0, 1} /\ zero <= zero /\ zero # 1 /\ zero = 0
    OBVIOUS
  <2>6. pay'[q].paid = pay[q].paid + zero /\ pay'[q].lost = pay[q].lost + zero
    BY <2>3, <2>4
  <2>7. pay'[q].outcome \in {"retry", "done", "failed"}
    BY <2>3
  <2> HIDE DEF zero
  <2> QED
    BY <1>1, <1>3, <2>1, <2>3, <2>5, <2>6, <2>7, AwaitedEnds
<1> QED
  BY <1>2, <1>3

LEMMA LoadPay ==
  ASSUME LocalInv, PayInv, NEW d \in Process, Load(d)
  PROVE  PayInv'
<1>1. local[d].cmd # "create" /\ local[d].pc = "load" /\ LocalOK(local[d])
  BY DEF Load, LocalInv
<1>2. CASE Whole(file)
  <2> DEFINE l == [local[d] EXCEPT !.pc = AfterLoad(local[d].cmd), !.base = file,
                                   !.key = file.key, !.from = file.checkpoint]
  <2>1. /\ pay' = pay
        /\ local' = [local EXCEPT ![d].pc = AfterLoad(local[d].cmd), ![d].base = file,
                                  ![d].key = file.key, ![d].from = file.checkpoint]
    BY <1>2 DEF Load
  <2>2. /\ l.pc = AfterLoad(local[d].cmd) /\ l.cmd = local[d].cmd /\ l.for = local[d].for
        /\ l.awaited = local[d].awaited
    BY <1>1 DEF LocalOK, Fields
  <2>3. local' = [local EXCEPT ![d] = l]
    BY <2>1 DEF LocalInv
  <2> HIDE DEF l
  <2>4. AfterLoad(local[d].cmd) \in {"blocks", "reload", "truncate"}
    BY <1>1 DEF LocalOK, AfterLoad, Command
  <2>5. l.pc \notin {"idle", "verify", "build"}
    BY <2>2, <2>4
  <2> QED
    BY <1>1, <2>1, <2>2, <2>3, <2>5, StepPay
<1>3. CASE ~ Whole(file)
  <2>1. Finish(d, "failed") /\ "failed" \in {"done", "failed"}
    BY <1>3 DEF Load
  <2> QED
    BY <1>1, <2>1, FinishPay
<1> QED
  BY <1>2, <1>3

LEMMA SyncPay ==
  ASSUME LocalInv, PayInv, NEW d \in Process, SyncBlocks(d) \/ SyncMempool(d)
  PROVE  PayInv'
<1>1. LocalOK(local[d]) /\ pay' = pay /\ local[d].pc \in {"blocks", "mempool"}
  BY DEF LocalInv, SyncBlocks, SyncMempool
<1>2. CASE SyncBlocks(d)
  <2> DEFINE pc == IF local[d].cmd = "send" THEN "mempool" ELSE "reload"
  <2>1. PICK seen : local' = [local EXCEPT ![d].pc = pc, ![d].seen = seen, ![d].top = tip,
                                           ![d].from = 0]
    BY <1>2 DEF SyncBlocks
  <2> DEFINE l == [local[d] EXCEPT !.pc = pc, !.seen = seen, !.top = tip, !.from = 0]
  <2>2. /\ l.pc = pc /\ l.cmd = local[d].cmd /\ l.for = local[d].for
        /\ l.awaited = local[d].awaited
    BY <1>1 DEF LocalOK, Fields
  <2>3. local' = [local EXCEPT ![d] = l]
    BY <2>1 DEF LocalInv
  <2> HIDE DEF l
  <2> QED
    BY <1>1, <2>2, <2>3, StepPay
<1>3. CASE SyncMempool(d)
  <2>1. PICK seen : local' = [local EXCEPT ![d].pc = "reload", ![d].seen = seen]
    BY <1>3 DEF SyncMempool
  <2> DEFINE l == [local[d] EXCEPT !.pc = "reload", !.seen = seen]
  <2>2. /\ l.pc = "reload" /\ l.cmd = local[d].cmd /\ l.for = local[d].for
        /\ l.awaited = local[d].awaited
    BY <1>1 DEF LocalOK, Fields
  <2>3. local' = [local EXCEPT ![d] = l]
    BY <2>1 DEF LocalInv
  <2> HIDE DEF l
  <2> QED
    BY <1>1, <2>2, <2>3, StepPay
<1> QED
  BY <1>2, <1>3

LEMMA AfterCheckpointPay ==
  ASSUME LocalInv, PayInv, NEW d \in Process, local[d].pc \in {"reload", "write"},
         AfterCheckpoint(d), pay' = pay
  PROVE  PayInv'
<1>1. LocalOK(local[d])
  BY DEF LocalInv
<1>2. CASE local[d].cmd # "send"
  <2>1. local' = [local EXCEPT ![d] = Idle]
    BY <1>2 DEF AfterCheckpoint
  <2> QED
    BY <1>2, <2>1, StepPay
<1>3. CASE local[d].cmd = "send" /\ NeedsRescan(d)
  <2> DEFINE l == [local[d] EXCEPT !.pc = "reload", !.rescan = "due"]
  <2>1. /\ l.pc = "reload" /\ l.cmd = local[d].cmd /\ l.for = local[d].for
        /\ l.awaited = local[d].awaited
    BY <1>1 DEF LocalOK, Fields
  <2>2. local' = [local EXCEPT ![d] = l]
    BY <1>3 DEF LocalInv, AfterCheckpoint
  <2> HIDE DEF l
  <2> QED
    BY <2>1, <2>2, StepPay
<1>4. CASE local[d].cmd = "send" /\ ~ NeedsRescan(d)
  <2> DEFINE l == [local[d] EXCEPT !.pc = "build", !.base = None]
  <2>1. /\ l.pc = "build" /\ l.cmd = local[d].cmd /\ l.for = local[d].for
        /\ l.awaited = local[d].awaited
    BY <1>1 DEF LocalOK, Fields
  <2>2. local' = [local EXCEPT ![d] = l]
    BY <1>4 DEF LocalInv, AfterCheckpoint
  <2> HIDE DEF l
  <2> QED
    BY <1>4, <2>1, <2>2, StepPay
<1> QED
  BY <1>2, <1>3, <1>4

LEMMA ReloadPay ==
  ASSUME LocalInv, PayInv, NEW d \in Process, Reload(d)
  PROVE  PayInv'
<1>1. LocalOK(local[d]) /\ local[d].pc = "reload"
  BY DEF LocalInv, Reload
<1>2. CASE Whole(file)
  <2> DEFINE l == [local[d] EXCEPT !.pc = "truncate", !.base = file]
  <2>1. /\ l.pc = "truncate" /\ l.cmd = local[d].cmd /\ l.for = local[d].for
        /\ l.awaited = local[d].awaited
    BY <1>1 DEF LocalOK, Fields
  <2>2. /\ local' = [local EXCEPT ![d].pc = "truncate", ![d].base = file]
        /\ pay' = pay
    BY <1>2 DEF Reload
  <2>3. local' = [local EXCEPT ![d] = l]
    BY <2>2 DEF LocalInv
  <2> HIDE DEF l
  <2> QED
    BY <1>1, <2>1, <2>2, <2>3, StepPay
<1>3. CASE ~ Whole(file) /\ local[d].rescan = "due"
  <2>1. Finish(d, "failed") /\ "failed" \in {"done", "failed"}
    BY <1>3 DEF Reload
  <2> QED
    BY <1>1, <2>1, FinishPay
<1>4. CASE ~ Whole(file) /\ local[d].rescan # "due"
  <2>1. AfterCheckpoint(d) /\ pay' = pay
    BY <1>4 DEF Reload
  <2> QED
    BY <1>1, <2>1, AfterCheckpointPay
<1> QED
  BY <1>2, <1>3, <1>4

LEMMA TruncatePay ==
  ASSUME LocalInv, PayInv, NEW d \in Process, Truncate(d)
  PROVE  PayInv'
<1> DEFINE l == [local[d] EXCEPT !.pc = "write"]
<1>1. LocalOK(local[d]) /\ local[d].pc = "truncate" /\ pay' = pay
  BY DEF LocalInv, Truncate
<1>2. /\ l.pc = "write" /\ l.cmd = local[d].cmd /\ l.for = local[d].for
      /\ l.awaited = local[d].awaited
  BY <1>1 DEF LocalOK, Fields
<1>3. local' = [local EXCEPT ![d] = l]
  BY DEF LocalInv, Truncate, Goto
<1> HIDE DEF l
<1> QED
  BY <1>1, <1>2, <1>3, StepPay

LEMMA WritePay ==
  ASSUME LocalInv, PayInv, NEW d \in Process, Write(d)
  PROVE  PayInv'
<1>1. LocalOK(local[d]) /\ local[d].pc = "write" /\ pay' = pay
  BY DEF LocalInv, Write
<1>2. CASE local[d].rescan = "due"
  <2>1. PICK key, from : local' = [local EXCEPT ![d].pc = "blocks", ![d].rescan = "done",
                                     ![d].base = None, ![d].seen = {}, ![d].top = 0,
                                     ![d].key = key, ![d].from = from]
    BY <1>2 DEF Write
  <2> DEFINE l == [local[d] EXCEPT !.pc = "blocks", !.rescan = "done", !.base = None, !.seen = {},
                                   !.top = 0, !.key = key, !.from = from]
  <2>2. /\ l.pc = "blocks" /\ l.cmd = local[d].cmd /\ l.for = local[d].for
        /\ l.awaited = local[d].awaited
    BY <1>1 DEF LocalOK, Fields
  <2>3. local' = [local EXCEPT ![d] = l]
    BY <2>1 DEF LocalInv
  <2> HIDE DEF l
  <2> QED
    BY <1>1, <2>2, <2>3, StepPay
<1>3. CASE local[d].rescan # "due"
  <2>1. AfterCheckpoint(d)
    BY <1>3 DEF Write
  <2> QED
    BY <1>1, <2>1, AfterCheckpointPay
<1> QED
  BY <1>2, <1>3

LEMMA EndPay ==
  ASSUME LocalInv, PayInv, NEW d \in Process, Refuse(d) \/ Conflict(d) \/ Verify(d)
  PROVE  PayInv'
<1>1. CASE Refuse(d) \/ Conflict(d)
  <2>1. Finish(d, "failed") /\ local[d].pc = "build" /\ "failed" \in {"done", "failed"}
    BY <1>1 DEF Refuse, Conflict
  <2> QED
    BY <2>1, FinishPay
<1>2. CASE Verify(d)
  <2>1. Finish(d, "done") /\ local[d].pc = "verify" /\ "done" \in {"done", "failed"}
    BY <1>2 DEF Verify, SendOutcome
  <2> QED
    BY <2>1, FinishPay
<1> QED
  BY <1>1, <1>2

\* The process that the pool waits for ends, and nobody learns how.
LEMMA LostPay ==
  ASSUME LocalInv, PayInv, NEW d \in Process, NEW n \in {0, 1}, Lose(d, n), local[d].awaited,
         local' = [local EXCEPT ![d] = Idle], n = 1 => local[d].pc # "verify"
  PROVE  PayInv'
<1>1. n \in Nat /\ Disengaged(Idle)
  BY DEF Disengaged, Idle
<1>2. PayTyped' /\ \E q \in Payment :
        /\ q = local[d].for
        /\ pay'[q].paid = pay[q].paid + n /\ pay'[q].lost = pay[q].lost + 1
        /\ pay'[q].outcome \in {"retry", "failed"}
        /\ \A p \in Payment : p # q => pay'[p] = pay[p]
  BY <1>1, AccountLost
<1>3. PICK q \in Payment :
        /\ q = local[d].for
        /\ pay'[q].paid = pay[q].paid + n /\ pay'[q].lost = pay[q].lost + 1
        /\ pay'[q].outcome \in {"retry", "failed"}
        /\ \A p \in Payment : p # q => pay'[p] = pay[p]
  BY <1>2
<1> DEFINE one == 1
<1>4. one \in {0, 1} /\ n <= one /\ one # 0
  OBVIOUS
<1>5. pay'[q].lost = pay[q].lost + one
  BY <1>3
<1>6. /\ pay'[q].outcome \in {"retry", "done", "failed"}
      /\ pay'[q].outcome # "done"
  BY <1>3
<1> HIDE DEF one
<1> QED
  BY <1>1, <1>2, <1>3, <1>4, <1>5, <1>6, AwaitedEnds

LEMMA BroadcastPay ==
  ASSUME LocalInv, PayInv, NEW d \in Process, Broadcast(d)
  PROVE  PayInv'
<1>1. LocalOK(local[d]) /\ local[d].pc = "build" /\ local[d].cmd = "send" /\ local[d].for \in Payment
  BY DEF LocalInv, PayInv, Engaged, Broadcast
<1>2. CASE /\ pay' = [pay EXCEPT ![local[d].for].paid = @ + 1]
           /\ Goto(d, "verify")
  <2> DEFINE l == [local[d] EXCEPT !.pc = "verify"]
  <2>1. /\ l.pc = "verify" /\ l.cmd = local[d].cmd /\ l.for = local[d].for
        /\ l.awaited = local[d].awaited
    BY <1>1 DEF LocalOK, Fields
  <2>2. local' = [local EXCEPT ![d] = l]
    BY <1>2 DEF LocalInv, Goto
  <2> HIDE DEF l
  <2>3. CASE local[d].awaited
    <3>1. \A x \in {"cmd", "awaited", "for"} : l[x] = local[d][x]
      BY <2>1
    <3> QED
      BY <1>1, <1>2, <2>1, <2>2, <2>3, <3>1, AwaitedPays
  <2>4. CASE ~ local[d].awaited
    BY <1>1, <1>2, <2>1, <2>2, <2>4, StrayPays
  <2> QED
    BY <2>3, <2>4
<1>3. CASE Lose(d, 1) /\ local' = [local EXCEPT ![d] = Idle]
  <2>1. CASE local[d].awaited
    BY <1>1, <1>3, <2>1, LostPay
  <2>2. CASE ~ local[d].awaited
    <3>1. pay' = [pay EXCEPT ![local[d].for].paid = @ + 1]
      BY <1>1, <1>3, <2>2 DEF Lose
    <3>2. ~ Idle.awaited /\ Idle.pc = "idle"
      BY DEF Idle
    <3> QED
      BY <1>1, <1>3, <2>2, <3>1, <3>2, StrayPays
  <2> QED
    BY <2>1, <2>2
<1> QED
  BY <1>2, <1>3 DEF Broadcast

\* The pool loses a process, which goes on or dies.
LEMMA LosePay ==
  ASSUME LocalInv, PayInv, NEW d \in Process, TimeOut(d) \/ Die(d)
  PROVE  PayInv'
<1>1. LocalOK(local[d]) /\ Lose(d, 0)
  BY DEF LocalInv, TimeOut, Die
<1>2. CASE TimeOut(d)
  <2> DEFINE l == [local[d] EXCEPT !.awaited = FALSE]
  <2>1. l.awaited = FALSE /\ l.cmd = local[d].cmd /\ l.pc = local[d].pc /\ l.for = local[d].for
    BY <1>1 DEF LocalOK, Fields
  <2>2. local' = [local EXCEPT ![d] = l] /\ local[d].awaited
    BY <1>2 DEF LocalInv, TimeOut
  <2> HIDE DEF l
  <2>3. \A x \in {"cmd", "pc", "for"} : l[x] = local[d][x]
    BY <2>1
  <2> QED
    BY <1>1, <2>1, <2>2, <2>3, GivenUp
<1>3. CASE Die(d)
  <2>1. local' = [local EXCEPT ![d] = Idle] /\ Disengaged(Idle)
    BY <1>3 DEF Die, Disengaged, Idle
  <2>2. CASE local[d].awaited
    <3> DEFINE n == 0
    <3>1. n \in {0, 1} /\ n # 1 /\ Lose(d, n)
      BY <1>1
    <3> HIDE DEF n
    <3> QED
      BY <2>1, <2>2, <3>1, LostPay
  <2>3. CASE ~ local[d].awaited
    <3>1. PayTyped
      BY DEF PayInv
    <3>2. ASSUME NEW q \in Payment, pay' = [pay EXCEPT ![q].paid = @ + 0] PROVE pay' = pay
      <4>1. pay[q].paid + 0 = pay[q].paid
        BY <3>1 DEF PayTyped
      <4> QED
        BY <3>1, <3>2, <4>1 DEF PayTyped
    <3>3. pay' = pay
      BY <1>1, <2>3, <3>2 DEF Lose
    <3> QED
      BY <2>1, <2>3, <3>3, Leaves
  <2> QED
    BY <2>2, <2>3
<1> QED
  BY <1>2, <1>3

LEMMA OutsidePay ==
  ASSUME PayInv, Deposit \/ Mine \/ UNCHANGED vars
  PROVE  PayInv'
<1>1. UNCHANGED <<local, pay>>
  BY DEF Deposit, Mine, vars
<1>2. \A p : Strays(p)' = Strays(p) /\ Sent(p)' = Sent(p)
  BY <1>1 DEF Strays, Sent
<1> QED
  BY <1>1, <1>2 DEF PayInv, PayTyped, Engaged, Balanced

LEMMA PayStep == LocalInv /\ PayInv /\ [Next]_vars => PayInv'
<1> SUFFICES ASSUME LocalInv, PayInv, [Next]_vars PROVE PayInv'
  OBVIOUS
<1>1. Daemon \subseteq Process
  BY DEF Process
<1>2. ASSUME NEW d \in Process, NEW cmd \in Command \ {"send"}, Begin(d, cmd) PROVE PayInv'
  BY <1>2, BeginPay
<1>3. ASSUME NEW d \in Daemon, NEW p \in Payment, BeginSend(d, p) PROVE PayInv'
  BY <1>1, <1>3, BeginSendPay
<1>4. ASSUME NEW d \in Process,
             \/ LoadCreate(d) \/ Load(d) \/ SyncBlocks(d) \/ SyncMempool(d) \/ Reload(d)
             \/ Truncate(d) \/ Write(d)
             \/ Refuse(d) \/ Broadcast(d) \/ Conflict(d) \/ Verify(d)
             \/ TimeOut(d) \/ Die(d)
      PROVE  PayInv'
  BY <1>4, LoadCreatePay, LoadPay, SyncPay, ReloadPay, TruncatePay, WritePay, BroadcastPay, EndPay,
     LosePay
<1> QED
  BY <1>2, <1>3, <1>4, OutsidePay DEF Next

LEMMA PayInit == Init => PayInv
<1> SUFFICES ASSUME Init PROVE PayInv
  OBVIOUS
<1>1. /\ \A d \in Process : local[d] = Idle
      /\ pay = [p \in Payment |-> [outcome |-> "none", tries |-> 0, lost |-> 0, paid |-> 0]]
  BY DEF Init
<1>2. Idle.pc = "idle" /\ ~ Idle.awaited
  BY DEF Idle
<1>3. PayTyped
  BY <1>1 DEF PayTyped, Outcome
<1>4. \A d \in Process : Engaged(local[d], pay)
  BY <1>1, <1>2 DEF Engaged
<1>5. ASSUME NEW p \in Payment PROVE Balanced(p)
  <2>1. Strays(p) = {} /\ ~ Sent(p)
    BY <1>1, <1>2 DEF Strays, Stray, Sent, SentBy
  <2>2. Cardinality(Strays(p)) = 0
    BY <2>1, FS_EmptySet
  <2>3. pay[p].paid = 0 /\ pay[p].lost = 0 /\ pay[p].outcome = "none"
    BY <1>1
  <2> QED
    BY <2>1, <2>2, <2>3 DEF Balanced, Balance
<1> QED
  BY <1>1, <1>2, <1>3, <1>4, <1>5 DEF PayInv

\* What a caller is told of a payment is what happened to its money: "failed" leaves no
\* transaction behind but those of attempts whose outcome was never known, and "done"
\* stands for one transaction besides those, whatever is lost, given up, tried again or
\* killed in between (veiled_wallet.rs: handle_send).
THEOREM PaymentsAsTold == Spec => []PaidAsTold
<1>1. PayInv => PaidAsTold
  <2> SUFFICES ASSUME PayInv, NEW p \in Payment
               PROVE  /\ pay[p].outcome \in {"none", "retry", "failed"} => pay[p].paid <= pay[p].lost
                      /\ pay[p].outcome \in {"waiting", "done"} => pay[p].paid <= pay[p].lost + 1
                      /\ pay[p].outcome = "done" => pay[p].paid >= 1
    BY DEF PaidAsTold
  <2>1. /\ pay[p].paid \in Nat /\ pay[p].lost \in Nat /\ Balanced(p)
    BY DEF PayInv, PayTyped
  <2>2. pay[p].outcome # "waiting" => ~ Sent(p)
    BY DEF PayInv, Engaged, Sent, SentBy
  <2>3. Cardinality(Strays(p)) \in Nat
    <3>1. IsFiniteSet(Process) /\ Strays(p) \subseteq Process
      BY DaemonAssumption, FS_AddElement DEF Process, Strays
    <3> QED
      BY <3>1, FS_Subset, FS_CardinalityType
  <2> DEFINE strays == Cardinality(Strays(p))
             sent == pay[p].outcome = "done" \/ Sent(p)
  <2>4. Balance(pay[p].paid, pay[p].lost, strays, sent) /\ strays \in Nat
    BY <2>1, <2>3 DEF Balanced
  <2>5. pay[p].outcome \in {"none", "retry", "failed"} => ~ sent
    BY <2>2
  <2>6. pay[p].outcome = "done" => sent
    OBVIOUS
  <2> HIDE DEF strays, sent
  <2> QED
    BY <2>1, <2>4, <2>5, <2>6 DEF Balance
<1>2. LocalInv /\ PayInv /\ [Next]_vars => PayInv'
  BY PayStep
<1>3. WalletInv => LocalInv
  BY DEF WalletInv
<1> QED
  BY WalletCorrect, PayInit, <1>1, <1>2, <1>3, PTL DEF Spec
===============================================================================
