------------------------------ MODULE WalletSync ------------------------------
(***************************************************************************)
(* One wallet file and the commands that work on it:                       *)
(* src/bin/veiled_wallet.rs, called by ui/lib/wallet.ts, and the reset     *)
(* route of the web application, which rewrites the same file.             *)
(*                                                                         *)
(* Nothing locks the file.  A command reads it when it begins, talks to    *)
(* the node, reads it again and writes it whole; fs::write empties the     *)
(* file first and fills it then.  Two processes may be at work: the pool   *)
(* can lose sight of a process that goes on with its command (the exit of  *)
(* an older one forgets the newer one), and may give a call up and make it *)
(* again.  A process may be killed between any two steps.                  *)
(*                                                                         *)
(* The wallet library keeps nothing between commands: a command knows only *)
(* the outputs in blocks above the checkpoint it read and in the mempool.  *)
(* Addresses are a key and an index, amounts small numbers without fees,   *)
(* the balance that the file caches is left out.                           *)
(***************************************************************************)
EXTENDS Integers, Sequences, FiniteSets, SequencesExt, FiniteSetsExt

CONSTANTS Key,        \* the mnemonics that may be drawn, each once
          Daemon,     \* the veiled-wallet processes
          App,        \* the web application, as a writer of the file
          Payment,    \* the calls of "send" that the application makes
          None, Torn, \* no file, no daemon; a file that does not parse
          Value,      \* what others may pay to the wallet
          Amount,     \* what a payment sends
          MaxCoins, MaxHeight, MaxIndex, \* bounds on outputs, blocks and addresses
          MaxBusy,    \* bound on the processes that work on the file at once
          Tries       \* how often the pool makes a call

ASSUME WriterAssumption == App \notin Daemon /\ None \notin Daemon \union Key /\ None # Torn
ASSUME DaemonAssumption == IsFiniteSet(Daemon)
ASSUME AmountAssumption == Value \subseteq Nat \ {0} /\ Amount \in Nat \ {0}
ASSUME BoundAssumption == /\ MaxCoins \in Nat /\ MaxHeight \in Nat
                          /\ MaxIndex \in Nat /\ MaxBusy \in Nat /\ Tries \in Nat \ {0}

VARIABLES
  file,   \* the wallet file: None, Torn or a WalletState
  local,  \* what each process is doing and has in memory
  coins,  \* every output of the wallet's keys that was ever broadcast
  tip,    \* the height of the node's chain
  told,   \* the addresses that callers were given
  pay,    \* the payments
  calm    \* history: every save so far replaced the file that it had read, whole

vars == <<file, local, coins, tip, told, pay, calm>>
-----------------------------------------------------------------------------
Process == Daemon \union {App}

\* What is kept of a WalletState; checkpoint 0 stands for none, or for genesis.
WalletState == [key : Key, index : 0 .. MaxIndex, checkpoint : 0 .. MaxHeight]

ASSUME FileAssumption == {None, Torn} \intersect WalletState = {}

Whole(f) == f \notin {None, Torn}

\* An output: in the mempool at height 0; spent at the height of the spending
\* transaction, 0 in the mempool, Unspent when there is none.
Unspent == -1
Coin == [key : Key, value : Nat, height : 0 .. MaxHeight, spent : -1 .. MaxHeight]

Command == {"create", "address", "balance", "fast", "reset", "send"}

\* The steps of a command between which others get to work.
Step == {"idle", "load", "blocks", "mempool", "reload", "truncate", "write", "build", "verify"}

\* A process: its command and step; the payment it works for, and whether the pool
\* still waits for it; the file as it read it last; the key of the wallet it
\* recreated and the checkpoint it resumes from; for a payment, the coins that the
\* wallet sees; how far it has read the chain; the rescan.
Idle == [cmd |-> None, pc |-> "idle", for |-> None, awaited |-> FALSE, base |-> None,
         key |-> None, from |-> 0, seen |-> {}, top |-> 0, rescan |-> "no"]

Init ==
  /\ file = None
  /\ local = [d \in Process |-> Idle]
  /\ coins = << >>
  /\ tip = 0
  /\ told = {}
  /\ pay = [p \in Payment |-> [outcome |-> "none", tries |-> 0, lost |-> 0, paid |-> 0]]
  /\ calm = TRUE

KeysDrawn == {local[d].key : d \in Daemon} \union {a[1] : a \in told}
               \union (IF Whole(file) THEN {file.key} ELSE {})
-----------------------------------------------------------------------------
Total(seen) == MapThenSumSet(LAMBDA i : coins[i].value, seen)

Goto(d, pc) == local' = [local EXCEPT ![d].pc = pc]

\* An attempt of a payment ends without its outcome being known; the pool makes the
\* call again, or gives up.
Lose(d, paid) ==
  pay' = IF local[d].awaited
           THEN [pay EXCEPT ![local[d].for] =
                   [outcome |-> IF @.tries < Tries THEN "retry" ELSE "failed",
                    tries |-> @.tries, lost |-> @.lost + 1, paid |-> @.paid + paid]]
           ELSE IF local[d].for \in Payment
                  THEN [pay EXCEPT ![local[d].for].paid = @ + paid] ELSE pay

\* A command ends, and the pool hands its outcome to the caller that waits for it.
Finish(d, outcome) ==
  /\ local' = [local EXCEPT ![d] = Idle]
  /\ pay' = IF local[d].awaited THEN [pay EXCEPT ![local[d].for].outcome = outcome] ELSE pay
-----------------------------------------------------------------------------
\* A process without a command, while fewer than MaxBusy others have one.
Free(d) ==
  /\ local[d].pc = "idle"
  /\ Cardinality({e \in Process : local[e].pc # "idle"}) < MaxBusy

\* dispatch: a process takes up a command other than a payment.
Begin(d, cmd) ==
  /\ Free(d)
  /\ (cmd = "reset") = (d = App)
  /\ local' = [local EXCEPT ![d] = [Idle EXCEPT !.cmd = cmd, !.pc = "load"]]
  /\ UNCHANGED <<file, coins, tip, told, pay, calm>>

\* dispatch of "send", for the first attempt of a call or for its next one.
BeginSend(d, p) ==
  /\ d \in Daemon
  /\ Free(d)
  /\ pay[p].outcome \in {"none", "retry"}
  /\ pay' = [pay EXCEPT ![p].outcome = "waiting", ![p].tries = @ + 1]
  /\ local' = [local EXCEPT ![d] = [Idle EXCEPT !.cmd = "send", !.pc = "load", !.for = p,
                                            !.awaited = TRUE]]
  /\ UNCHANGED <<file, coins, tip, told, calm>>

\* Mutant: a wallet is created whatever there is.
ExistsNever == FALSE

\* handle_create_wallet: the file can be read and is returned.
Exists == Whole(file)

\* load_state in handle_create_wallet; a file that does not parse counts as none.
LoadCreate(d) ==
  /\ local[d].cmd = "create" /\ local[d].pc = "load"
  /\ IF Exists
       THEN /\ told' = told \union {<<file.key, file.index>>}
            /\ local' = [local EXCEPT ![d] = Idle]
       ELSE \E k \in Key \ KeysDrawn :
              /\ local' = [local EXCEPT ![d].pc = "truncate", ![d].base = file,
                                        ![d].key = k]
              /\ UNCHANGED told
  /\ UNCHANGED <<file, coins, tip, pay, calm>>

\* Where a command goes once it has read the file and recreated the wallet.
AfterLoad(cmd) == CASE cmd \in {"balance", "send"} -> "blocks"
                    [] cmd = "fast" -> "reload"
                    [] cmd \in {"address", "reset"} -> "truncate"

\* load_state and recreate_wallet at the head of the other commands, and the read
\* of the reset route, which skips a file that does not parse.
Load(d) ==
  /\ local[d].cmd # "create" /\ local[d].pc = "load"
  /\ IF Whole(file)
       THEN /\ local[d].cmd = "address" => file.index < MaxIndex
            /\ local' = [local EXCEPT ![d].pc = AfterLoad(local[d].cmd), ![d].base = file,
                                      ![d].key = file.key, ![d].from = file.checkpoint]
            /\ UNCHANGED <<file, coins, tip, told, pay, calm>>
       ELSE Finish(d, "failed") /\ UNCHANGED <<file, coins, tip, told, calm>>
-----------------------------------------------------------------------------
\* sync_wallet, its blocks: what they hold above the checkpoint, up to the tip.
SyncBlocks(d) ==
  LET Found(c) == /\ c.key = local[d].key
                  /\ local[d].from < c.height /\ c.height <= tip
                  /\ c.spent \notin 1 .. tip
      paying == local[d].cmd = "send"
  IN  /\ local[d].pc = "blocks"
      /\ local' = [local EXCEPT
           ![d].pc = IF paying THEN "mempool" ELSE "reload",
           ![d].seen = IF paying THEN {i \in DOMAIN coins : Found(coins[i])} ELSE {},
           ![d].top = tip,
           ![d].from = 0]
      /\ UNCHANGED <<file, coins, tip, told, pay, calm>>

\* sync_wallet, the mempool: what is unconfirmed, less what it spends.
SyncMempool(d) ==
  LET Added == {i \in DOMAIN coins : coins[i].key = local[d].key /\ coins[i].height = 0}
      Gone == {i \in DOMAIN coins : coins[i].spent = 0}
  IN  /\ local[d].pc = "mempool"
      /\ local' = [local EXCEPT ![d].pc = "reload", ![d].seen = (@ \union Added) \ Gone]
      /\ UNCHANGED <<file, coins, tip, told, pay, calm>>

\* handle_send: no funds were seen and the chain was not yet read from genesis.
NeedsRescan(d) == local[d].rescan = "no" /\ Total(local[d].seen) = 0

\* Where a command goes after save_checkpoint, whose errors a payment ignores.
AfterCheckpoint(d) ==
  IF local[d].cmd # "send"
    THEN local' = [local EXCEPT ![d] = Idle]
    ELSE IF NeedsRescan(d)
           THEN local' = [local EXCEPT ![d].pc = "reload", ![d].rescan = "due"]
           ELSE local' = [local EXCEPT ![d].pc = "build", ![d].base = None]

\* load_state in save_checkpoint, in handle_get_balance and in
\* handle_get_balance_fast, and the one before the rescan, whose error ends a payment.
Reload(d) ==
  /\ local[d].pc = "reload"
  /\ CASE Whole(file) ->
            /\ local' = [local EXCEPT ![d].pc = "truncate", ![d].base = file]
            /\ UNCHANGED pay
       [] ~Whole(file) /\ local[d].rescan = "due" -> Finish(d, "failed")
       [] OTHER -> AfterCheckpoint(d) /\ UNCHANGED pay
  /\ UNCHANGED <<file, coins, tip, told, calm>>
-----------------------------------------------------------------------------
\* What a command writes: the file it read last, but for what it changes.
Draft(d) ==
  LET l == local[d]
  IN  CASE l.cmd = "create" -> [key |-> l.key, index |-> 0, checkpoint |-> 0]
        [] l.cmd = "address" -> [l.base EXCEPT !.index = @ + 1]
        [] l.cmd = "fast" -> l.base
        [] l.cmd = "reset" -> [l.base EXCEPT !.checkpoint = 0]
        [] l.cmd \in {"balance", "send"} ->
             [l.base EXCEPT !.checkpoint = IF l.rescan = "due" THEN 0 ELSE l.top]

\* save_state, File::create: the file is empty.
Truncate(d) ==
  /\ local[d].pc = "truncate"
  /\ calm' = (calm /\ file = local[d].base /\ file # Torn)
  /\ file' = Torn
  /\ Goto(d, "write")
  /\ UNCHANGED <<coins, tip, told, pay>>

\* Mutant: the rescan takes the state that was read first, checkpoint and all.
RescannedOld(d) == local[d].base

\* recreate_wallet before the rescan: from the state with its checkpoint cleared.
Rescanned(d) == Draft(d)

\* Mutant: the index of a new address is not kept.
WrittenOldIndex(d) == IF local[d].cmd = "address" THEN local[d].base ELSE Draft(d)

\* Mutant: the checkpoint is the block that comes next.
WrittenNextHeight(d) ==
  IF local[d].cmd = "balance" THEN [Draft(d) EXCEPT !.checkpoint = @ + 1] ELSE Draft(d)

Written(d) == Draft(d)

\* save_state, write_all, and what the command does then: create-wallet and
\* get-address answer, the others end, and a payment goes on.
Write(d) ==
  /\ local[d].pc = "write"
  /\ calm' = (calm /\ file = Torn)
  /\ file' = Written(d)
  /\ told' = IF local[d].cmd \in {"create", "address"}
               THEN told \union {<<Draft(d).key, Draft(d).index>>} ELSE told
  /\ IF local[d].rescan = "due"
       THEN local' = [local EXCEPT ![d].pc = "blocks", ![d].rescan = "done", ![d].base = None,
                                   ![d].seen = {}, ![d].top = 0,
                                   ![d].key = Rescanned(d).key,
                                   ![d].from = Rescanned(d).checkpoint]
       ELSE AfterCheckpoint(d)
  /\ UNCHANGED <<coins, tip, pay>>
-----------------------------------------------------------------------------
\* handle_send: what is in sight does not suffice.
Refuse(d) ==
  /\ local[d].pc = "build"
  /\ Total(local[d].seen) < Amount
  /\ Finish(d, "failed")
  /\ UNCHANGED <<file, coins, tip, told, calm>>

\* The coins after a transaction that spends some of them, with change to key k.
Spending(inputs, k) ==
  LET change == Total(inputs) - Amount
  IN  [i \in DOMAIN coins |-> IF i \in inputs THEN [coins[i] EXCEPT !.spent = 0] ELSE coins[i]]
        \o IF change = 0 THEN << >>
           ELSE <<[key |-> k, value |-> change, height |-> 0, spent |-> Unspent]>>

\* handle_send, send_raw_transaction: the node takes a transaction none of whose
\* inputs is spent.  Its answer may be lost: then the command fails, and the pool
\* makes the call again when the error speaks of a time-out.
Broadcast(d) ==
  /\ local[d].pc = "build"
  /\ \E inputs \in SUBSET local[d].seen :
       /\ Total(inputs) >= Amount
       /\ \A i \in inputs : coins[i].spent = Unspent
       /\ coins' = Spending(inputs, local[d].key)
  /\ Len(coins') <= MaxCoins
  /\ \/ /\ pay' = [pay EXCEPT ![local[d].for].paid = @ + 1]
        /\ Goto(d, "verify")
     \/ /\ Lose(d, 1)
        /\ local' = [local EXCEPT ![d] = Idle]
  /\ UNCHANGED <<file, tip, told, calm>>

\* handle_send, send_raw_transaction: another transaction has an input already.
Conflict(d) ==
  /\ local[d].pc = "build"
  /\ \E inputs \in SUBSET local[d].seen :
       /\ Total(inputs) >= Amount
       /\ \E i \in inputs : coins[i].spent # Unspent
  /\ Finish(d, "failed")
  /\ UNCHANGED <<file, coins, tip, told, calm>>

\* Mutant: a transaction that the node does not show is an error.
CheckedOutcome(shown) == IF shown THEN "done" ELSE "failed"

\* handle_send after getrawtransaction: its error is only a warning.
SendOutcome(shown) == "done"

Verify(d) ==
  /\ local[d].pc = "verify"
  /\ \E shown \in BOOLEAN : Finish(d, SendOutcome(shown))
  /\ UNCHANGED <<file, coins, tip, told, calm>>
-----------------------------------------------------------------------------
\* The pool gives an attempt up; the process goes on with it.
TimeOut(d) ==
  /\ local[d].awaited
  /\ local' = [local EXCEPT ![d].awaited = FALSE]
  /\ Lose(d, 0)
  /\ UNCHANGED <<file, coins, tip, told, calm>>

\* A process dies.  What it has emptied stays empty.
Die(d) ==
  /\ local[d].pc # "idle"
  /\ local' = [local EXCEPT ![d] = Idle]
  /\ Lose(d, 0)
  /\ UNCHANGED <<file, coins, tip, told, calm>>

\* Somebody pays to an address that a caller was given.
Deposit ==
  /\ Len(coins) < MaxCoins
  /\ \E a \in told, v \in Value :
       coins' = Append(coins, [key |-> a[1], value |-> v, height |-> 0, spent |-> Unspent])
  /\ UNCHANGED <<file, local, tip, told, pay, calm>>

\* A block takes what is in the mempool.
Mine ==
  /\ tip < MaxHeight
  /\ tip' = tip + 1
  /\ coins' = [i \in DOMAIN coins |->
                 [coins[i] EXCEPT !.height = IF @ = 0 THEN tip + 1 ELSE @,
                                  !.spent = IF @ = 0 THEN tip + 1 ELSE @]]
  /\ UNCHANGED <<file, local, told, pay, calm>>

Next ==
  \/ \E d \in Process, cmd \in Command \ {"send"} : Begin(d, cmd)
  \/ \E d \in Daemon, p \in Payment : BeginSend(d, p)
  \/ \E d \in Process :
       \/ LoadCreate(d) \/ Load(d) \/ SyncBlocks(d) \/ SyncMempool(d) \/ Reload(d)
       \/ Truncate(d) \/ Write(d)
       \/ Refuse(d) \/ Broadcast(d) \/ Conflict(d) \/ Verify(d)
       \/ TimeOut(d) \/ Die(d)
  \/ Deposit \/ Mine

Spec == Init /\ [][Next]_vars
-----------------------------------------------------------------------------
\* Every variable keeps its type.
TypeOK ==
  /\ file \in {None, Torn} \union WalletState
  /\ \A d \in Process :
       /\ local[d].cmd \in Command \union {None} /\ local[d].pc \in Step
       /\ local[d].for \in Payment \union {None} /\ local[d].awaited \in BOOLEAN
       /\ local[d].base \in {None, Torn} \union WalletState
       /\ local[d].key \in {None} \union Key /\ local[d].from \in 0 .. MaxHeight
       /\ local[d].seen \subseteq DOMAIN coins /\ local[d].top \in 0 .. MaxHeight
       /\ local[d].rescan \in {"no", "due", "done"}
  /\ coins \in Seq(Coin) /\ Len(coins) <= MaxCoins
  /\ tip \in 0 .. MaxHeight
  /\ told \subseteq Key \X (0 .. MaxIndex)
  /\ calm \in BOOLEAN

\* What a caller is told of a payment is what happened to its money, however often
\* the pool made the call and whatever the other processes did: "failed" leaves no
\* transaction behind but those of attempts whose outcome was never known, and
\* "done" stands for one transaction besides those.  (handle_send: after the
\* broadcast nothing is an error any more.)
PaidAsTold ==
  \A p \in Payment :
    /\ pay[p].outcome \in {"none", "retry", "failed"} => pay[p].paid <= pay[p].lost
    /\ pay[p].outcome \in {"waiting", "done"} => pay[p].paid <= pay[p].lost + 1
    /\ pay[p].outcome = "done" => pay[p].paid >= 1

\* A payment that is about to be refused because no coin is in sight has overlooked
\* none: no unspent output of its wallet lies in the part of the chain it has read,
\* however far above the outputs the checkpoint was when it began.  (handle_send:
\* the rescan from genesis.)
RescanBeforeRefusal ==
  \A d \in Daemon :
    local[d].pc = "build" /\ local[d].seen = {} =>
      ~ \E i \in DOMAIN coins : /\ coins[i].key = local[d].key
                                /\ coins[i].height \in 1 .. local[d].top
                                /\ coins[i].spent = Unspent

\* The address that a caller was given stays one of the wallet in the file, so that
\* money sent to it can be spent, as long as no two writers of the file got between
\* each other's read and write and none died while writing.  (handle_create_wallet:
\* an existing wallet is returned, never replaced.)
KeysKept == calm /\ Whole(file) => \A a \in told : a[1] = file.key

\* Under the same condition get-address gives no address out twice, whichever
\* process serves it and whatever the other commands wrote back in between.
\* (handle_get_address: the index is saved before the address is returned.)
AddressesFresh ==
  [][\A d \in Daemon :
       local[d].cmd = "address" /\ local[d].pc = "write" /\ local'[d].cmd = None /\ calm'
         /\ file' # file /\ Whole(file')
         => told' # told]_vars
=============================================================================
