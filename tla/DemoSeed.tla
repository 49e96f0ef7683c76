------------------------------ MODULE DemoSeed ------------------------------
(***************************************************************************)
(* bootstrap_demo_users.py: reach the database, through a port-forward if  *)
(* need be, create the tables, then seed users, payments, incidents and    *)
(* articles, each phase in a transaction of its own.                       *)
(*                                                                         *)
(* The script is run again, and by two people at once. A row that an open  *)
(* transaction has written makes any other that writes its key wait, and   *)
(* so does a table that it indexes or writes. A phase is a loop over       *)
(* items, one statement each.                                              *)
(***************************************************************************)
EXTENDS Naturals, Sequences, Functions

CONSTANTS
    Runs,       \* the runs of the script
    Drawn,      \* the addresses seed_users draws; the seed makes them the same in each run
    Total,      \* the payments of a run
    Resolves,   \* whether the DNS name of the service resolves
    None,       \* no run
    Faults      \* which parts of the environment may fail in this instance

ASSUME DemoConstants ==
    /\ None \notin Runs
    /\ Drawn \in Seq(STRING)
    /\ Total \in Nat \ {0}
    /\ Resolves \in BOOLEAN
    /\ Faults \subseteq {"database", "network", "interrupt"}

VARIABLES
    run,        \* each run: where it is, the item it is at, what it knows
    rows,       \* the committed rows
    tx,         \* the rows of each run's open transaction
    forward     \* the run whose port-forward listens on localhost:5432

vars == <<run, rows, tx, forward>>

Loop == [tables |-> <<"users", "idx_users_tier", "payments", "idx_payments_user",
                      "user_incidents", "knowledge_articles">>,
         users |-> Drawn, payments |-> [i \in 1 .. Total |-> i],
         incidents |-> <<"INC1001", "INC1002">>, knowledge |-> <<1, 2, 3, 4>>]

\* The items of "tables" that are indexes, each with the phase that writes its table.
Indexed == [i \in {2, 4} |-> IF i = 2 THEN "users" ELSE "payments"]

NextPhase == [tables |-> "users", users |-> "select", payments |-> "incidents",
              incidents |-> "knowledge", knowledge |-> "stop"]

Ended == {"complete", "failed", "interrupted"}
Pcs == DOMAIN Loop \cup {"idle", "connect", "select", "stop"} \cup Ended

\* looked: a CREATE has found no table; users: what SELECT returned; via: whose
\* port-forward carries the connections; ends: how the run ends.
Started(via) == [pc |-> "connect", item |-> 1, looked |-> FALSE, users |-> {}, via |-> via,
                 ends |-> "failed"]

Init ==
    /\ run = [r \in Runs |-> [Started(None) EXCEPT !.pc = "idle"]]
    /\ rows = {}
    /\ tx = [r \in Runs |-> {}]
    /\ forward = None

Go(r, from, to) ==
    /\ run[r].pc = from
    /\ run' = [run EXCEPT ![r].pc = to, ![r].item = 1, ![r].looked = FALSE]

Connected(r) == Resolves \/ (forward # None /\ run[r].via = forward)

----------------------------------------------------------------------------
(* Reaching the database.                                                  *)

\* start_port_forward: kubectl binds the port or dies because another has it; either way
\* wait_for_port finds that something listens.
StartPortForward(r) ==
    /\ run[r].pc = "idle"
    /\ forward' = IF Resolves \/ forward # None THEN forward ELSE r
    /\ run' = [run EXCEPT ![r] = Started(forward')]
    /\ UNCHANGED <<rows, tx>>

\* The port never listens: the process group is killed, SystemExit.
PortForwardFails(r) ==
    /\ "network" \in Faults /\ ~Resolves
    /\ Go(r, "idle", "failed")
    /\ UNCHANGED <<rows, tx, forward>>

Connect(r) ==
    /\ Connected(r)
    /\ Go(r, "connect", "tables")
    /\ UNCHANGED <<rows, tx, forward>>

\* stop_port_forward kills a process of its own, if that is alive.
Stopped(r) == IF forward = r THEN None ELSE forward

\* Variant: the clean-up is left to the finally, which is not reached.
ConnectFailsAtOnce(r) ==
    /\ ~Connected(r) \/ "database" \in Faults
    /\ Go(r, "connect", "failed")
    /\ UNCHANGED <<rows, tx, forward>>

\* try_connect gives up after max_wait: stop_port_forward, SystemExit.
ConnectFails(r) ==
    /\ ~Connected(r) \/ "database" \in Faults
    /\ Go(r, "connect", "failed")
    /\ forward' = Stopped(r)
    /\ UNCHANGED <<rows, tx>>

\* A kill, or Ctrl-C before the try or in its finally, where it is no Exception: the
\* script ends, the server rolls back, and the port-forward, in a session of its own,
\* goes on.
Interrupt(r) ==
    /\ "interrupt" \in Faults
    /\ run[r].pc \notin Ended \cup {"idle"}
    /\ Go(r, run[r].pc, "interrupted")
    /\ tx' = [tx EXCEPT ![r] = {}]
    /\ UNCHANGED <<rows, forward>>

----------------------------------------------------------------------------
(* Seeding.                                                                *)

\* Variant: an order of its own for one of the runs, as of a set of addresses.
ItemAt(r) == LET loop == Loop[run[r].pc]
             IN loop[IF r = CHOOSE s \in Runs : TRUE THEN Len(loop) + 1 - run[r].item
                                                     ELSE run[r].item]

Item(r) == Loop[run[r].pc][run[r].item]

\* The key of an item's row; payments and articles have a uuid4, which is like no other.
Key(r, phase, item) == IF phase \in {"payments", "knowledge"} THEN <<item, r>> ELSE item

InLoop(r) == run[r].pc \in DOMAIN Loop /\ run[r].item <= Len(Loop[run[r].pc])

NewRow(r) == [table |-> run[r].pc, key |-> Key(r, run[r].pc, Item(r)), by |-> r]

SameKey(row, new) == row.table = new.table /\ row.key = new.key

Holders(r) == {s \in Runs \ {r} : \E row \in tx[s] : SameKey(row, NewRow(r))}

\* CREATE INDEX keeps a SHARE lock on its table to the end of its transaction, the index
\* being there or not; it waits for the transactions that write the table, and the first
\* of their statements waits for it.
HasIndexed(s, phase) ==
    run[s].pc = "tables" /\ \E i \in DOMAIN Indexed : i < run[s].item /\ Indexed[i] = phase

HasWritten(s, phase) == run[s].pc = phase /\ run[s].item > 1

Lockers(r) ==
    {s \in Runs \ {r} :
        \/ /\ run[r].pc = "tables" /\ run[r].item \in DOMAIN Indexed
           /\ HasWritten(s, Indexed[run[r].item])
        \/ run[r].item = 1 /\ HasIndexed(s, run[r].pc)}

Exists(r) == \E row \in rows \cup tx[r] : SameKey(row, NewRow(r))

\* Variant: a row that was there counts twice.
NextItemTwice(r) ==
    run' = [run EXCEPT ![r].item = @ + (IF Exists(r) THEN 2 ELSE 1), ![r].looked = FALSE]

NextItem(r) == run' = [run EXCEPT ![r].item = @ + 1, ![r].looked = FALSE]

\* CREATE ... IF NOT EXISTS looks first.
LookForTable(r) ==
    /\ Connected(r) /\ InLoop(r) /\ run[r].pc = "tables" /\ ~run[r].looked
    /\ Lockers(r) = {}
    /\ IF Exists(r) THEN NextItem(r) ELSE run' = [run EXCEPT ![r].looked = TRUE]
    /\ UNCHANGED <<rows, tx, forward>>

\* Another run has created the table since this one looked.
TableCollides(r) == run[r].looked /\ Holders(r) = {} /\ Exists(r)

CanWrite(r) ==
    /\ Connected(r) /\ InLoop(r) /\ Holders(r) \cup Lockers(r) = {}
    /\ run[r].pc = "tables" => run[r].looked /\ ~Exists(r)

\* Variant: each statement commits.
WriteRowAutocommit(r) ==
    /\ CanWrite(r)
    /\ rows' = IF Exists(r) THEN rows ELSE rows \cup {NewRow(r)}
    /\ NextItem(r)
    /\ UNCHANGED <<tx, forward>>

\* The statement of the item. ON CONFLICT, a user's row stays and an incident's is
\* written over; an address may be drawn twice.
WriteRow(r) ==
    /\ CanWrite(r)
    /\ tx' = [tx EXCEPT ![r] = IF Exists(r) /\ run[r].pc # "incidents" THEN @
                               ELSE @ \cup {NewRow(r)}]
    /\ NextItem(r)
    /\ UNCHANGED <<rows, forward>>

Commit(r) ==
    /\ Connected(r) /\ run[r].pc \in DOMAIN Loop /\ ~InLoop(r)
    /\ rows' = {row \in rows : ~\E new \in tx[r] : SameKey(row, new)} \cup tx[r]
    /\ tx' = [tx EXCEPT ![r] = {}]
    /\ run' = [run EXCEPT ![r].pc = NextPhase[@], ![r].item = 1,
                          ![r].ends = IF run[r].pc = "knowledge" THEN "complete" ELSE @]
    /\ UNCHANGED forward

\* A user's id is drawn by the run that inserts its row.
UsersThere(r) == {row \in rows : row.table = "users"}

\* SELECT id,email FROM users
SelectUsers(r) ==
    /\ Connected(r)
    /\ run[r].pc = "select"
    /\ run' = [run EXCEPT ![r].pc = "payments", ![r].users = UsersThere(r)]
    /\ UNCHANGED <<rows, tx, forward>>

\* The pool rolls back and the exception goes to the finally.
RollBack(r) ==
    /\ run[r].pc \in DOMAIN Loop \cup {"select"}
    /\ Go(r, run[r].pc, "stop")
    /\ tx' = [tx EXCEPT ![r] = {}]
    /\ UNCHANGED <<rows, forward>>

\* Variant: a lost connection is not noticed.
MustRaiseHangs(r) == TableCollides(r)

\* The connection is gone, or the catalogue has the table already.
MustRaise(r) == ~Connected(r) \/ TableCollides(r)

Raises(r) == MustRaise(r) /\ RollBack(r)

\* An error of the database, Ctrl-C within the try.
MayRaise(r) ==
    /\ "database" \in Faults \/ "interrupt" \in Faults
    /\ RollBack(r)

\* The finally: pool.close, stop_port_forward.
Stop(r) ==
    /\ Go(r, "stop", run[r].ends)
    /\ forward' = Stopped(r)
    /\ UNCHANGED <<rows, tx>>

Script(r) ==
    \/ Connect(r) \/ ConnectFails(r) \/ LookForTable(r) \/ WriteRow(r) \/ Commit(r)
    \/ SelectUsers(r) \/ Raises(r) \/ Stop(r)

Next ==
    \E r \in Runs :
        StartPortForward(r) \/ PortForwardFails(r) \/ Interrupt(r) \/ Script(r) \/ MayRaise(r)

Spec == Init /\ [][Next]_vars

\* A run goes on: its waits have limits and its statements end.
FairSpec == Spec /\ \A r \in Runs : WF_vars(Script(r))

----------------------------------------------------------------------------
(* Properties.                                                             *)

TypeOK ==
    /\ \A r \in Runs :
          /\ run[r].pc \in Pcs /\ run[r].looked \in BOOLEAN
          /\ run[r].pc \in DOMAIN Loop => run[r].item \in 1 .. Len(Loop[run[r].pc]) + 1
          /\ run[r].via \in Runs \cup {None} /\ run[r].ends \in {"complete", "failed"}
    /\ \A row \in rows \cup UNION {tx[r] : r \in Runs} :
          row.table \in DOMAIN Loop /\ row.by \in Runs
    /\ forward \in Runs \cup {None}

\* Two runs at once wait for each other's rows and tables, and never in a circle: they
\* write the addresses and the incidents in one order, and who indexes has not written.
RunsNeverDeadlock ==
    \A S \in SUBSET Runs : S # {} =>
        \E r \in S : ~InLoop(r) \/ (Holders(r) \cup Lockers(r)) \cap S = {}

Keys(r, phase) == {Key(r, phase, item) : item \in Range(Loop[phase])}
CommittedKeys(phase) == {row.key : row \in {x \in rows : x.table = phase}}

\* However runs fail and overlap, a phase is in the database as a whole or not at all.
PhasesAreAtomic ==
    \A r \in Runs, phase \in DOMAIN Loop :
        \/ Keys(r, phase) \subseteq CommittedKeys(phase)
        \/ Keys(r, phase) \cap CommittedKeys(phase) = {}

\* A run that has ended leaves no open transaction, and no port-forward either when it
\* ended by itself: only one that was killed, or interrupted outside its try, does.
EndedRunCleansUp ==
    \A r \in Runs : run[r].pc \in Ended =>
        tx[r] = {} /\ (forward = r => run[r].pc = "interrupted")

\* A run that is started ends, whoever stops the port-forward it uses.
RunEnds == \A r \in Runs : run[r].pc = "connect" ~> run[r].pc \in Ended
=============================================================================
