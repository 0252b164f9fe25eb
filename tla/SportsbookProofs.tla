---------------------------- MODULE SportsbookProofs ----------------------------
(***************************************************************************)
(* What holds of the sportsbook for every set of players, games, wagers,  *)
(* limits and handlers.  First what the locks give: betting takes no part  *)
(* in a deadlock of wagers and settlements, and what a wager is judged by  *)
(* stands until the wager is written.  Then the book itself: the side's    *)
(* limit, the accounting of every player's chips, and the only way a       *)
(* ticket is left open on a settled game.                                  *)
(***************************************************************************)
EXTENDS Sportsbook, Sums, TLAPS

-----------------------------------------------------------------------------
(* The inductive invariant *)

IsTicket(t) ==
  /\ DOMAIN t = {"player", "id", "game", "side", "stake", "payout", "visit", "status"}
  /\ t.player \in Players

\* A wager holds nothing, its game, or its game and its player.
IsWager(t) ==
  /\ DOMAIN t = {"op", "slip", "inTime", "floor", "locks", "want"} /\ t.op = "wager"
  /\ t.slip \in Slips
  /\ \/ t.want = t.slip.game /\ t.locks = {}
     \/ t.want = t.slip.player /\ t.locks = {t.slip.game}
     \/ t.want = None /\ t.locks = {t.slip.game, t.slip.player}

\* A settlement waits for its game with empty hands, and for players with its game.
IsSettlement(t) ==
  /\ DOMAIN t = {"op", "game", "outcome", "due", "locks", "want"} /\ t.op = "settle"
  /\ t.game \in Events /\ t.locks \subseteq Rows
  /\ \A u \in t.due : u.game = t.game /\ u.player \in Players
  /\ \/ t.want = t.game /\ t.locks = {}
     \/ t.want \in Players /\ t.game \in t.locks

IsCheck(t) == t = [op |-> "check", game |-> t.game, locks |-> {}, want |-> None] /\ t.game \in Events

IsListing(t) ==
  t = [op |-> "list", game |-> t.game, lists |-> t.lists, locks |-> {}, want |-> t.game] /\ t.game \in Events

\* An accepted favor holds its player while it waits for its game.
IsFavor(t) ==
  /\ DOMAIN t = {"op", "player", "game", "locks", "want"} /\ t.op = "favor"
  /\ t.player \in Players
  /\ \/ t.game = None /\ t.locks = {} /\ t.want = t.player
     \/ t.game \in Events /\ t.locks = {t.player} /\ t.want = t.game

IsTask(t) == IsWager(t) \/ IsSettlement(t) \/ IsCheck(t) \/ IsListing(t) \/ IsFavor(t)

\* Tasks are what they seem, and a row has one holder.
TasksOK ==
  /\ task = [h \in Handlers |-> task[h]]
  /\ \A h \in Handlers : Idle(h) \/ IsTask(task[h])
  /\ \A g, h \in Handlers : g # h => Held(g) \cap Held(h) = {}

RowsOK ==
  /\ chips = [p \in Players |-> chips[p]]
  /\ favor = [p \in Players |-> favor[p]]
  /\ game = [e \in Events |-> game[e]]
  /\ \A t \in tickets : IsTicket(t)

IInv == TasksOK /\ RowsOK /\ JudgedStands

-----------------------------------------------------------------------------
(* The task part *)

LEMMA SlipRows == \A slip \in Slips : slip.game \in Events /\ slip.player \in Players
  BY SportsbookAssumption DEF Slip

\* A handler may go on to a task whose rows no other handler holds.
LEMMA TaskMoves ==
  ASSUME TasksOK, NEW h \in Handlers, NEW new,
         task' = [task EXCEPT ![h] = new],
         new = None \/ (IsTask(new) /\ \A r \in new.locks : \A g \in Handlers \ {h} : r \notin Held(g))
  PROVE  TasksOK'
<1>1. task' = [g \in Handlers |-> IF g = h THEN new ELSE task[g]]
  BY DEF TasksOK
<1>2. task' = [g \in Handlers |-> task'[g]]
  BY <1>1
<1>3. \A g \in Handlers : task'[g] = None \/ IsTask(task'[g])
  <2> SUFFICES ASSUME NEW g \in Handlers PROVE task'[g] = None \/ IsTask(task'[g])
    OBVIOUS
  <2>1. CASE g = h
    BY <1>1, <2>1
  <2>2. CASE g # h
    <3>1. task'[g] = task[g]
      BY <1>1, <2>2
    <3> QED
      BY <3>1 DEF TasksOK, Idle
  <2> QED
    BY <2>1, <2>2
<1>4. \A g \in Handlers \ {h} : Held(g)' = Held(g)
  BY <1>1 DEF Held, Idle
<1>5. Held(h)' = IF new = None THEN {} ELSE new.locks
  BY <1>1 DEF Held, Idle
<1>6. \A g \in Handlers \ {h} : Held(g) \cap Held(h)' = {}
  BY <1>5
<1>7. ASSUME NEW f \in Handlers, NEW g \in Handlers, f # g PROVE (Held(f) \cap Held(g))' = {}
  BY <1>4, <1>6, <1>7 DEF TasksOK
<1>8. \A g \in Handlers : Idle(g)' \/ IsTask(task[g])'
  BY <1>3 DEF Idle
<1> QED
  BY <1>2, <1>7, <1>8 DEF TasksOK

\* A handler that ends its task lets go of its rows.
LEMMA TaskEnds ==
  ASSUME TasksOK, NEW h \in Handlers, task' = [task EXCEPT ![h] = None]
  PROVE  TasksOK'
  BY TaskMoves

\* A new task holds nothing.
LEMMA TaskBegins ==
  ASSUME TasksOK, NEW h \in Handlers, NEW new, IsTask(new), new.locks = {},
         task' = [task EXCEPT ![h] = new]
  PROVE  TasksOK'
  BY TaskMoves

LEMMA TasksStay == TasksOK /\ UNCHANGED task => TasksOK'
  BY DEF TasksOK, Idle, Held, IsTask, IsWager, IsSettlement, IsCheck, IsListing, IsFavor

\* What h does tells what its task is.
LEMMA TaskKinds ==
  ASSUME TasksOK, NEW h \in Handlers
  PROVE  /\ Does(h, "wager") => IsWager(task[h])
         /\ Does(h, "settle") => IsSettlement(task[h])
         /\ Does(h, "check") => IsCheck(task[h])
         /\ Does(h, "list") => IsListing(task[h])
         /\ Does(h, "favor") => IsFavor(task[h])
<1>1. \A t : /\ IsWager(t) => t.op = "wager"
             /\ IsSettlement(t) => t.op = "settle"
             /\ IsCheck(t) => t.op = "check"
             /\ IsListing(t) => t.op = "list"
             /\ IsFavor(t) => t.op = "favor"
  BY DEF IsWager, IsSettlement, IsCheck, IsListing, IsFavor
<1>2. Idle(h) \/ IsTask(task[h])
  BY DEF TasksOK
<1> QED
  BY <1>1, <1>2 DEF Does, IsTask

\* No row is a player's and a game's, and None is none.
LEMMA RowsApart == Events \cap Players = {} /\ None \notin Events /\ None \notin Players
  BY SportsbookAssumption DEF Rows

\* The step to the next row, or to the settlement itself.
\* A settlement that has a row waits for one more player, or has every holder's row.
LEMMA LocksOrSettles ==
  ASSUME NEW h, NEW due, NEW locks, LocksNext(h, due, locks)
  PROVE  \/ Settles(h, due) /\ \A t \in due : t.player \in locks
         \/ /\ \E p \in {t.player : t \in due} \cup Players :
                  Goes(h, [task[h] EXCEPT !.due = due, !.locks = locks, !.want = p])
            /\ UNCHANGED <<game, started, final, tickets, chips, ledger, favor, reopened>>
<1>1. PICK holders, favored : holders = {t.player : t \in due} \ locks /\ favored = Favored(task[h].game) \ locks
  OBVIOUS
<1>2. favored \subseteq Players /\ holders \subseteq {t.player : t \in due}
  BY <1>1 DEF Favored
<1>3. PICK next : next = IF holders = {} THEN favored ELSE holders
  OBVIOUS
<1>4. IF next = {} THEN Settles(h, due)
      ELSE /\ \E p \in next : Goes(h, [task[h] EXCEPT !.due = due, !.locks = locks, !.want = p])
           /\ UNCHANGED <<game, started, final, tickets, chips, ledger, favor, reopened>>
  BY <1>1, <1>3 DEF LocksNext
<1>5. CASE next = {}
  BY <1>1, <1>3, <1>4, <1>5
<1>6. CASE next # {}
  BY <1>2, <1>3, <1>4, <1>6
<1> QED
  BY <1>5, <1>6

LEMMA LocksNextTasks ==
  ASSUME TasksOK, NEW h \in Handlers, IsSettlement(task[h]), NEW due, NEW locks,
         \A t \in due : t.game = task[h].game /\ t.player \in Players,
         task[h].game \in locks, locks \subseteq Rows, \A r \in locks : \A g \in Handlers \ {h} : r \notin Held(g),
         LocksNext(h, due, locks)
  PROVE  TasksOK'
<1>1. CASE Settles(h, due)
  BY <1>1, TaskEnds DEF Settles, Done, Goes
<1>2. CASE \E p \in {t.player : t \in due} \cup Players :
             Goes(h, [task[h] EXCEPT !.due = due, !.locks = locks, !.want = p])
  <2>1. PICK p \in Players : Goes(h, [task[h] EXCEPT !.due = due, !.locks = locks, !.want = p])
    BY <1>2
  <2> DEFINE new == [task[h] EXCEPT !.due = due, !.locks = locks, !.want = p]
  <2>2. IsSettlement(new) /\ new.locks = locks
    BY DEF IsSettlement
  <2>3. task' = [task EXCEPT ![h] = new]
    BY <2>1 DEF Goes
  <2> HIDE DEF new
  <2> QED
    BY <2>2, <2>3, TaskMoves DEF IsTask
<1> QED
  BY <1>1, <1>2, LocksOrSettles

LEMMA AdvanceTasks ==
  ASSUME TasksOK, RowsOK, NEW h \in Handlers, Advance(h)
  PROVE  TasksOK'
<1> USE RowsApart, SlipRows, TaskKinds
<1>1. CASE LockGame(h)
  <2> DEFINE new == [task[h] EXCEPT !.locks = {task[h].slip.game}, !.want = task[h].slip.player]
  <2>1. IsWager(task[h]) /\ task' = [task EXCEPT ![h] = new]
        /\ \A g \in Handlers \ {h} : task[h].slip.game \notin Held(g)
    BY <1>1 DEF LockGame, Goes, Locks
  <2>2. IsWager(new) /\ new.locks = {task[h].slip.game}
    BY <2>1 DEF IsWager
  <2> HIDE DEF new
  <2> QED
    BY <2>1, <2>2, TaskMoves DEF IsTask
<1>2. CASE JudgeWager(h)
  <2>1. CASE Done(h)
    BY <2>1, TaskEnds DEF Done, Goes
  <2>2. CASE ~Done(h)
    <3> DEFINE slip == task[h].slip
               new == [task[h] EXCEPT !.locks = @ \cup {slip.player}, !.want = None,
                                      !.floor = chips[slip.player].floor]
    <3>1. IsWager(task[h]) /\ task' = [task EXCEPT ![h] = new] /\ task[h].want = slip.player
          /\ ~Idle(h) /\ \A g \in Handlers \ {h} : slip.player \notin Held(g)
      BY <1>2, <2>2 DEF JudgeWager, Goes, Locks, Wants, Does
    <3>2. task[h].locks = {slip.game}
      BY <3>1 DEF IsWager
    <3>3. IsWager(new) /\ new.locks = {slip.game, slip.player}
      BY <3>1, <3>2 DEF IsWager
    <3>4. slip.game \in Held(h)
      BY <3>1, <3>2 DEF Held
    <3>5. \A g \in Handlers \ {h} : slip.game \notin Held(g)
      BY <3>4 DEF TasksOK
    <3>6. \A r \in new.locks : \A g \in Handlers \ {h} : r \notin Held(g)
      BY <3>1, <3>3, <3>5
    <3> HIDE DEF new
    <3> QED
      BY <3>1, <3>3, <3>6, TaskMoves DEF IsTask
  <2> QED
    BY <2>1, <2>2
<1>3. CASE PlaceWager(h)
  BY <1>3, TaskEnds DEF PlaceWager, Done, Goes
<1>4. CASE SettleGame(h)
  <2>1. CASE Done(h)
    BY <2>1, TaskEnds DEF Done, Goes
  <2>2. CASE ~Done(h)
    <3>1. /\ IsSettlement(task[h]) /\ LocksNext(h, Open(On(task[h].game)), {task[h].game})
          /\ \A g \in Handlers \ {h} : task[h].game \notin Held(g)
          /\ task[h].game \in Rows
      BY <1>4, <2>2 DEF SettleGame, Locks, IsSettlement, Rows
    <3>2. \A t \in Open(On(task[h].game)) : t.game = task[h].game /\ t.player \in Players
      BY DEF Open, On, RowsOK, IsTicket
    <3> DEFINE due == Open(On(task[h].game))
               locks == {task[h].game}
    <3>3. \A r \in locks : \A g \in Handlers \ {h} : r \notin Held(g)
      BY <3>1
    <3>4. task[h].game \in locks /\ locks \subseteq Rows
      BY <3>1
    <3>5. \A t \in due : t.game = task[h].game /\ t.player \in Players
      BY <3>2
    <3>6. IsSettlement(task[h]) /\ LocksNext(h, due, locks)
      BY <3>1
    <3> HIDE DEF due, locks
    <3> QED
      BY <3>3, <3>4, <3>5, <3>6, LocksNextTasks
  <2> QED
    BY <2>1, <2>2
<1>5. CASE LockHolder(h)
  <2>1. /\ IsSettlement(task[h]) /\ task[h].want \in Players
        /\ LocksNext(h, task[h].due, task[h].locks \cup {task[h].want})
        /\ \A g \in Handlers \ {h} : task[h].want \notin Held(g)
        /\ ~Idle(h)
    BY <1>5 DEF LockHolder, Locks, Does
  <2>2. /\ \A t \in task[h].due : t.game = task[h].game /\ t.player \in Players
        /\ task[h].game \in task[h].locks /\ task[h].locks \cup {task[h].want} \subseteq Rows
    BY <2>1 DEF IsSettlement, Rows
  <2>3. \A r \in task[h].locks : \A g \in Handlers \ {h} : r \notin Held(g)
    BY <2>1 DEF TasksOK, Held
  <2> QED
    BY <2>1, <2>2, <2>3, LocksNextTasks
<1>6. CASE WriteListing(h)
  BY <1>6, TaskEnds DEF WriteListing, Done, Goes
<1>7. CASE Evaluate(h)
  <2>1. CASE Done(h)
    BY <2>1, TaskEnds DEF Done, Goes
  <2>2. CASE ~Done(h)
    <3> DEFINE new == Settling(task[h].game, Result[task[h].game])
    <3>1. IsCheck(task[h]) /\ task' = [task EXCEPT ![h] = new]
      BY <1>7, <2>2 DEF Evaluate, Goes
    <3>2. IsSettlement(new) /\ new.locks = {}
      BY <3>1 DEF IsSettlement, IsCheck, Settling
    <3> HIDE DEF new
    <3> QED
      BY <3>1, <3>2, TaskBegins DEF IsTask
  <2> QED
    BY <2>1, <2>2
<1>8. CASE PickFavor(h)
  <2>1. CASE Done(h)
    BY <2>1, TaskEnds DEF Done, Goes
  <2>2. CASE ~Done(h)
    <3> DEFINE p == task[h].player
    <3>1. /\ IsFavor(task[h]) /\ \A g \in Handlers \ {h} : p \notin Held(g)
          /\ \E e \in Events : Goes(h, [task[h] EXCEPT !.game = e, !.locks = {p}, !.want = e])
      BY <1>8, <2>2 DEF PickFavor, Locks
    <3>2. PICK e \in Events : Goes(h, [task[h] EXCEPT !.game = e, !.locks = {p}, !.want = e])
      BY <3>1
    <3> DEFINE new == [task[h] EXCEPT !.game = e, !.locks = {p}, !.want = e]
    <3>3. IsFavor(new) /\ new.locks = {p}
      BY <3>1 DEF IsFavor
    <3>4. task' = [task EXCEPT ![h] = new]
      BY <3>2 DEF Goes
    <3> HIDE DEF new
    <3> QED
      BY <3>1, <3>3, <3>4, TaskMoves DEF IsTask
  <2> QED
    BY <2>1, <2>2
<1>9. CASE AcceptFavor(h)
  BY <1>9, TaskEnds DEF AcceptFavor, Done, Goes
<1> QED
  BY <1>1, <1>2, <1>3, <1>4, <1>5, <1>6, <1>7, <1>8, <1>9 DEF Advance

\* Requests and the feed's runs begin with empty hands.
LEMMA OthersTasks ==
  ASSUME TasksOK, Next, \A h \in Handlers : ~Advance(h)
  PROVE  TasksOK'
<1> USE DEF Handlers
<1>1. ASSUME NEW h \in Handlers, Lose(h) PROVE TasksOK'
  BY <1>1, TaskEnds DEF Lose
<1>2. ASSUME BreakDeadlock PROVE TasksOK'
  <2>1. PICK set \in SUBSET Handlers : \E h \in set : Done(h)
    BY <1>2 DEF BreakDeadlock
  <2> QED
    BY <2>1, TaskEnds DEF Done, Goes
<1>3. ASSUME NEW h \in Clients, NEW slip \in Slips, SubmitWager(h, slip) PROVE TasksOK'
  <2> DEFINE new == [op |-> "wager", slip |-> slip, inTime |-> slip.game \notin started,
                     floor |-> 0, locks |-> {}, want |-> slip.game]
  <2>1. IsWager(new) /\ new.locks = {} /\ task' = [task EXCEPT ![h] = new]
    BY <1>3 DEF IsWager, SubmitWager, Request
  <2> HIDE DEF new
  <2> QED
    BY <2>1, TaskBegins DEF IsTask
<1>4. ASSUME NEW h \in Clients, NEW p \in Players, AskFavor(h, p) PROVE TasksOK'
  <2> DEFINE new == [op |-> "favor", player |-> p, game |-> None, locks |-> {}, want |-> p]
  <2>1. IsFavor(new) /\ new.locks = {} /\ task' = [task EXCEPT ![h] = new]
    BY <1>4 DEF IsFavor, AskFavor, Request
  <2> HIDE DEF new
  <2> QED
    BY <2>1, TaskBegins DEF IsTask
<1>5. ASSUME NEW h \in Clients, NEW e \in Events, Void(h, e) \/ Resolve(h, e) PROVE TasksOK'
  <2>1. PICK outcome : task' = [task EXCEPT ![h] = Settling(e, outcome)]
    BY <1>5 DEF Void, Resolve, Request
  <2> DEFINE new == Settling(e, outcome)
  <2>2. IsSettlement(new) /\ new.locks = {}
    BY DEF IsSettlement, Settling
  <2> HIDE DEF new
  <2>3. task' = [task EXCEPT ![h] = new]
    BY <2>1 DEF new
  <2> QED
    BY <2>2, <2>3, TaskBegins DEF IsTask
<1>6. ASSUME NEW h \in Handlers, NEW e \in Events,
             task' = [task EXCEPT ![h] = [op |-> "check", game |-> e, locks |-> {}, want |-> None]]
      PROVE TasksOK'
  <2> DEFINE new == [op |-> "check", game |-> e, locks |-> {}, want |-> None]
  <2>1. IsCheck(new) /\ new.locks = {} /\ task' = [task EXCEPT ![h] = new]
    BY <1>6 DEF IsCheck
  <2> HIDE DEF new
  <2> QED
    BY <2>1, TaskBegins DEF IsTask
<1>7. ASSUME NEW h \in Clients, NEW e \in Events, Recheck(h, e) PROVE TasksOK'
  BY <1>6, <1>7 DEF Recheck, Request
<1>8. ASSUME NEW e \in Events, Poll(e) PROVE TasksOK'
  BY <1>6, <1>8 DEF Poll
<1>9. ASSUME NEW e \in Listed, ListGame(e) PROVE TasksOK'
  <2> DEFINE new == [op |-> "list", game |-> e, lists |-> IF e \in started THEN "LIVE" ELSE "PRE",
                     locks |-> {}, want |-> e]
  <2>1. e \in Events
    BY SportsbookAssumption
  <2>2. IsListing(new) /\ new.locks = {}
    BY <2>1 DEF IsListing
  <2>3. UNCHANGED task \/ task' = [task EXCEPT ![Poller] = new]
    BY <1>9 DEF ListGame
  <2> HIDE DEF new
  <2> QED
    BY <2>2, <2>3, TaskBegins, TasksStay DEF IsTask
<1>10. ASSUME NEW p \in Players, NEW id, NEW new, Cage(p, id, new) PROVE TasksOK'
  BY <1>10, TasksStay DEF Cage
<1>11. CASE AtTheCage
  BY <1>10, <1>11 DEF AtTheCage, BuyChips, RedeemChips, StartSession, CloseSession
<1>12. CASE AtTheDesk
  BY <1>3, <1>4, <1>5, <1>7, <1>12 DEF AtTheDesk
<1>13. ASSUME NEW e, PullLine(e) \/ GameStarts(e) PROVE TasksOK'
  BY <1>13, TasksStay DEF PullLine, GameStarts
<1> QED
  BY <1>1, <1>2, <1>8, <1>9, <1>11, <1>12, <1>13 DEF Next

LEMMA TasksKept ==
  ASSUME TasksOK, RowsOK, Next
  PROVE  TasksOK'
<1>1. CASE \E h \in Handlers : Advance(h)
  BY <1>1, AdvanceTasks
<1>2. CASE \A h \in Handlers : ~Advance(h)
  BY <1>2, OthersTasks
<1> QED
  BY <1>1, <1>2

-----------------------------------------------------------------------------
(* Wagers and settlements take locks in one order *)

\* In every deadlock of wagers, settlements and the feed's writes, only
\* settlements take part, whatever the players, games and handlers.  A wager and a
\* settlement wait for a game with empty hands (placeBet and settleSportsbookEventTx
\* lock the event row first), so a wager that waits for its player is waited for at
\* most over its game, by someone who holds nothing.
LEMMA NoWagerInCycle ==
  ASSUME TasksOK, NEW set \in SUBSET {h \in Handlers : ~Does(h, "favor")}, Cycle(set)
  PROVE  \A h \in set : Does(h, "settle")
<1> USE RowsApart, SlipRows
<1>1. \A h \in set : h \in Handlers /\ ~Does(h, "favor")
  OBVIOUS
<1>2. ASSUME NEW h \in set PROVE ~Idle(h) /\ (IsWager(task[h]) \/ IsSettlement(task[h]))
  <2>1. PICK g \in set : Wants(g) \in Held(h)
    BY DEF Cycle
  <2>2. ~Idle(h) /\ task[h].locks # {}
    BY <2>1 DEF Held
  <2>3. IsTask(task[h])
    BY <1>1, <2>2 DEF TasksOK
  <2>4. ~IsCheck(task[h]) /\ ~IsListing(task[h])
    BY <2>2 DEF IsCheck, IsListing
  <2>5. ~IsFavor(task[h])
    BY <1>1, <2>2 DEF IsFavor, Does
  <2> QED
    BY <2>2, <2>3, <2>4, <2>5 DEF IsTask
<1>3. \A h \in set : task[h].locks # {} /\ None \notin task[h].locks
  <2> TAKE h \in set
  <2>1. PICK g \in set : Wants(g) \in Held(h)
    BY DEF Cycle
  <2>2. task[h].locks # {}
    BY <2>1 DEF Held
  <2>3. CASE IsWager(task[h])
    BY <2>2, <2>3 DEF IsWager
  <2>4. CASE IsSettlement(task[h])
    BY <2>2, <2>4 DEF IsSettlement, Rows
  <2> QED
    BY <1>2, <2>3, <2>4
<1>4. \A h \in set : Wants(h) \in Players
  <2> TAKE h \in set
  <2>1. PICK f \in set : Wants(h) \in Held(f)
    BY DEF Cycle
  <2>2. Wants(h) = task[h].want /\ Wants(h) # None
    BY <1>2, <1>3, <2>1 DEF Wants, Held
  <2>3. CASE IsWager(task[h])
    BY <1>3, <2>2, <2>3 DEF IsWager
  <2>4. CASE IsSettlement(task[h])
    BY <1>3, <2>2, <2>4 DEF IsSettlement
  <2> QED
    BY <1>2, <2>3, <2>4
<1>5. ASSUME NEW h \in set, IsWager(task[h]) PROVE FALSE
  <2>1. PICK g \in set : Wants(g) \in Held(h)
    BY DEF Cycle
  <2>2. Wants(h) = task[h].want /\ Wants(h) \in Players /\ Held(h) = task[h].locks
    BY <1>2, <1>4 DEF Wants, Held
  <2>3. Held(h) = {task[h].slip.game} /\ task[h].slip.game \in Events
    BY <1>5, <2>2 DEF IsWager
  <2> QED
    BY <1>4, <2>1, <2>3
<1> QED
  BY <1>2, <1>5 DEF Does, IsSettlement

-----------------------------------------------------------------------------
(* Rows *)

\* A graded ticket is the ticket with another status.
LEMMA GradedShape ==
  ASSUME NEW due, NEW outcome, \A t \in tickets : IsTicket(t), NEW u \in GradedOf(due, outcome)
  PROVE  IsTicket(u) /\ \E t \in due : u.player = t.player /\ u.game = t.game
<1>1. PICK t \in due \cap tickets : u = [t EXCEPT !.status = Grade(t.side, outcome)]
  BY DEF GradedOf
<1>2. IsTicket(t)
  BY <1>1
<1>3. IsTicket(u) /\ u.player = t.player /\ u.game = t.game
  BY <1>1, <1>2 DEF IsTicket
<1> QED
  BY <1>1, <1>3

LEMMA RowsKept ==
  ASSUME TasksOK, RowsOK, Next
  PROVE  RowsOK'
<1> USE RowsApart, SlipRows, TaskKinds
<1>1. ASSUME UNCHANGED <<game, tickets, chips, favor>> PROVE RowsOK'
  BY <1>1 DEF RowsOK, IsTicket
<1>2. ASSUME NEW h \in Handlers, PlaceWager(h) PROVE RowsOK'
  <2> DEFINE slip == task[h].slip
             bought == TicketFor(slip, chips[slip.player].visit)
  <2>1. /\ chips' = [chips EXCEPT ![slip.player].floor = task[h].floor - slip.stake]
        /\ tickets' = tickets \cup {bought}
        /\ UNCHANGED <<game, favor>> /\ slip \in Slips
    BY <1>2 DEF PlaceWager, IsWager
  <2>2. IsTicket(bought)
    BY <2>1 DEF IsTicket, TicketFor
  <2>3. chips' = [p \in Players |-> chips'[p]]
    BY <2>1 DEF RowsOK
  <2> HIDE DEF bought
  <2>4. \A t \in tickets' : IsTicket(t)
    BY <2>1, <2>2 DEF RowsOK
  <2> QED
    BY <2>1, <2>3, <2>4 DEF RowsOK, IsTicket
<1>3. ASSUME NEW h \in Handlers, NEW due, IsSettlement(task[h]), Settles(h, due) PROVE RowsOK'
  <2> DEFINE graded == GradedOf(due, task[h].outcome)
  <2>1. tickets' = (tickets \ due) \cup graded /\ UNCHANGED favor
    BY <1>3 DEF Settles
  <2>2. chips' = [p \in Players |-> chips'[p]]
    BY <1>3 DEF Settles
  <2>3. game' = [e \in Events |-> game'[e]]
    BY <1>3 DEF Settles, RowsOK
  <2>4. \A t \in graded : IsTicket(t)
    BY GradedShape DEF RowsOK
  <2> HIDE DEF graded
  <2>5. \A t \in tickets' : IsTicket(t)
    BY <2>1, <2>4 DEF RowsOK
  <2> QED
    BY <2>1, <2>2, <2>3, <2>5 DEF RowsOK, IsTicket
<1>4. ASSUME NEW h \in Handlers, IsSettlement(task[h]), NEW due, NEW locks, LocksNext(h, due, locks)
      PROVE RowsOK'
  BY <1>1, <1>3, <1>4, LocksOrSettles
<1>5. ASSUME NEW h \in Handlers, Advance(h) PROVE RowsOK'
  <2>1. CASE SettleGame(h)
    <3>1. CASE UNCHANGED <<game, tickets, chips, favor>>
      BY <1>1, <3>1
    <3>2. CASE LocksNext(h, Open(On(task[h].game)), {task[h].game})
      BY <1>4, <2>1, <3>2 DEF SettleGame
    <3> QED
      BY <2>1, <3>1, <3>2 DEF SettleGame
  <2>2. CASE LockHolder(h)
    BY <1>4, <2>2 DEF LockHolder
  <2>3. CASE WriteListing(h)
    BY <2>3 DEF WriteListing, RowsOK, IsTicket
  <2>4. CASE AcceptFavor(h)
    BY <2>4 DEF AcceptFavor, RowsOK, IsTicket
  <2>5. CASE LockGame(h) \/ JudgeWager(h) \/ Evaluate(h) \/ PickFavor(h)
    BY <1>1, <2>5 DEF LockGame, JudgeWager, Evaluate, PickFavor
  <2> QED
    BY <1>2, <1>5, <2>1, <2>2, <2>3, <2>4, <2>5 DEF Advance
<1>6. ASSUME NEW p \in Players, NEW id, NEW new, Cage(p, id, new) PROVE RowsOK'
  BY <1>6 DEF Cage, RowsOK, IsTicket
<1>7. CASE AtTheCage
  BY <1>6, <1>7 DEF AtTheCage, BuyChips, RedeemChips, StartSession, CloseSession
<1>8. CASE AtTheDesk
  BY <1>1, <1>8 DEF AtTheDesk, SubmitWager, AskFavor, Void, Resolve, Recheck
<1>9. ASSUME NEW e, PullLine(e) PROVE RowsOK'
  BY <1>9 DEF PullLine, RowsOK, IsTicket
<1>10. ASSUME NEW e, ListGame(e) \/ Poll(e) \/ GameStarts(e) PROVE RowsOK'
  BY <1>1, <1>10 DEF ListGame, Poll, GameStarts
<1>11. ASSUME NEW h, Lose(h) \/ BreakDeadlock PROVE RowsOK'
  BY <1>1, <1>11 DEF Lose, BreakDeadlock
<1> QED
  BY <1>5, <1>7, <1>8, <1>9, <1>10, <1>11 DEF Next

-----------------------------------------------------------------------------
(* What a wager was judged by stands *)

Judged(h) == Does(h, "wager") /\ task[h].want = None

\* Nothing a slip is judged by changes for the worse.
Undisturbed(slip) ==
  /\ chips'[slip.player] = chips[slip.player]
  /\ favor'[slip.player] = favor[slip.player]
  /\ game'[slip.game].status = game[slip.game].status
  /\ Of(slip.player)' = Of(slip.player)
  /\ On(slip.game)' = On(slip.game)
  /\ <<slip.player, slip.id>> \in ledger' => <<slip.player, slip.id>> \in ledger

LEMMA UndisturbedTaken ==
  ASSUME NEW slip, Takes(slip), Undisturbed(slip)
  PROVE  Takes(slip)'
<1>1. WithinLimits(slip)' = WithinLimits(slip)
  BY DEF Undisturbed, WithinLimits
<1> QED
  BY <1>1 DEF Takes, Undisturbed

\* A wager that is about to be written holds its game and its player, and no one
\* else does.
LEMMA JudgedHolds ==
  ASSUME TasksOK, NEW h \in Handlers, Judged(h)
  PROVE  /\ IsWager(task[h]) /\ task[h].slip \in Slips
         /\ Held(h) = {task[h].slip.game, task[h].slip.player}
         /\ \A g \in Handlers \ {h} : /\ task[h].slip.game \notin Held(g)
                                      /\ task[h].slip.player \notin Held(g)
<1>1. IsWager(task[h]) /\ ~Idle(h)
  BY TaskKinds DEF Judged, Does
<1>2. Held(h) = {task[h].slip.game, task[h].slip.player}
  BY <1>1, RowsApart, SlipRows DEF IsWager, Held, Judged
<1> QED
  BY <1>1, <1>2 DEF TasksOK, IsWager

\* It is enough that others leave alone what a judged wager rests on.
LEMMA StillJudged ==
  ASSUME JudgedStands, NEW h \in Handlers, NEW slip, slip = task[h].slip,
         Judged(h), task'[h] = task[h], Undisturbed(slip)
  PROVE  Takes(slip)' /\ chips'[slip.player].floor = task'[h].floor
<1>1. Takes(slip) /\ chips[slip.player].floor = task[h].floor
  BY DEF JudgedStands, Judged
<1>2. Takes(slip)'
  BY <1>1, UndisturbedTaken
<1> QED
  BY <1>1, <1>2 DEF Undisturbed

\* Whoever judges a wager, or others, leave alone what judged wagers rest on.
LEMMA JudgedStandsKept ==
  ASSUME JudgedStands,
         \A h \in Handlers : Judged(h)' =>
           \/ Judged(h) /\ task'[h] = task[h] /\ Undisturbed(task[h].slip)
           \/ (Takes(task[h].slip) /\ chips[task[h].slip.player].floor = task[h].floor)'
  PROVE  JudgedStands'
<1> SUFFICES ASSUME NEW h \in Handlers, Judged(h)',
                    Judged(h) /\ task'[h] = task[h] /\ Undisturbed(task[h].slip)
             PROVE  (Takes(task[h].slip) /\ chips[task[h].slip.player].floor = task[h].floor)'
  BY DEF JudgedStands, Judged
<1>1. PICK slip : slip = task[h].slip
  OBVIOUS
<1>2. Judged(h) /\ task'[h] = task[h] /\ Undisturbed(slip)
  BY <1>1
<1>3. Takes(slip)' /\ chips'[slip.player].floor = task'[h].floor
  BY <1>1, <1>2, StillJudged
<1>4. slip = task'[h].slip
  BY <1>1, <1>2
<1> QED
  BY <1>3, <1>4

\* The task of a handler that begins, waits or ends is no judged wager; the others'
\* tasks are what they were.
LEMMA OnlyMover ==
  ASSUME TasksOK, NEW g \in Handlers, NEW new, task' = [task EXCEPT ![g] = new],
         new = None \/ new.op # "wager" \/ new.want # None,
         NEW h \in Handlers, Judged(h)'
  PROVE  h # g /\ Judged(h) /\ task'[h] = task[h]
<1>1. task'[g] = new /\ (h # g => task'[h] = task[h])
  BY DEF TasksOK
<1>2. h # g
  BY <1>1 DEF Judged, Does, Idle
<1> QED
  BY <1>1, <1>2 DEF Judged, Does, Idle

\* A step of g that changes no row of the tables.
LEMMA MovesQuietly ==
  ASSUME TasksOK, JudgedStands, UNCHANGED <<game, tickets, chips, ledger, favor>>,
         NEW g \in Handlers, NEW new, task' = [task EXCEPT ![g] = new],
         new = None \/ new.op # "wager" \/ new.want # None
  PROVE  JudgedStands'
<1>1. \A slip : Undisturbed(slip)
  BY DEF Undisturbed, Of, On
<1> QED
  BY <1>1, OnlyMover, JudgedStandsKept

LEMMA StaysQuietly ==
  ASSUME JudgedStands, UNCHANGED <<game, tickets, chips, ledger, favor, task>>
  PROVE  JudgedStands'
<1>1. \A slip : Undisturbed(slip)
  BY DEF Undisturbed, Of, On
<1> QED
  BY <1>1, JudgedStandsKept DEF Judged, Does, Idle

\* JudgeWager: what it judges is unchanged when it commits to the wager.
LEMMA JudgeJudges ==
  ASSUME TasksOK, JudgedStands, NEW h \in Handlers, JudgeWager(h)
  PROVE  JudgedStands'
<1>1. CASE Done(h)
  BY <1>1, MovesQuietly DEF JudgeWager, Done, Goes
<1>2. CASE ~Done(h)
  <2>1. PICK slip : slip = task[h].slip
    OBVIOUS
  <2>2. PICK floor, new : /\ floor = chips[slip.player].floor /\ task' = [task EXCEPT ![h] = new]
                          /\ new = [task[h] EXCEPT !.locks = @ \cup {slip.player}, !.want = None, !.floor = floor]
    BY <1>2, <2>1 DEF JudgeWager, Goes
  <2>3. IsWager(task[h]) /\ Takes(slip) /\ UNCHANGED <<game, tickets, chips, ledger, favor>>
    BY <1>2, <2>1, TaskKinds DEF JudgeWager
  <2>4. task'[h] = new /\ new.slip = slip /\ new.floor = floor
    BY <2>1, <2>2, <2>3 DEF TasksOK, IsWager
  <2>5. Undisturbed(slip)
    BY <2>3 DEF Undisturbed, Of, On
  <2>6. Takes(slip)'
    BY <2>3, <2>5, UndisturbedTaken
  <2>7. task'[h].slip = slip /\ chips'[slip.player].floor = task'[h].floor
    BY <2>2, <2>3, <2>4
  <2>8. (Takes(task[h].slip) /\ chips[task[h].slip.player].floor = task[h].floor)'
    BY <2>6, <2>7
  <2>9. ASSUME NEW g \in Handlers, g # h, Judged(g)'
        PROVE  Judged(g) /\ task'[g] = task[g] /\ Undisturbed(task[g].slip)
    <3>1. task'[g] = task[g]
      BY <2>2, <2>9 DEF TasksOK
    <3> QED
      BY <2>3, <2>9, <3>1 DEF Undisturbed, Of, On, Judged, Does, Idle
  <2> QED
    BY <2>8, <2>9, JudgedStandsKept
<1> QED
  BY <1>1, <1>2

\* PlaceWager: another judged wager is another player's, on another game.
LEMMA PlacedElsewhere ==
  ASSUME TasksOK, RowsOK, JudgedStands, NEW g \in Handlers, PlaceWager(g)
  PROVE  JudgedStands'
<1>1. Judged(g) /\ task' = [task EXCEPT ![g] = None]
  BY DEF PlaceWager, Judged, Done, Goes
<1>2. PICK mine : mine = task[g].slip
  OBVIOUS
<1>3. PICK bought : /\ bought.player = mine.player /\ bought.game = mine.game
                    /\ tickets' = tickets \cup {bought}
  BY <1>2 DEF PlaceWager, TicketFor
<1>4. /\ \E n : chips' = [chips EXCEPT ![mine.player].floor = n]
      /\ ledger' = ledger \cup {<<mine.player, mine.id>>}
      /\ UNCHANGED <<game, favor>>
  BY <1>2 DEF PlaceWager
<1>5. mine.player \in Held(g) /\ mine.game \in Held(g)
  BY <1>1, <1>2, JudgedHolds
<1>6. ASSUME NEW h \in Handlers, Judged(h)'
      PROVE  Judged(h) /\ task'[h] = task[h] /\ Undisturbed(task[h].slip)
  <2>1. h # g /\ Judged(h) /\ task'[h] = task[h]
    BY <1>1, <1>6, OnlyMover
  <2>2. PICK slip \in Slips : slip = task[h].slip
    BY <2>1, JudgedHolds
  <2>3. slip.player # mine.player /\ slip.game # mine.game /\ slip.player \in Players
    BY <1>5, <2>1, <2>2, JudgedHolds, SlipRows
  <2>4. chips'[slip.player] = chips[slip.player]
    BY <1>4, <2>3 DEF RowsOK
  <2>5. Of(slip.player)' = Of(slip.player) /\ On(slip.game)' = On(slip.game)
    BY <1>3, <2>3 DEF Of, On
  <2>6. <<slip.player, slip.id>> \in ledger' => <<slip.player, slip.id>> \in ledger
    BY <1>4, <2>3
  <2>7. Undisturbed(slip)
    BY <1>4, <2>4, <2>5, <2>6 DEF Undisturbed
  <2> QED
    BY <2>1, <2>2, <2>7
<1> QED
  BY <1>6, JudgedStandsKept

\* Settles: whoever has a ticket on the list, and the game, are locked by g.
LEMMA SettledElsewhere ==
  ASSUME TasksOK, RowsOK, JudgedStands, NEW g \in Handlers, NEW due, NEW locks,
         \A t \in due : t.player \in locks /\ t.game = task[g].game,
         task[g].game \in locks, \A r \in locks : \A h \in Handlers \ {g} : r \notin Held(h),
         Settles(g, due)
  PROVE  JudgedStands'
<1> DEFINE e == task[g].game
           graded == GradedOf(due, task[g].outcome)
<1>1. /\ task' = [task EXCEPT ![g] = None] /\ UNCHANGED <<favor, ledger>>
      /\ tickets' = (tickets \ due) \cup graded
      /\ \E new : game' = [game EXCEPT ![e] = new]
      /\ \A p \in Players : (\A t \in due : t.player # p) => chips'[p] = chips[p]
  BY DEF Settles, Done, Goes
<1>2. \A u \in graded : u.player \in locks /\ u.game = e
  BY GradedShape DEF RowsOK
<1> HIDE DEF graded
<1>3. ASSUME NEW h \in Handlers, Judged(h)'
      PROVE  Judged(h) /\ task'[h] = task[h] /\ Undisturbed(task[h].slip)
  <2>1. h # g /\ Judged(h) /\ task'[h] = task[h]
    BY <1>1, <1>3, OnlyMover
  <2>2. PICK slip \in Slips : slip = task[h].slip
    BY <2>1, JudgedHolds
  <2>3. slip.player \notin locks /\ slip.game \notin locks
    BY <2>1, <2>2, JudgedHolds
  <2>4. chips'[slip.player] = chips[slip.player]
    BY <1>1, <2>3, SlipRows
  <2>5. Of(slip.player)' = Of(slip.player)
    BY <1>1, <1>2, <2>3 DEF Of
  <2>6. slip.game # e /\ On(slip.game)' = On(slip.game)
    BY <1>1, <1>2, <2>3 DEF On
  <2>7. game'[slip.game].status = game[slip.game].status
    BY <1>1, <2>6, SlipRows DEF RowsOK
  <2>8. Undisturbed(slip)
    BY <1>1, <2>4, <2>5, <2>6, <2>7 DEF Undisturbed
  <2> QED
    BY <2>1, <2>2, <2>8
<1> QED
  BY <1>3, JudgedStandsKept

LEMMA LocksNextElsewhere ==
  ASSUME TasksOK, RowsOK, JudgedStands, NEW g \in Handlers, IsSettlement(task[g]),
         NEW due, NEW locks, \A t \in due : t.game = task[g].game, task[g].game \in locks,
         \A r \in locks : \A h \in Handlers \ {g} : r \notin Held(h),
         LocksNext(g, due, locks)
  PROVE  JudgedStands'
<1>1. CASE Settles(g, due) /\ \A t \in due : t.player \in locks
  BY <1>1, SettledElsewhere
<1>2. CASE /\ \E p : Goes(g, [task[g] EXCEPT !.due = due, !.locks = locks, !.want = p])
           /\ UNCHANGED <<game, started, final, tickets, chips, ledger, favor, reopened>>
  <2>1. PICK p, new : /\ new = [task[g] EXCEPT !.due = due, !.locks = locks, !.want = p]
                      /\ task' = [task EXCEPT ![g] = new]
    BY <1>2 DEF Goes
  <2>2. new.op = "settle"
    BY <2>1 DEF IsSettlement
  <2> QED
    BY <1>2, <2>1, <2>2, MovesQuietly
<1> QED
  BY <1>1, <1>2, LocksOrSettles

\* A row that g got is not one of a judged wager's; so what is written to it is
\* written elsewhere.
LEMMA OneRowElsewhere ==
  ASSUME TasksOK, RowsOK, JudgedStands, NEW r, UNCHANGED tickets,
         \A h \in Handlers : Judged(h)' => Judged(h) /\ task'[h] = task[h] /\ r \notin Held(h),
         \A p \in Players : p # r => /\ chips'[p] = chips[p] /\ favor'[p] = favor[p]
                                     /\ \A id : <<p, id>> \in ledger' => <<p, id>> \in ledger,
         \A e \in Events : e # r => game'[e] = game[e]
  PROVE  JudgedStands'
<1>1. ASSUME NEW h \in Handlers, Judged(h)'
      PROVE  Judged(h) /\ task'[h] = task[h] /\ Undisturbed(task[h].slip)
  <2>1. PICK slip \in Slips : slip = task[h].slip
    BY <1>1, JudgedHolds
  <2>2. slip.player # r /\ slip.game # r
    BY <1>1, <2>1, JudgedHolds
  <2>3. Undisturbed(slip)
    BY <2>2, SlipRows DEF Undisturbed, Of, On
  <2> QED
    BY <1>1, <2>1, <2>3
<1> QED
  BY <1>1, JudgedStandsKept

LEMMA AdvanceJudged ==
  ASSUME TasksOK, RowsOK, JudgedStands, NEW g \in Handlers, Advance(g)
  PROVE  JudgedStands'
<1>1. CASE LockGame(g)
  <2>1. PICK new : /\ new = [task[g] EXCEPT !.locks = {task[g].slip.game}, !.want = task[g].slip.player]
                   /\ task' = [task EXCEPT ![g] = new]
    BY <1>1 DEF LockGame, Goes
  <2>2. IsWager(task[g])
    BY <1>1, TaskKinds DEF LockGame
  <2>3. new.want # None
    BY <2>1, <2>2, RowsApart, SlipRows DEF IsWager
  <2> QED
    BY <1>1, <2>1, <2>3, MovesQuietly DEF LockGame
<1>2. CASE SettleGame(g)
  <2>1. CASE Done(g) /\ UNCHANGED <<game, started, final, tickets, chips, ledger, favor, reopened>>
    BY <2>1, MovesQuietly DEF Done, Goes
  <2>2. CASE LocksNext(g, Open(On(task[g].game)), {task[g].game})
    <3>1. IsSettlement(task[g]) /\ \A h \in Handlers \ {g} : task[g].game \notin Held(h)
      BY <1>2, TaskKinds DEF SettleGame, Locks
    <3>2. PICK due, locks : /\ due = Open(On(task[g].game)) /\ locks = {task[g].game}
                            /\ LocksNext(g, due, locks)
      BY <2>2
    <3>3. \A t \in due : t.game = task[g].game
      BY <3>2 DEF Open, On
    <3> QED
      BY <3>1, <3>2, <3>3, LocksNextElsewhere
  <2> QED
    BY <1>2, <2>1, <2>2 DEF SettleGame
<1>3. CASE LockHolder(g)
  <2>1. /\ IsSettlement(task[g]) /\ task[g].want \in Players /\ ~Idle(g)
        /\ \A h \in Handlers \ {g} : task[g].want \notin Held(h)
    BY <1>3, TaskKinds DEF LockHolder, Locks, Does
  <2>2. PICK due, locks : /\ due = task[g].due /\ locks = task[g].locks \cup {task[g].want}
                          /\ LocksNext(g, due, locks)
    BY <1>3 DEF LockHolder
  <2>3. (\A t \in due : t.game = task[g].game) /\ task[g].game \in locks
    BY <2>1, <2>2, RowsApart DEF IsSettlement
  <2>4. \A r \in locks : \A h \in Handlers \ {g} : r \notin Held(h)
    BY <2>1, <2>2 DEF TasksOK, Held
  <2> QED
    BY <2>1, <2>2, <2>3, <2>4, LocksNextElsewhere
<1>4. CASE WriteListing(g)
  <2>1. PICK e : /\ e = task[g].game /\ task' = [task EXCEPT ![g] = None]
                 /\ \A h \in Handlers \ {g} : e \notin Held(h)
                 /\ game' = [game EXCEPT ![e].status = task[g].lists]
                 /\ UNCHANGED <<tickets, chips, ledger, favor>>
    BY <1>4 DEF WriteListing, Locks, Done, Goes
  <2>2. \A d \in Events : d # e => game'[d] = game[d]
    BY <2>1 DEF RowsOK
  <2>3. \A h \in Handlers : Judged(h)' => Judged(h) /\ task'[h] = task[h] /\ e \notin Held(h)
    BY <2>1, OnlyMover
  <2> QED
    BY <2>1, <2>2, <2>3, OneRowElsewhere
<1>5. CASE Evaluate(g)
  <2>1. PICK new : /\ new = None \/ new.op = "settle"
                   /\ task' = [task EXCEPT ![g] = new]
    BY <1>5 DEF Evaluate, Done, Goes, Settling
  <2> QED
    BY <1>5, <2>1, MovesQuietly DEF Evaluate
<1>6. CASE PickFavor(g)
  <2>1. CASE Done(g)
    BY <1>6, <2>1, MovesQuietly DEF PickFavor, Done, Goes
  <2>2. CASE ~Done(g)
    <3>1. PICK e, p, new : /\ new = [task[g] EXCEPT !.game = e, !.locks = {p}, !.want = e]
                           /\ task' = [task EXCEPT ![g] = new]
      BY <1>6, <2>2 DEF PickFavor, Goes
    <3>2. IsFavor(task[g])
      BY <1>6, TaskKinds DEF PickFavor
    <3>3. new.op = "favor"
      BY <3>1, <3>2 DEF IsFavor
    <3> QED
      BY <1>6, <3>1, <3>3, MovesQuietly DEF PickFavor
  <2> QED
    BY <2>1, <2>2
<1>7. CASE AcceptFavor(g)
  <2>1. IsFavor(task[g]) /\ ~Idle(g) /\ task[g].game # None /\ task' = [task EXCEPT ![g] = None]
    BY <1>7, TaskKinds DEF AcceptFavor, Does, Done, Goes
  <2>2. PICK p : p = task[g].player
    OBVIOUS
  <2>3. p \in Held(g)
    BY <2>1, <2>2 DEF IsFavor, Held
  <2>4. \A h \in Handlers : Judged(h)' => Judged(h) /\ task'[h] = task[h] /\ p \notin Held(h)
    BY <2>1, <2>3, OnlyMover DEF TasksOK
  <2>5. \A q \in Players : q # p => favor'[q] = favor[q]
    BY <1>7, <2>2 DEF AcceptFavor, RowsOK
  <2> QED
    BY <1>7, <2>4, <2>5, OneRowElsewhere DEF AcceptFavor
<1> QED
  BY <1>1, <1>2, <1>3, <1>4, <1>5, <1>6, <1>7, JudgeJudges, PlacedElsewhere DEF Advance

LEMMA OthersJudged ==
  ASSUME TasksOK, RowsOK, JudgedStands, Next, \A h \in Handlers : ~Advance(h)
  PROVE  JudgedStands'
<1> USE DEF Handlers
<1>1. ASSUME NEW h \in Handlers, Lose(h) PROVE JudgedStands'
  BY <1>1, MovesQuietly DEF Lose
<1>2. ASSUME BreakDeadlock PROVE JudgedStands'
  <2>1. PICK set \in SUBSET Handlers : \E h \in set : Done(h)
    BY <1>2 DEF BreakDeadlock
  <2> QED
    BY <1>2, <2>1, MovesQuietly DEF Done, Goes, BreakDeadlock
<1>3. ASSUME NEW h \in Clients, NEW slip \in Slips, SubmitWager(h, slip) PROVE JudgedStands'
  <2>1. PICK new : new.want # None /\ task' = [task EXCEPT ![h] = new]
    <3> DEFINE new == [op |-> "wager", slip |-> slip, inTime |-> slip.game \notin started,
                       floor |-> 0, locks |-> {}, want |-> slip.game]
    <3>1. new.want # None /\ task' = [task EXCEPT ![h] = new]
      BY <1>3, RowsApart, SlipRows DEF SubmitWager, Request
    <3> QED
      BY <3>1
  <2> QED
    BY <1>3, <2>1, MovesQuietly DEF SubmitWager
<1>4. ASSUME NEW h \in Handlers, NEW new, new.op # "wager", task' = [task EXCEPT ![h] = new],
             UNCHANGED <<game, tickets, chips, ledger, favor>>
      PROVE  JudgedStands'
  BY <1>4, MovesQuietly
<1>5. CASE AtTheDesk
  <2>1. ASSUME NEW h \in Clients, NEW p \in Players, AskFavor(h, p) PROVE JudgedStands'
    <3>1. PICK new : new.op = "favor" /\ task' = [task EXCEPT ![h] = new]
      BY <2>1 DEF AskFavor, Request
    <3> QED
      BY <1>4, <2>1, <3>1 DEF AskFavor
  <2>2. ASSUME NEW h \in Clients, NEW e \in Events, Void(h, e) \/ Resolve(h, e) PROVE JudgedStands'
    <3>1. PICK new : new.op = "settle" /\ task' = [task EXCEPT ![h] = new]
      BY <2>2 DEF Void, Resolve, Request, Settling
    <3> QED
      BY <1>4, <2>2, <3>1 DEF Void, Resolve
  <2>3. ASSUME NEW h \in Clients, NEW e \in Events, Recheck(h, e) PROVE JudgedStands'
    <3>1. PICK new : new.op = "check" /\ task' = [task EXCEPT ![h] = new]
      BY <2>3 DEF Recheck, Request
    <3> QED
      BY <1>4, <2>3, <3>1 DEF Recheck
  <2> QED
    BY <1>3, <1>5, <2>1, <2>2, <2>3 DEF AtTheDesk
<1>6. ASSUME NEW p \in Players, NEW id, NEW new, Cage(p, id, new) PROVE JudgedStands'
  <2>1. \A h \in Handlers : Judged(h)' => Judged(h) /\ task'[h] = task[h] /\ p \notin Held(h)
    BY <1>6 DEF Cage, Free, Judged, Does, Idle
  <2>2. \A q \in Players : q # p => chips'[q] = chips[q]
    BY <1>6 DEF Cage, RowsOK
  <2>3. \A q \in Players : q # p => \A i : <<q, i>> \in ledger' => <<q, i>> \in ledger
    BY <1>6 DEF Cage
  <2> QED
    BY <1>6, <2>1, <2>2, <2>3, OneRowElsewhere DEF Cage
<1>7. CASE AtTheCage
  BY <1>6, <1>7 DEF AtTheCage, BuyChips, RedeemChips, StartSession, CloseSession
<1>8. ASSUME NEW e, PullLine(e) PROVE JudgedStands'
  <2>1. \A h \in Handlers : Judged(h)' => Judged(h) /\ task'[h] = task[h] /\ e \notin Held(h)
    BY <1>8 DEF PullLine, Free, Judged, Does, Idle
  <2>2. \A d \in Events : d # e => game'[d] = game[d]
    BY <1>8 DEF PullLine, RowsOK
  <2> QED
    BY <1>8, <2>1, <2>2, OneRowElsewhere DEF PullLine
<1>9. ASSUME NEW e, ListGame(e) PROVE JudgedStands'
  <2>1. UNCHANGED task \/ \E new : new.op = "list" /\ task' = [task EXCEPT ![Poller] = new]
    BY <1>9 DEF ListGame
  <2> QED
    BY <1>4, <1>9, <2>1, StaysQuietly DEF ListGame
<1>10. ASSUME NEW e, Poll(e) PROVE JudgedStands'
  <2>1. PICK new : new.op = "check" /\ task' = [task EXCEPT ![Poller] = new]
    BY <1>10 DEF Poll
  <2> QED
    BY <1>4, <1>10, <2>1 DEF Poll
<1>11. ASSUME NEW e, GameStarts(e) PROVE JudgedStands'
  BY <1>11, StaysQuietly DEF GameStarts
<1> QED
  BY <1>1, <1>2, <1>5, <1>7, <1>8, <1>9, <1>10, <1>11 DEF Next

-----------------------------------------------------------------------------
(* The theorems *)

LEMMA InitIInv == Init => IInv
<1> SUFFICES ASSUME Init PROVE IInv
  OBVIOUS
<1>1. \A h \in Handlers : Idle(h)
  BY DEF Init, Idle
<1>2. TasksOK
  BY <1>1 DEF Init, TasksOK, Held
<1>3. \A t \in tickets : IsTicket(t)
  <2> SUFFICES ASSUME NEW slip \in Placed PROVE IsTicket(TicketFor(slip, 1))
    BY DEF Init
  <2>1. slip.player \in Players
    BY SportsbookAssumption DEF Slip
  <2> QED
    BY <2>1 DEF IsTicket, TicketFor
<1>4. RowsOK
  BY <1>3 DEF Init, RowsOK
<1>5. JudgedStands
  BY <1>1 DEF JudgedStands, Does
<1> QED
  BY <1>2, <1>4, <1>5 DEF IInv

LEMMA NextIInv == IInv /\ [Next]_vars => IInv'
<1>1. ASSUME IInv, Next PROVE IInv'
  <2>1. TasksOK' /\ RowsOK'
    BY <1>1, TasksKept, RowsKept DEF IInv
  <2>2. JudgedStands'
    BY <1>1, AdvanceJudged, OthersJudged DEF IInv
  <2> QED
    BY <2>1, <2>2 DEF IInv
<1>2. ASSUME IInv, UNCHANGED vars PROVE IInv'
  <2>1. TasksOK'
    BY <1>2, TasksStay DEF IInv, vars
  <2>2. RowsOK'
    BY <1>2 DEF IInv, vars, RowsOK, IsTicket
  <2>3. JudgedStands'
    BY <1>2, StaysQuietly DEF IInv, vars
  <2> QED
    BY <2>1, <2>2, <2>3 DEF IInv
<1> QED
  BY <1>1, <1>2

\* THEOREM: what a wager is judged by under its two locks (placeBet's checks of the
\* replay, the favor, the game, every limit and the bankroll) still holds when the
\* ticket and the chips are written, whatever everyone else commits in between.
THEOREM JudgedStandsAlways == Spec => []JudgedStands
<1>1. IInv => JudgedStands
  BY DEF IInv
<1> QED
  BY InitIInv, NextIInv, <1>1, PTL DEF Spec

\* THEOREM: a deadlock of wagers and settlements is one of settlements alone: the
\* order in which placeBet locks its rows never costs a player his wager.
THEOREM WagersNeverDeadlock == Spec => []WagerNeverDeadlocks
<1>1. IInv => WagerNeverDeadlocks
  BY NoWagerInCycle DEF IInv, WagerNeverDeadlocks
<1> QED
  BY InitIInv, NextIInv, <1>1, PTL DEF Spec

-----------------------------------------------------------------------------
(* What stakes, profits and returns add up to *)

StakeOf == [t \in Ticket |-> t.stake]
ProfitOf == [t \in Ticket |-> t.payout - t.stake]
ReturnOf == [t \in Ticket |-> Return(t)]

LEMMA StakesAre ==
  ASSUME NEW S, IsFiniteSet(S), NEW f, \A x \in S : f[x] = x.stake
  PROVE  Stakes(S) = Sum(f, S)
<1> DEFINE AddsUp(g) == g = [s \in SUBSET S |-> IF s = {} THEN 0 ELSE First(s).stake + g[s \ {First(s)}]]
<1>1. Stakes(S) = (CHOOSE g : AddsUp(g))[S]
  BY DEF Stakes, MapThenSumSet, MapThenFoldSet, First
<1>2. \A g : AddsUp(g) <=> Adds(f, g, S)
  BY FirstIn DEF Adds
<1> HIDE DEF AddsUp
<1>3. PICK total : total = CHOOSE g : AddsUp(g)
  OBVIOUS
<1>4. Adds(f, total, S)
  <2>1. \E g : AddsUp(g)
    BY <1>2, AddsExists
  <2>2. AddsUp(total)
    BY <1>3, <2>1
  <2> QED
    BY <1>2, <2>2
<1>5. PICK h : Adds(f, h, S) /\ Sum(f, S) = h[S]
  BY SumIs
<1>6. total[S] = h[S]
  BY <1>4, <1>5, AddsUnique
<1> QED
  BY <1>1, <1>3, <1>5, <1>6

LEMMA LiabilityIs ==
  ASSUME NEW S, IsFiniteSet(S), NEW f, \A x \in S : f[x] = x.payout - x.stake
  PROVE  Liability(S) = Sum(f, S)
<1> DEFINE AddsUp(g) == g = [s \in SUBSET S |-> IF s = {} THEN 0 ELSE (First(s).payout - First(s).stake) + g[s \ {First(s)}]]
<1>1. Liability(S) = (CHOOSE g : AddsUp(g))[S]
  BY DEF Liability, MapThenSumSet, MapThenFoldSet, First
<1>2. \A g : AddsUp(g) <=> Adds(f, g, S)
  BY FirstIn DEF Adds
<1> HIDE DEF AddsUp
<1>3. PICK total : total = CHOOSE g : AddsUp(g)
  OBVIOUS
<1>4. Adds(f, total, S)
  <2>1. \E g : AddsUp(g)
    BY <1>2, AddsExists
  <2>2. AddsUp(total)
    BY <1>3, <2>1
  <2> QED
    BY <1>2, <2>2
<1>5. PICK h : Adds(f, h, S) /\ Sum(f, S) = h[S]
  BY SumIs
<1>6. total[S] = h[S]
  BY <1>4, <1>5, AddsUnique
<1> QED
  BY <1>1, <1>3, <1>5, <1>6

LEMMA ReturnsAre ==
  ASSUME NEW S, IsFiniteSet(S), NEW f, \A x \in S : f[x] = Return(x)
  PROVE  MapThenSumSet(Return, S) = Sum(f, S)
<1> DEFINE AddsUp(g) == g = [s \in SUBSET S |-> IF s = {} THEN 0 ELSE Return(First(s)) + g[s \ {First(s)}]]
<1>1. MapThenSumSet(Return, S) = (CHOOSE g : AddsUp(g))[S]
  BY DEF MapThenSumSet, MapThenFoldSet, First
<1>2. \A g : AddsUp(g) <=> Adds(f, g, S)
  BY FirstIn DEF Adds
<1> HIDE DEF AddsUp
<1>3. PICK total : total = CHOOSE g : AddsUp(g)
  OBVIOUS
<1>4. Adds(f, total, S)
  <2>1. \E g : AddsUp(g)
    BY <1>2, AddsExists
  <2>2. AddsUp(total)
    BY <1>3, <2>1
  <2> QED
    BY <1>2, <2>2
<1>5. PICK h : Adds(f, h, S) /\ Sum(f, S) = h[S]
  BY SumIs
<1>6. total[S] = h[S]
  BY <1>4, <1>5, AddsUnique
<1> QED
  BY <1>1, <1>3, <1>5, <1>6

LEMMA TicketTyped ==
  \A t \in Ticket :
    /\ t.player \in Players /\ t.id \in ActionIds /\ t.game \in Events /\ t.side \in Sides
    /\ t.stake \in Nat /\ t.payout \in Nat /\ t.visit \in Nat /\ t.status \in Statuses
    /\ Return(t) \in Nat
  BY DEF Ticket, Return

LEMMA BookSums ==
  ASSUME NEW S, IsFiniteSet(S), \A t \in S : t \in Ticket
  PROVE  /\ Stakes(S) = Sum(StakeOf, S) /\ Liability(S) = Sum(ProfitOf, S)
         /\ MapThenSumSet(Return, S) = Sum(ReturnOf, S)
         /\ Nats(StakeOf, S) /\ Ints(ProfitOf, S) /\ Nats(ReturnOf, S)
         /\ Sum(StakeOf, S) \in Nat /\ Sum(ProfitOf, S) \in Int /\ Sum(ReturnOf, S) \in Nat
<1>1. /\ \A x \in S : StakeOf[x] = x.stake /\ ProfitOf[x] = x.payout - x.stake /\ ReturnOf[x] = Return(x)
  BY DEF StakeOf, ProfitOf, ReturnOf
<1>2. Stakes(S) = Sum(StakeOf, S)
  BY <1>1, StakesAre
<1>3. Liability(S) = Sum(ProfitOf, S)
  BY <1>1, LiabilityIs
<1>4. MapThenSumSet(Return, S) = Sum(ReturnOf, S)
  BY <1>1, ReturnsAre
<1>5. Nats(StakeOf, S) /\ Ints(ProfitOf, S) /\ Nats(ReturnOf, S)
  BY <1>1, TicketTyped DEF Nats, Ints
<1>6. Sum(StakeOf, S) \in Nat /\ Sum(ReturnOf, S) \in Nat
  BY <1>5, SumNat
<1>7. Sum(ProfitOf, S) \in Int
  BY <1>5, SumInt
<1> QED
  BY <1>2, <1>3, <1>4, <1>5, <1>6, <1>7

\* American odds never make a profit negative.
LEMMA ProfitNat ==
  ASSUME NEW stake \in Nat, NEW odds \in Int \ {0}
  PROVE  Profit(stake, odds) \in Nat
<1>1. \A a, b \in Nat : b # 0 => a \div b \in Nat
  OBVIOUS
<1>2. \A a, b \in Nat : a * b \in Nat
  OBVIOUS
<1>3. CASE odds > 0
  <2>1. stake * odds \in Nat
    BY <1>2, <1>3
  <2> QED
    BY <1>3, <2>1 DEF Profit
<1>4. CASE ~(odds > 0)
  <2>1. PICK n \in Nat : n = -odds /\ n # 0
    BY <1>4
  <2>2. stake * 100 + n \div 2 \in Nat
    BY <1>1, <2>1
  <2>3. (stake * 100 + n \div 2) \div n \in Nat
    BY <1>1, <2>1, <2>2
  <2> QED
    BY <1>4, <2>1, <2>3 DEF Profit
<1> QED
  BY <1>3, <1>4

LEMMA BoughtTyped ==
  ASSUME NEW slip \in Slip, NEW visit \in Nat
  PROVE  /\ TicketFor(slip, visit) \in Ticket
         /\ TicketFor(slip, visit).player = slip.player /\ TicketFor(slip, visit).id = slip.id
         /\ TicketFor(slip, visit).game = slip.game /\ TicketFor(slip, visit).side = slip.side
         /\ TicketFor(slip, visit).stake = slip.stake /\ TicketFor(slip, visit).status = "OPEN"
         /\ TicketFor(slip, visit).payout = Payout(slip)
         /\ Payout(slip) \in Nat /\ slip.stake \in Nat /\ Payout(slip) >= slip.stake
<1>1. slip.stake \in Nat \ {0} /\ slip.game \in Events /\ slip.side \in Sides /\ slip.player \in Players
      /\ slip.id \in ActionIds
  BY DEF Slip
<1>2. Odds[slip.game][slip.side] \in Int \ {0}
  BY <1>1, SportsbookAssumption
<1>3. Profit(slip.stake, Odds[slip.game][slip.side]) \in Nat
  BY <1>1, <1>2, ProfitNat
<1>4. Payout(slip) \in Nat /\ Payout(slip) >= slip.stake
  BY <1>1, <1>3 DEF Payout
<1> QED
  BY <1>1, <1>4 DEF TicketFor, Ticket, Statuses

-----------------------------------------------------------------------------
(* The whole invariant *)

OpenIn(T, e) == {t \in T : t.game = e /\ t.status = "OPEN"}
SideIn(T, e, side) == {t \in OpenIn(T, e) : t.side = side}
OwnedIn(T, p) == {t \in T : t.player = p}

\* A player's action id stands for one ticket at most, and is in his ledger then.
KeyedOnce ==
  /\ \A t, u \in tickets : t.player = u.player /\ t.id = u.id => t = u
  /\ \A t \in tickets : <<t.player, t.id>> \in ledger

WorthTheStake == \A t \in tickets : t.payout >= t.stake

\* While a settlement holds its game, its list is the game's open tickets.
ListCurrent ==
  \A h \in Handlers :
    Does(h, "settle") /\ task[h].locks # {} => task[h].due = Open(On(task[h].game))

\* A settled game takes bets again only when the feed wrote over it.
ClosedUnlessReopened ==
  \A e \in Events : game[e].settled => e \in reopened \/ game[e].status \in {"FINAL", "VOID"}

BookInv ==
  /\ IInv /\ TypeOK /\ IsFiniteSet(tickets)
  /\ KeyedOnce /\ WorthTheStake /\ ListCurrent /\ ClosedUnlessReopened
  /\ SideWithinLimit /\ ChipsAccounted /\ StrandedOnlyByFeed

LEMMA OpenOnIs == \A e : Open(On(e)) = OpenIn(tickets, e)
  BY DEF Open, On, OpenIn

-----------------------------------------------------------------------------
(* Grading *)

Regraded(t, outcome) == [t EXCEPT !.status = Grade(t.side, outcome)]

LEMMA RegradedIs ==
  ASSUME NEW t \in Ticket, NEW outcome \in Outcomes
  PROVE  /\ Regraded(t, outcome) \in Ticket
         /\ Regraded(t, outcome).player = t.player /\ Regraded(t, outcome).id = t.id
         /\ Regraded(t, outcome).game = t.game /\ Regraded(t, outcome).side = t.side
         /\ Regraded(t, outcome).stake = t.stake /\ Regraded(t, outcome).payout = t.payout
         /\ Regraded(t, outcome).status # "OPEN"
<1>1. Grade(t.side, outcome) \in Statuses \ {"OPEN"}
  BY DEF Grade, Statuses
<1> QED
  BY <1>1 DEF Regraded, Ticket

\* What a settlement makes of the open tickets of e among T, and of T.
GradedIn(T, e, outcome) == {Regraded(t, outcome) : t \in OpenIn(T, e)}
SettledIn(T, e, outcome) == (T \ OpenIn(T, e)) \cup GradedIn(T, e, outcome)

WellKept(T) ==
  /\ \A t \in T : t \in Ticket
  /\ IsFiniteSet(T)
  /\ \A t, u \in T : t.player = u.player /\ t.id = u.id => t = u

\* What a settlement leaves in the table: other tickets as they were, and every
\* open ticket of the game graded.
LEMMA AfterSettlement ==
  ASSUME NEW T, WellKept(T), NEW e, NEW outcome \in Outcomes
  PROVE  /\ WellKept(SettledIn(T, e, outcome)) /\ IsFiniteSet(GradedIn(T, e, outcome))
         /\ GradedIn(T, e, outcome) \cap T = {}
<1> DEFINE due == OpenIn(T, e)
           graded == GradedIn(T, e, outcome)
           after == SettledIn(T, e, outcome)
<1>8. graded = {Regraded(t, outcome) : t \in due} /\ after = (T \ due) \cup graded
  BY DEF GradedIn, SettledIn
<1>9. /\ \A t \in T : t \in Ticket
      /\ IsFiniteSet(T)
      /\ \A t, u \in T : t.player = u.player /\ t.id = u.id => t = u
  BY DEF WellKept
<1> USE <1>8, <1>9
<1>1. \A t \in due : t \in T /\ t \in Ticket /\ t.status = "OPEN"
  BY DEF OpenIn
<1>2. \A t \in due : Regraded(t, outcome) \in Ticket /\ Regraded(t, outcome).status # "OPEN"
                     /\ Regraded(t, outcome).player = t.player /\ Regraded(t, outcome).id = t.id
  BY <1>1, RegradedIs
<1>3. \A t \in graded : t \in Ticket
  BY <1>2
<1>4. IsFiniteSet(graded)
  <2> DEFINE m == [t \in due |-> Regraded(t, outcome)]
  <2>1. due \subseteq T
    BY <1>1
  <2>2. IsFiniteSet(due)
    BY <2>1, FS_Subset
  <2>3. graded = {m[t] : t \in due}
    OBVIOUS
  <2> HIDE DEF m
  <2>4. IsFiniteSet({m[t] : t \in due})
    BY <2>2, FiniteImage
  <2> QED
    BY <2>3, <2>4
<1>5. IsFiniteSet(after)
  BY <1>4, FS_Subset, FS_Union
<1>6. ASSUME NEW t \in graded, t \in T PROVE FALSE
  <2>1. PICK u \in due : t = Regraded(u, outcome)
    BY <1>6
  <2>2. t = u
    BY <1>1, <1>2, <1>6, <2>1
  <2> QED
    BY <1>1, <1>2, <2>1, <2>2
<1>7. ASSUME NEW t \in after, NEW u \in after, t.player = u.player, t.id = u.id PROVE t = u
  <2>1. \A v \in after : v \in T \ due \/ \E x \in due : v = Regraded(x, outcome)
    OBVIOUS
  <2>2. CASE t \in T \ due /\ u \in T \ due
    BY <1>7, <2>2
  <2>3. CASE t \in T \ due /\ \E x \in due : u = Regraded(x, outcome)
    BY <1>1, <1>2, <1>7, <2>3
  <2>4. CASE u \in T \ due /\ \E x \in due : t = Regraded(x, outcome)
    BY <1>1, <1>2, <1>7, <2>4
  <2>5. CASE (\E x \in due : t = Regraded(x, outcome)) /\ \E x \in due : u = Regraded(x, outcome)
    <3>1. PICK x \in due : t = Regraded(x, outcome)
      BY <2>5
    <3>2. PICK y \in due : u = Regraded(y, outcome)
      BY <2>5
    <3>3. x = y
      BY <1>1, <1>2, <1>7, <3>1, <3>2
    <3> QED
      BY <3>1, <3>2, <3>3
  <2> QED
    BY <1>7, <2>1, <2>2, <2>3, <2>4, <2>5
<1> HIDE DEF due, graded, after
<1>10. WellKept(after) /\ graded \cap T = {}
  BY <1>1, <1>3, <1>5, <1>6, <1>7 DEF WellKept
<1> QED
  BY <1>4, <1>10 DEF graded, after

\* A player's stakes stay what they were, and his returns grow by those of what was
\* graded.
LEMMA OwnAfterSettlement ==
  ASSUME NEW T, WellKept(T), NEW e, NEW outcome \in Outcomes, NEW p
  PROVE  LET after == SettledIn(T, e, outcome)
             graded == GradedIn(T, e, outcome)
         IN  /\ Sum(StakeOf, OwnedIn(after, p)) = Sum(StakeOf, OwnedIn(T, p))
             /\ Sum(ReturnOf, OwnedIn(after, p)) = Sum(ReturnOf, OwnedIn(T, p)) + Sum(ReturnOf, OwnedIn(graded, p))
<1> DEFINE due == OpenIn(T, e)
           graded == GradedIn(T, e, outcome)
           after == SettledIn(T, e, outcome)
<1>14. WellKept(after) /\ IsFiniteSet(graded) /\ graded \cap T = {}
  BY AfterSettlement
<1>15. graded = {Regraded(t, outcome) : t \in due} /\ after = (T \ due) \cup graded
  BY DEF GradedIn, SettledIn
<1>16. due = OpenIn(T, e)
  OBVIOUS
<1>17. /\ \A t \in T : t \in Ticket
       /\ IsFiniteSet(T)
       /\ \A t, u \in T : t.player = u.player /\ t.id = u.id => t = u
  BY DEF WellKept
<1> HIDE DEF due, graded, after
<1> USE <1>15, <1>16, <1>17
<1> DEFINE mine == OwnedIn(T, p)
           out == OwnedIn(due, p)
           paid == OwnedIn(graded, p)
           rest == mine \ out
<1>1. /\ \A t \in after : t \in Ticket
      /\ IsFiniteSet(after) /\ IsFiniteSet(graded) /\ graded \cap T = {}
  BY <1>14 DEF WellKept
<1>2. \A t \in due : t \in T /\ t \in Ticket /\ t.status = "OPEN"
  BY DEF OpenIn
<1>3. /\ \A t \in mine : t \in Ticket
      /\ \A t \in out : t \in Ticket /\ t \in mine /\ t.status = "OPEN" /\ t \in due
      /\ \A t \in paid : t \in Ticket
  BY <1>1, <1>2 DEF OwnedIn
<1>4. OwnedIn(after, p) = rest \cup paid /\ rest \cap paid = {} /\ mine = rest \cup out /\ rest \cap out = {}
  BY <1>1, <1>2 DEF OwnedIn
<1>5. IsFiniteSet(mine) /\ IsFiniteSet(out) /\ IsFiniteSet(paid) /\ IsFiniteSet(rest)
  <2>1. mine \subseteq T /\ paid \subseteq graded /\ rest \subseteq T /\ out \subseteq T
    BY <1>2 DEF OwnedIn
  <2> HIDE DEF mine, paid, rest, out
  <2> QED
    BY <1>1, <2>1, FS_Subset
<1>6. Sum(StakeOf, paid) = Sum(StakeOf, out)
  <2> DEFINE m == [t \in out |-> Regraded(t, outcome)]
  <2>1. \A t \in out : Regraded(t, outcome) \in Ticket /\ Regraded(t, outcome).stake = t.stake
                       /\ Regraded(t, outcome).player = t.player /\ Regraded(t, outcome).id = t.id
    BY <1>3, RegradedIs
  <2>2. \A t, u \in out : m[t] = m[u] => t = u
    BY <1>2, <1>3, <2>1
  <2>3. \A t \in out : StakeOf[m[t]] = StakeOf[t]
    BY <1>3, <2>1 DEF StakeOf
  <2>4. paid = {m[t] : t \in out}
    <3>1. \A t \in due : Regraded(t, outcome).player = t.player
      BY <1>2, RegradedIs
    <3>2. {m[t] : t \in out} = {Regraded(t, outcome) : t \in out}
      OBVIOUS
    <3>3. paid \subseteq {Regraded(t, outcome) : t \in out}
      BY <3>1 DEF OwnedIn
    <3>4. \A t \in out : Regraded(t, outcome) \in paid
      BY <3>1 DEF OwnedIn
    <3> QED
      BY <3>2, <3>3, <3>4
  <2>5. Ints(StakeOf, out)
    BY <1>3, TicketTyped DEF Ints, StakeOf
  <2> HIDE DEF m, out, paid
  <2> QED
    BY <1>5, <2>2, <2>3, <2>4, <2>5, SumImage
<1>7. Sum(ReturnOf, out) = 0
  <2>1. \A t \in out : ReturnOf[t] = 0
    BY <1>3 DEF ReturnOf, Return
  <2> HIDE DEF out
  <2> QED
    BY <1>5, <2>1, SumZero
<1>8. /\ \A t \in rest : t \in Ticket
      /\ Ints(StakeOf, rest) /\ Ints(StakeOf, out) /\ Ints(StakeOf, paid)
      /\ Ints(ReturnOf, rest) /\ Ints(ReturnOf, out) /\ Ints(ReturnOf, paid)
  BY <1>3, TicketTyped DEF Ints, StakeOf, ReturnOf
<1> HIDE DEF mine, out, paid, rest
<1>9. /\ Sum(StakeOf, rest \cup paid) = Sum(StakeOf, rest) + Sum(StakeOf, paid)
      /\ Sum(StakeOf, rest \cup out) = Sum(StakeOf, rest) + Sum(StakeOf, out)
      /\ Sum(ReturnOf, rest \cup paid) = Sum(ReturnOf, rest) + Sum(ReturnOf, paid)
      /\ Sum(ReturnOf, rest \cup out) = Sum(ReturnOf, rest) + Sum(ReturnOf, out)
  BY <1>4, <1>5, <1>8, SumUnion
<1>10. Sum(ReturnOf, rest) \in Int /\ Sum(ReturnOf, paid) \in Int
  BY <1>5, <1>8, SumInt
<1>11. Sum(StakeOf, OwnedIn(after, p)) = Sum(StakeOf, mine)
  BY <1>4, <1>6, <1>9
<1>12. Sum(ReturnOf, OwnedIn(after, p)) = Sum(ReturnOf, mine) + Sum(ReturnOf, paid)
  <2>1. Sum(ReturnOf, mine) = Sum(ReturnOf, rest) + 0
    BY <1>4, <1>7, <1>9
  <2>2. Sum(ReturnOf, OwnedIn(after, p)) = Sum(ReturnOf, rest) + Sum(ReturnOf, paid)
    BY <1>4, <1>9
  <2> QED
    BY <1>10, <2>1, <2>2
<1> QED
  BY <1>11, <1>12 DEF mine, paid, after, graded

-----------------------------------------------------------------------------
(* Chips *)

Worth(c) == c.cash + c.wallet + (IF c.open THEN c.floor ELSE 0)

\* A credit is worth what the graded tickets return, wherever the chips go.
LEMMA CreditedWorth ==
  ASSUME NEW c \in Chips, NEW paid, IsFiniteSet(paid), \A t \in paid : t \in Ticket
  PROVE  Credited(c, paid) \in Chips /\ Worth(Credited(c, paid)) = Worth(c) + Sum(ReturnOf, paid)
<1> DEFINE onFloor == {t \in paid : c.open /\ t.visit = c.visit}
           rest == paid \ onFloor
           fl == MapThenSumSet(Return, onFloor)
           wl == MapThenSumSet(Return, rest)
<1>1. IsFiniteSet(onFloor) /\ IsFiniteSet(rest)
  BY FS_Subset
<1>2. (\A t \in onFloor : t \in Ticket) /\ (\A t \in rest : t \in Ticket) /\ onFloor \subseteq paid
      /\ (~c.open => onFloor = {})
  OBVIOUS
<1>3. Credited(c, paid) = [c EXCEPT !.floor = @ + fl, !.wallet = @ + wl]
  BY DEF Credited
<1>4. fl = Sum(ReturnOf, onFloor) /\ wl = Sum(ReturnOf, rest)
      /\ fl \in Nat /\ wl \in Nat
  <2> HIDE DEF onFloor, rest
  <2> QED
    BY <1>1, <1>2, BookSums
<1>5. Sum(ReturnOf, paid) = fl + wl
  <2>1. Ints(ReturnOf, paid)
    BY BookSums DEF Ints, Nats
  <2>2. Sum(ReturnOf, paid) = Sum(ReturnOf, onFloor) + Sum(ReturnOf, paid \ onFloor)
    <3> HIDE DEF onFloor
    <3> QED
      BY <1>2, <2>1, SumSplit
  <2> HIDE DEF onFloor
  <2> QED
    BY <1>4, <2>2 DEF rest
<1>6. ~c.open => fl = 0
  BY <1>2, <1>4, SumEmpty
<1> HIDE DEF fl, wl, onFloor, rest
<1>7. Credited(c, paid) \in Chips
  <2>1. PICK a, b : a = c.floor + fl /\ b = c.wallet + wl
    OBVIOUS
  <2>2. a \in Nat /\ b \in Nat
    BY <1>4, <2>1 DEF Chips
  <2>3. [c EXCEPT !.floor = a, !.wallet = b] \in Chips
    BY <2>2 DEF Chips
  <2> QED
    BY <1>3, <2>1, <2>3
<1>8. Worth(Credited(c, paid)) = Worth(c) + (fl + wl)
  BY <1>3, <1>4, <1>6 DEF Chips, Worth
<1> QED
  BY <1>5, <1>7, <1>8

-----------------------------------------------------------------------------
(* What each step does to the rows *)

LEMMA KindsTyped ==
  ASSUME TypeOK, NEW h \in Handlers
  PROVE  /\ Does(h, "wager") => task[h] \in Wager
         /\ Does(h, "settle") => task[h] \in Settlement
         /\ Does(h, "check") => task[h] \in Check
         /\ Does(h, "list") => task[h] \in Listing
         /\ Does(h, "favor") => task[h] \in Favor
<1>1. Does(h, "wager") \/ Does(h, "settle") \/ Does(h, "check") \/ Does(h, "list") \/ Does(h, "favor")
      => task[h] \in Task
  BY DEF TypeOK, Does, Idle
<1>2. \A t : /\ t \in Wager => t.op = "wager"
             /\ t \in Settlement => t.op = "settle"
             /\ t \in Check => t.op = "check"
             /\ t \in Listing => t.op = "list"
             /\ t \in Favor => t.op = "favor"
  BY DEF Wager, Settlement, Check, Listing, Favor
<1> QED
  BY <1>1, <1>2 DEF Does, Task

\* The wager of slip is written: its ticket, its action id and the bankroll.
Places(slip, bought) ==
  /\ Takes(slip)
  /\ bought \in Ticket /\ bought.player = slip.player /\ bought.id = slip.id
  /\ bought.game = slip.game /\ bought.side = slip.side /\ bought.stake = slip.stake
  /\ bought.payout = Payout(slip) /\ bought.payout >= bought.stake /\ bought.status = "OPEN"
  /\ tickets' = tickets \cup {bought}
  /\ ledger' = ledger \cup {<<slip.player, slip.id>>}
  /\ chips' = [chips EXCEPT ![slip.player].floor = chips[slip.player].floor - slip.stake]
  /\ UNCHANGED <<game, reopened>>

\* The open tickets of e are graded and paid.
Grades(e, outcome) ==
  /\ game' = [game EXCEPT ![e] = [status |-> IF outcome = "VOID" THEN "VOID" ELSE "FINAL",
                                  settled |-> TRUE]]
  /\ tickets' = SettledIn(tickets, e, outcome)
  /\ chips' = [p \in Players |->
                IF \E t \in OpenIn(tickets, e) : t.player = p
                THEN Credited(chips[p], OwnedIn(GradedIn(tickets, e, outcome), p)) ELSE chips[p]]
  /\ UNCHANGED <<ledger, reopened>>

\* Chips and cash change hands at the cage, under a new action id.
Exchanges(p, id, new) ==
  /\ new \in Chips /\ Worth(new) = Worth(chips[p])
  /\ chips' = [chips EXCEPT ![p] = new]
  /\ ledger' = ledger \cup {<<p, id>>}
  /\ UNCHANGED <<game, tickets, reopened>>

\* The feed writes a status over the one the game has.
Overwrites(e, status) ==
  /\ game' = [game EXCEPT ![e].status = status]
  /\ reopened' = reopened \cup {d \in {e} : game[d].settled}
  /\ UNCHANGED <<tickets, chips, ledger>>

SameBook == UNCHANGED <<game, tickets, chips, ledger, reopened>>

LEMMA PlaceIs ==
  ASSUME IInv, TypeOK, NEW h \in Handlers, PlaceWager(h)
  PROVE  Places(task[h].slip, TicketFor(task[h].slip, chips[task[h].slip.player].visit)) /\ task[h].slip \in Slip
<1>1. PICK slip : slip = task[h].slip
  OBVIOUS
<1>2. slip \in Slips /\ slip \in Slip
  BY <1>1, KindsTyped, SportsbookAssumption DEF PlaceWager, Wager
<1>3. Takes(slip) /\ chips[slip.player].floor = task[h].floor
  BY <1>1 DEF IInv, JudgedStands, PlaceWager
<1>4. chips[slip.player] \in Chips
  BY <1>2, SlipRows DEF TypeOK
<1>5. PICK visit \in Nat : visit = chips[slip.player].visit
  BY <1>4 DEF Chips
<1>6. PICK bought : bought = TicketFor(slip, visit)
  OBVIOUS
<1>7. /\ bought \in Ticket /\ bought.player = slip.player /\ bought.id = slip.id
      /\ bought.game = slip.game /\ bought.side = slip.side /\ bought.stake = slip.stake
      /\ bought.payout = Payout(slip) /\ bought.payout >= bought.stake /\ bought.status = "OPEN"
  BY <1>2, <1>6, BoughtTyped
<1>8. /\ tickets' = tickets \cup {bought}
      /\ ledger' = ledger \cup {<<slip.player, slip.id>>}
      /\ chips' = [chips EXCEPT ![slip.player].floor = chips[slip.player].floor - slip.stake]
      /\ UNCHANGED <<game, reopened>>
  BY <1>1, <1>3, <1>5, <1>6 DEF PlaceWager
<1>9. Places(slip, bought)
  BY <1>3, <1>7, <1>8 DEF Places
<1> QED
  BY <1>1, <1>2, <1>5, <1>6, <1>9

LEMMA SettlesIs ==
  ASSUME TypeOK, NEW h \in Handlers, Does(h, "settle"), NEW due, due = Open(On(task[h].game)),
         Settles(h, due)
  PROVE  Grades(task[h].game, task[h].outcome)
<1>1. PICK e, outcome : e = task[h].game /\ outcome = task[h].outcome
  OBVIOUS
<1>2. due = OpenIn(tickets, e) /\ due \cap tickets = due
  BY <1>1 DEF Open, On, OpenIn
<1>3. GradedOf(due, outcome) = {Regraded(t, outcome) : t \in due}
  BY <1>2 DEF GradedOf, Regraded
<1> DEFINE graded == {Regraded(t, outcome) : t \in due}
<1>4. /\ game' = [game EXCEPT ![e] = [status |-> IF outcome = "VOID" THEN "VOID" ELSE "FINAL",
                                      settled |-> TRUE]]
      /\ tickets' = (tickets \ due) \cup graded
      /\ chips' = [p \in Players |->
                    IF \E t \in due : t.player = p
                    THEN Credited(chips[p], {t \in graded : t.player = p}) ELSE chips[p]]
      /\ UNCHANGED <<ledger, reopened>>
  BY <1>1, <1>3 DEF Settles
<1>5. \A p : OwnedIn(graded, p) = {t \in graded : t.player = p}
  BY DEF OwnedIn
<1>6. Grades(e, outcome)
  BY <1>2, <1>4, <1>5 DEF Grades, SettledIn, GradedIn
<1> QED
  BY <1>1, <1>6

LEMMA CageIs ==
  ASSUME TypeOK, AtTheCage
  PROVE  \E p \in Players, id \in ActionIds, new \in Chips : Exchanges(p, id, new)
<1>1. PICK p \in Players, id \in ActionIds :
        \/ \E n \in Amounts : BuyChips(p, id, n) \/ RedeemChips(p, id, n) \/ StartSession(p, id, n)
        \/ CloseSession(p, id)
  BY DEF AtTheCage
<1>2. PICK c \in Chips : c = chips[p]
  BY DEF TypeOK
<1> DEFINE Good == \E new \in Chips : Worth(new) = Worth(c) /\ Cage(p, id, new)
<1>3. Good
  <2> USE SportsbookAssumption
  <2>1. ASSUME NEW n \in Amounts, BuyChips(p, id, n) PROVE Good
    <3>1. n \in Nat /\ c.cash >= n
      BY <1>2, <2>1 DEF BuyChips
    <3>2. PICK cash, floor, wallet : cash = c.cash - n /\ floor = c.floor + n /\ wallet = c.wallet + n
      OBVIOUS
    <3>5. cash \in Nat /\ floor \in Nat /\ wallet \in Nat
      BY <1>2, <3>1, <3>2 DEF Chips
    <3>3. CASE c.open
      <4>1. Cage(p, id, [c EXCEPT !.cash = cash, !.floor = floor])
        BY <1>2, <2>1, <3>2, <3>3 DEF BuyChips
      <4>2. [c EXCEPT !.cash = cash, !.floor = floor] \in Chips
        BY <1>2, <3>5 DEF Chips
      <4>3. Worth([c EXCEPT !.cash = cash, !.floor = floor]) = Worth(c)
        BY <1>2, <3>1, <3>2, <3>3 DEF Chips, Worth
      <4> QED
        BY <4>1, <4>2, <4>3
    <3>4. CASE ~c.open
      <4>1. Cage(p, id, [c EXCEPT !.cash = cash, !.wallet = wallet])
        BY <1>2, <2>1, <3>2, <3>4 DEF BuyChips
      <4>2. [c EXCEPT !.cash = cash, !.wallet = wallet] \in Chips
        BY <1>2, <3>5 DEF Chips
      <4>3. Worth([c EXCEPT !.cash = cash, !.wallet = wallet]) = Worth(c)
        BY <1>2, <3>1, <3>2, <3>4 DEF Chips, Worth
      <4> QED
        BY <4>1, <4>2, <4>3
    <3> QED
      BY <3>3, <3>4
  <2>2. ASSUME NEW n \in Amounts, RedeemChips(p, id, n) PROVE Good
    <3>1. n \in Nat /\ c.wallet >= n
      BY <1>2, <2>2 DEF RedeemChips
    <3>2. PICK cash, wallet : cash = c.cash + n /\ wallet = c.wallet - n
      OBVIOUS
    <3>6. cash \in Nat /\ wallet \in Nat
      BY <1>2, <3>1, <3>2 DEF Chips
    <3>3. Cage(p, id, [c EXCEPT !.wallet = wallet, !.cash = cash])
      BY <1>2, <2>2, <3>2 DEF RedeemChips
    <3>4. [c EXCEPT !.wallet = wallet, !.cash = cash] \in Chips
      BY <1>2, <3>6 DEF Chips
    <3>5. Worth([c EXCEPT !.wallet = wallet, !.cash = cash]) = Worth(c)
      BY <1>2, <3>1, <3>2 DEF Chips, Worth
    <3> QED
      BY <3>3, <3>4, <3>5
  <2>3. ASSUME NEW n \in Amounts, StartSession(p, id, n) PROVE Good
    <3>1. n \in Nat /\ c.wallet >= n /\ ~c.open
      BY <1>2, <2>3 DEF StartSession
    <3>2. PICK wallet, visit : wallet = c.wallet - n /\ visit = c.visit + 1
      OBVIOUS
    <3>6. visit \in Nat /\ wallet \in Nat
      BY <1>2, <3>1, <3>2 DEF Chips
    <3>3. Cage(p, id, [c EXCEPT !.wallet = wallet, !.floor = n, !.visit = visit, !.open = TRUE])
      BY <1>2, <2>3, <3>2 DEF StartSession
    <3>4. [c EXCEPT !.wallet = wallet, !.floor = n, !.visit = visit, !.open = TRUE] \in Chips
      BY <1>2, <3>1, <3>6 DEF Chips
    <3>5. Worth([c EXCEPT !.wallet = wallet, !.floor = n, !.visit = visit, !.open = TRUE]) = Worth(c)
      BY <1>2, <3>1, <3>2 DEF Chips, Worth
    <3> QED
      BY <3>3, <3>4, <3>5
  <2>4. ASSUME CloseSession(p, id) PROVE Good
    <3>1. c.open
      BY <1>2, <2>4 DEF CloseSession
    <3>2. PICK wallet : wallet = c.wallet + c.floor
      OBVIOUS
    <3>6. wallet \in Nat
      BY <1>2, <3>2 DEF Chips
    <3>3. Cage(p, id, [c EXCEPT !.wallet = wallet, !.floor = 0, !.open = FALSE])
      BY <1>2, <2>4, <3>2 DEF CloseSession
    <3>4. [c EXCEPT !.wallet = wallet, !.floor = 0, !.open = FALSE] \in Chips
      BY <1>2, <3>6 DEF Chips
    <3>5. Worth([c EXCEPT !.wallet = wallet, !.floor = 0, !.open = FALSE]) = Worth(c)
      BY <1>2, <3>1, <3>2 DEF Chips, Worth
    <3> QED
      BY <3>3, <3>4, <3>5
  <2> HIDE DEF Good
  <2> QED
    BY <1>1, <2>1, <2>2, <2>3, <2>4
<1>4. PICK new \in Chips : Worth(new) = Worth(c) /\ Cage(p, id, new)
  BY <1>3
<1>5. Exchanges(p, id, new)
  BY <1>2, <1>4 DEF Exchanges, Cage
<1> QED
  BY <1>5

LEMMA LocksNextIs ==
  ASSUME TypeOK, NEW h \in Handlers, Does(h, "settle"), NEW due, due = Open(On(task[h].game)),
         NEW locks, LocksNext(h, due, locks)
  PROVE  SameBook \/ Grades(task[h].game, task[h].outcome)
<1>1. CASE Settles(h, due)
  BY <1>1, SettlesIs
<1>2. CASE UNCHANGED <<game, started, final, tickets, chips, ledger, favor, reopened>>
  BY <1>2 DEF SameBook
<1> QED
  BY <1>1, <1>2, LocksOrSettles

\* Every step leaves the book's rows alone or does one of these to them.
LEMMA BookCases ==
  ASSUME IInv, TypeOK, ListCurrent, Next
  PROVE  \/ SameBook
         \/ \E slip \in Slip, bought \in Ticket : Places(slip, bought)
         \/ \E e \in Events, outcome \in Outcomes : Grades(e, outcome)
         \/ \E p \in Players, id \in ActionIds, new \in Chips : Exchanges(p, id, new)
         \/ \E e \in Events, status \in {"PRE", "LIVE", "PULLED"} : Overwrites(e, status)
<1> DEFINE Goal == \/ SameBook
                   \/ \E slip \in Slip, bought \in Ticket : Places(slip, bought)
                   \/ \E e \in Events, outcome \in Outcomes : Grades(e, outcome)
                   \/ \E p \in Players, id \in ActionIds, new \in Chips : Exchanges(p, id, new)
                   \/ \E e \in Events, status \in {"PRE", "LIVE", "PULLED"} : Overwrites(e, status)
<1>1. ASSUME NEW h \in Handlers, PlaceWager(h) PROVE Goal
  <2>1. PICK slip, bought : Places(slip, bought) /\ slip \in Slip
    BY <1>1, PlaceIs
  <2>2. bought \in Ticket
    BY <2>1 DEF Places
  <2> QED
    BY <2>1, <2>2
<1>2. ASSUME NEW h \in Handlers, SettleGame(h) PROVE Goal
  <2>1. task[h].game \in Events /\ task[h].outcome \in Outcomes
    BY <1>2, KindsTyped DEF SettleGame, Settlement
  <2>2. SameBook \/ Grades(task[h].game, task[h].outcome)
    <3>1. CASE UNCHANGED <<game, started, final, tickets, chips, ledger, favor, reopened>>
      BY <3>1 DEF SameBook
    <3>2. CASE LocksNext(h, Open(On(task[h].game)), {task[h].game})
      BY <1>2, <3>2, LocksNextIs DEF SettleGame
    <3> QED
      BY <1>2, <3>1, <3>2 DEF SettleGame
  <2> QED
    BY <2>1, <2>2
<1>3. ASSUME NEW h \in Handlers, LockHolder(h) PROVE Goal
  <2>1. task[h].game \in Events /\ task[h].outcome \in Outcomes
    BY <1>3, KindsTyped DEF LockHolder, Settlement
  <2>2. IsSettlement(task[h]) /\ task[h].want \in Players
    BY <1>3, TaskKinds DEF LockHolder, IInv
  <2>3. task[h].locks # {}
    BY <2>1, <2>2, RowsApart DEF IsSettlement
  <2>4. task[h].due = Open(On(task[h].game))
    BY <1>3, <2>3 DEF ListCurrent, LockHolder
  <2>5. SameBook \/ Grades(task[h].game, task[h].outcome)
    BY <1>3, <2>4, LocksNextIs DEF LockHolder
  <2> QED
    BY <2>1, <2>5
<1>4. ASSUME NEW h \in Handlers, WriteListing(h) PROVE Goal
  <2>1. task[h].game \in Events /\ task[h].lists \in {"PRE", "LIVE", "PULLED"}
    BY <1>4, KindsTyped DEF WriteListing, Listing
  <2>2. Overwrites(task[h].game, task[h].lists)
    BY <1>4 DEF WriteListing, Overwrites
  <2> QED
    BY <2>1, <2>2
<1>5. ASSUME NEW h \in Handlers, Advance(h) PROVE Goal
  <2>1. CASE LockGame(h) \/ JudgeWager(h) \/ Evaluate(h) \/ PickFavor(h) \/ AcceptFavor(h)
    BY <2>1 DEF LockGame, JudgeWager, Evaluate, PickFavor, AcceptFavor, SameBook
  <2> HIDE DEF Goal
  <2> QED
    BY <1>1, <1>2, <1>3, <1>4, <1>5, <2>1 DEF Advance
<1>6. ASSUME AtTheCage PROVE Goal
  BY <1>6, CageIs
<1>7. ASSUME AtTheDesk PROVE Goal
  BY <1>7 DEF AtTheDesk, SubmitWager, AskFavor, Void, Resolve, Recheck, Request, SameBook
<1>8. ASSUME NEW e \in Listed, PullLine(e) PROVE Goal
  <2>1. e \in Events /\ ~game[e].settled
    BY <1>8, SportsbookAssumption DEF PullLine
  <2>2. Overwrites(e, "PULLED")
    BY <1>8, <2>1 DEF PullLine, Overwrites
  <2> QED
    BY <2>1, <2>2
<1>9. ASSUME NEW e, ListGame(e) \/ Poll(e) \/ GameStarts(e) PROVE Goal
  BY <1>9 DEF ListGame, Poll, GameStarts, SameBook
<1>10. ASSUME NEW h, Lose(h) \/ BreakDeadlock PROVE Goal
  BY <1>10 DEF Lose, BreakDeadlock, SameBook
<1> HIDE DEF Goal
<1>11. Goal
  BY <1>5, <1>6, <1>7, <1>8, <1>9, <1>10 DEF Next
<1> QED
  BY <1>11 DEF Goal

-----------------------------------------------------------------------------
(* Types *)

LEMMA Retasked ==
  ASSUME TypeOK, NEW h \in Handlers, NEW new \in Task \cup {None}, task' = [task EXCEPT ![h] = new]
  PROVE  task' \in [Handlers -> Task \cup {None}]
  BY DEF TypeOK

LEMMA LocksNextTyped ==
  ASSUME TypeOK, NEW h \in Handlers, Does(h, "settle"), NEW due \in SUBSET Ticket,
         NEW locks \in SUBSET Rows, LocksNext(h, due, locks)
  PROVE  task' \in [Handlers -> Task \cup {None}]
<1>1. CASE Settles(h, due)
  BY <1>1, Retasked DEF Settles, Done, Goes
<1>2. CASE \E p \in {t.player : t \in due} \cup Players :
             Goes(h, [task[h] EXCEPT !.due = due, !.locks = locks, !.want = p])
  <2>1. PICK p \in Rows : Goes(h, [task[h] EXCEPT !.due = due, !.locks = locks, !.want = p])
    <3>1. \A t \in due : t.player \in Players
      BY TicketTyped
    <3> QED
      BY <1>2, <3>1 DEF Rows
  <2>2. PICK new : /\ new = [task[h] EXCEPT !.due = due, !.locks = locks, !.want = p]
                   /\ task' = [task EXCEPT ![h] = new]
    BY <2>1 DEF Goes
  <2>3. new \in Settlement
    <3>1. task[h] \in Settlement
      BY KindsTyped
    <3> QED
      BY <2>2, <3>1 DEF Settlement
  <2> QED
    BY <2>2, <2>3, Retasked DEF Task
<1> QED
  BY <1>1, <1>2, LocksOrSettles

LEMMA AdvanceTyped ==
  ASSUME TypeOK, NEW h \in Handlers, Advance(h)
  PROVE  task' \in [Handlers -> Task \cup {None}]
<1>1. CASE Done(h)
  BY <1>1, Retasked DEF Done, Goes
<1>2. CASE LockGame(h)
  <2>1. PICK new : /\ new = [task[h] EXCEPT !.locks = {task[h].slip.game}, !.want = task[h].slip.player]
                   /\ task' = [task EXCEPT ![h] = new]
    BY <1>2 DEF LockGame, Goes
  <2>2. task[h] \in Wager /\ task[h].slip \in Slips
    BY <1>2, KindsTyped DEF LockGame, Wager
  <2>3. task[h].slip.game \in Rows /\ task[h].slip.player \in Rows
    BY <2>2, SlipRows DEF Rows
  <2>4. new \in Wager
    BY <2>1, <2>2, <2>3 DEF Wager
  <2> QED
    BY <2>1, <2>4, Retasked DEF Task
<1>3. CASE JudgeWager(h) /\ ~Done(h)
  <2>1. PICK slip : slip = task[h].slip
    OBVIOUS
  <2>2. PICK floor, new : /\ floor = chips[slip.player].floor /\ task' = [task EXCEPT ![h] = new]
                          /\ new = [task[h] EXCEPT !.locks = @ \cup {slip.player}, !.want = None, !.floor = floor]
    BY <1>3, <2>1 DEF JudgeWager, Goes
  <2>3. task[h] \in Wager /\ slip \in Slips
    BY <1>3, <2>1, KindsTyped DEF JudgeWager, Wager
  <2>4. slip.player \in Rows /\ slip.player \in Players
    BY <2>3, SlipRows DEF Rows
  <2>5. floor \in Nat
    BY <2>2, <2>4 DEF TypeOK, Chips
  <2>6. new \in Wager
    BY <2>2, <2>3, <2>4, <2>5 DEF Wager
  <2> QED
    BY <2>2, <2>6, Retasked DEF Task
<1>4. CASE PlaceWager(h)
  BY <1>1, <1>4 DEF PlaceWager
<1>5. CASE SettleGame(h) /\ ~Done(h)
  <2>1. task[h] \in Settlement
    BY <1>5, KindsTyped DEF SettleGame
  <2>2. PICK due, locks : /\ due = Open(On(task[h].game)) /\ locks = {task[h].game}
                          /\ LocksNext(h, due, locks)
    BY <1>5 DEF SettleGame
  <2>3. due \in SUBSET Ticket /\ locks \in SUBSET Rows
    BY <2>1, <2>2 DEF Open, On, Rows, TypeOK, Settlement
  <2> QED
    BY <1>5, <2>2, <2>3, LocksNextTyped DEF SettleGame
<1>6. CASE LockHolder(h)
  <2>1. task[h] \in Settlement
    BY <1>6, KindsTyped DEF LockHolder
  <2>2. PICK due, locks : /\ due = task[h].due /\ locks = task[h].locks \cup {task[h].want}
                          /\ LocksNext(h, due, locks)
    BY <1>6 DEF LockHolder
  <2>3. due \in SUBSET Ticket /\ locks \in SUBSET Rows
    BY <1>6, <2>1, <2>2 DEF Rows, Settlement, LockHolder
  <2> QED
    BY <1>6, <2>2, <2>3, LocksNextTyped DEF LockHolder
<1>7. CASE WriteListing(h)
  BY <1>1, <1>7 DEF WriteListing
<1>8. CASE Evaluate(h) /\ ~Done(h)
  <2>1. PICK new : /\ new = Settling(task[h].game, Result[task[h].game])
                   /\ task' = [task EXCEPT ![h] = new]
    BY <1>8 DEF Evaluate, Goes
  <2>2. task[h].game \in Events
    BY <1>8, KindsTyped DEF Evaluate, Check
  <2>3. Result[task[h].game] \in Outcomes
    BY <2>2, SportsbookAssumption DEF Outcomes
  <2>4. new \in Settlement
    BY <2>1, <2>2, <2>3 DEF Settling, Settlement, Rows
  <2> QED
    BY <2>1, <2>4, Retasked DEF Task
<1>9. CASE PickFavor(h) /\ ~Done(h)
  <2>1. PICK e \in Events : Goes(h, [task[h] EXCEPT !.game = e, !.locks = {task[h].player}, !.want = e])
    BY <1>9 DEF PickFavor
  <2>2. PICK new : /\ new = [task[h] EXCEPT !.game = e, !.locks = {task[h].player}, !.want = e]
                   /\ task' = [task EXCEPT ![h] = new]
    BY <2>1 DEF Goes
  <2>3. task[h] \in Favor
    BY <1>9, KindsTyped DEF PickFavor
  <2>4. new \in Favor
    BY <2>2, <2>3 DEF Favor, Rows
  <2> QED
    BY <2>2, <2>4, Retasked DEF Task
<1>10. CASE AcceptFavor(h)
  BY <1>1, <1>10 DEF AcceptFavor
<1> QED
  BY <1>1, <1>2, <1>3, <1>4, <1>5, <1>6, <1>7, <1>8, <1>9, <1>10 DEF Advance

LEMMA CageChanges ==
  ASSUME AtTheCage
  PROVE  UNCHANGED <<game, started, final, tickets, favor, task, reopened>> /\ requests' = requests + 1
<1>1. ASSUME NEW p, NEW id, NEW new, Cage(p, id, new)
      PROVE  UNCHANGED <<game, started, final, tickets, favor, task, reopened>> /\ requests' = requests + 1
  BY <1>1 DEF Cage
<1> QED
  BY <1>1 DEF AtTheCage, BuyChips, RedeemChips, StartSession, CloseSession

LEMMA OthersTyped ==
  ASSUME TypeOK, Next, \A h \in Handlers : ~Advance(h)
  PROVE  task' \in [Handlers -> Task \cup {None}]
<1> DEFINE Goal == task' \in [Handlers -> Task \cup {None}]
<1> USE DEF Handlers
<1>1. ASSUME UNCHANGED task PROVE Goal
  BY <1>1 DEF TypeOK
<1>2. ASSUME NEW h \in Handlers, Lose(h) PROVE Goal
  BY <1>2, Retasked DEF Lose
<1>3. ASSUME BreakDeadlock PROVE Goal
  BY <1>3, Retasked DEF BreakDeadlock, Done, Goes
<1>4. ASSUME NEW h \in Clients, NEW slip \in Slips, SubmitWager(h, slip) PROVE Goal
  <2>1. PICK new : /\ new = [op |-> "wager", slip |-> slip, inTime |-> slip.game \notin started,
                             floor |-> 0, locks |-> {}, want |-> slip.game]
                   /\ task' = [task EXCEPT ![h] = new]
    BY <1>4 DEF SubmitWager, Request
  <2>2. slip.game \in Rows
    BY SlipRows DEF Rows
  <2>3. new \in Wager
    BY <2>1, <2>2 DEF Wager
  <2> QED
    BY <2>1, <2>3, Retasked DEF Task
<1>5. ASSUME NEW h \in Clients, NEW p \in Players, AskFavor(h, p) PROVE Goal
  <2>1. PICK new : /\ new = [op |-> "favor", player |-> p, game |-> None, locks |-> {}, want |-> p]
                   /\ task' = [task EXCEPT ![h] = new]
    BY <1>5 DEF AskFavor, Request
  <2>2. new \in Favor
    BY <2>1 DEF Favor, Rows
  <2> QED
    BY <2>1, <2>2, Retasked DEF Task
<1>6. ASSUME NEW h \in Clients, NEW e \in Events, Void(h, e) \/ Resolve(h, e) PROVE Goal
  <2>1. PICK outcome \in Outcomes : task' = [task EXCEPT ![h] = Settling(e, outcome)]
    BY <1>6, SportsbookAssumption DEF Void, Resolve, Request, Outcomes
  <2>2. PICK new : new = Settling(e, outcome) /\ task' = [task EXCEPT ![h] = new]
    BY <2>1
  <2>3. new \in Settlement
    BY <2>2 DEF Settling, Settlement, Rows
  <2> QED
    BY <2>2, <2>3, Retasked DEF Task
<1>7. ASSUME NEW h \in Handlers, NEW e \in Events,
             task' = [task EXCEPT ![h] = [op |-> "check", game |-> e, locks |-> {}, want |-> None]]
      PROVE  Goal
  <2>1. PICK new : /\ new = [op |-> "check", game |-> e, locks |-> {}, want |-> None]
                   /\ task' = [task EXCEPT ![h] = new]
    BY <1>7
  <2>2. new \in Check
    BY <2>1 DEF Check
  <2> QED
    BY <2>1, <2>2, Retasked DEF Task
<1>8. ASSUME NEW e \in Listed, ListGame(e) PROVE Goal
  <2>1. e \in Events
    BY SportsbookAssumption
  <2>2. PICK new : /\ new = [op |-> "list", game |-> e, lists |-> IF e \in started THEN "LIVE" ELSE "PRE",
                             locks |-> {}, want |-> e]
                   /\ UNCHANGED task \/ task' = [task EXCEPT ![Poller] = new]
    BY <1>8 DEF ListGame
  <2>3. new \in Listing
    BY <2>1, <2>2 DEF Listing
  <2> QED
    BY <1>1, <2>2, <2>3, Retasked DEF Task
<1>9. ASSUME NEW h \in Clients, NEW e \in Events, Recheck(h, e) PROVE Goal
  BY <1>7, <1>9 DEF Recheck, Request
<1>10. ASSUME NEW e \in Events, Poll(e) PROVE Goal
  BY <1>7, <1>10 DEF Poll
<1>11. ASSUME AtTheDesk PROVE Goal
  BY <1>4, <1>5, <1>6, <1>9, <1>11 DEF AtTheDesk
<1>12. ASSUME AtTheCage PROVE Goal
  BY <1>1, <1>12, CageChanges
<1>13. ASSUME NEW e, PullLine(e) \/ GameStarts(e) PROVE Goal
  BY <1>1, <1>13 DEF PullLine, GameStarts
<1> QED
  BY <1>2, <1>3, <1>8, <1>10, <1>11, <1>12, <1>13 DEF Next

LEMMA BookKept ==
  ASSUME TypeOK, IsFiniteSet(tickets), KeyedOnce
  PROVE  WellKept(tickets)
  BY DEF TypeOK, KeyedOnce, WellKept

LEMMA GradesTyped ==
  ASSUME TypeOK, IsFiniteSet(tickets), KeyedOnce, NEW e \in Events, NEW outcome \in Outcomes, Grades(e, outcome)
  PROVE  /\ game' \in [Events -> Game]
         /\ \A t \in tickets' : t \in Ticket
         /\ IsFiniteSet(tickets')
         /\ chips' \in [Players -> Chips]
<1> DEFINE due == OpenIn(tickets, e)
           graded == GradedIn(tickets, e, outcome)
           after == SettledIn(tickets, e, outcome)
<1>1. /\ game' = [game EXCEPT ![e] = [status |-> IF outcome = "VOID" THEN "VOID" ELSE "FINAL",
                                      settled |-> TRUE]]
      /\ tickets' = after
      /\ chips' = [p \in Players |->
                    IF \E t \in due : t.player = p
                    THEN Credited(chips[p], OwnedIn(graded, p)) ELSE chips[p]]
  BY DEF Grades
<1>2. WellKept(tickets)
  BY BookKept
<1>3. WellKept(after) /\ IsFiniteSet(graded)
  BY <1>2, AfterSettlement
<1>4. (\A t \in after : t \in Ticket) /\ IsFiniteSet(after) /\ IsFiniteSet(graded) /\ graded \subseteq after
  BY <1>3 DEF WellKept, SettledIn
<1>5. game' \in [Events -> Game]
  BY <1>1 DEF TypeOK, Game
<1>6. \A t \in graded : t \in Ticket
  BY <1>4
<1>7. \A p \in Players : IsFiniteSet(OwnedIn(graded, p)) /\ \A t \in OwnedIn(graded, p) : t \in Ticket
  <2> HIDE DEF graded
  <2> QED
    BY <1>4, <1>6, FS_Subset DEF OwnedIn
<1> HIDE DEF graded, due, after
<1>8. \A p \in Players : chips[p] \in Chips
  BY DEF TypeOK
<1>9. \A p \in Players : Credited(chips[p], OwnedIn(graded, p)) \in Chips
  BY <1>7, <1>8, CreditedWorth
<1>10. chips' \in [Players -> Chips]
  BY <1>1, <1>8, <1>9
<1> QED
  BY <1>1, <1>4, <1>5, <1>10

LEMMA PlacesTyped ==
  ASSUME TypeOK, IsFiniteSet(tickets), NEW slip \in Slip, NEW bought \in Ticket, Places(slip, bought)
  PROVE  /\ \A t \in tickets' : t \in Ticket
         /\ IsFiniteSet(tickets')
         /\ chips' \in [Players -> Chips]
         /\ ledger' \subseteq Players \X ActionIds
<1>1. slip.player \in Players /\ slip.id \in ActionIds /\ slip.stake \in Nat
  BY DEF Slip
<1>2. PICK c \in Chips : c = chips[slip.player]
  BY <1>1 DEF TypeOK
<1>3. PICK floor : floor = c.floor - slip.stake
  OBVIOUS
<1>4. floor \in Nat
  BY <1>1, <1>2, <1>3 DEF Places, Takes, Chips
<1>5. [c EXCEPT !.floor = floor] \in Chips
  BY <1>4 DEF Chips
<1>6. chips' = [chips EXCEPT ![slip.player] = [c EXCEPT !.floor = floor]]
  BY <1>2, <1>3 DEF Places
<1>7. chips' \in [Players -> Chips]
  BY <1>5, <1>6 DEF TypeOK
<1>8. IsFiniteSet(tickets')
  BY FS_AddElement DEF Places
<1> QED
  BY <1>1, <1>7, <1>8 DEF Places, TypeOK

LEMMA TypesKept ==
  ASSUME IInv, TypeOK, IsFiniteSet(tickets), KeyedOnce, ListCurrent, Next
  PROVE  TypeOK' /\ IsFiniteSet(tickets')
<1>1. task' \in [Handlers -> Task \cup {None}]
  BY AdvanceTyped, OthersTyped
<1>2. started' \subseteq Events /\ final' \subseteq Events /\ favor' \in [Players -> Events \cup {None}]
  <2>1. ASSUME NEW h \in Handlers, Advance(h) PROVE <1>2!:
    <3>1. CASE AcceptFavor(h)
      <4>1. task[h] \in Favor /\ task[h].game # None
        BY <3>1, KindsTyped DEF AcceptFavor
      <4>2. task[h].player \in Players /\ task[h].game \in Events
        BY <4>1 DEF Favor
      <4> QED
        BY <3>1, <4>2 DEF AcceptFavor, TypeOK
    <3>2. CASE UNCHANGED <<started, final, favor>>
      BY <3>2 DEF TypeOK
    <3>3. AcceptFavor(h) \/ UNCHANGED <<started, final, favor>>
      BY <2>1 DEF Advance, LockGame, JudgeWager, PlaceWager, SettleGame, LockHolder, LocksNext, Settles,
                  WriteListing, Evaluate, PickFavor
    <3> QED
      BY <3>1, <3>2, <3>3
  <2>2. ASSUME ~ \E h \in Handlers : Advance(h) PROVE <1>2!:
    <3>1. UNCHANGED favor /\ (started' = started \/ \E e \in Events : started' = started \cup {e})
          /\ final' \subseteq final \cup Events
      <4>1. CASE \E h \in Handlers : Lose(h)
        BY <4>1 DEF Lose
      <4>2. CASE BreakDeadlock
        BY <4>2 DEF BreakDeadlock
      <4>3. CASE AtTheDesk
        BY <4>3 DEF AtTheDesk, SubmitWager, AskFavor, Void, Resolve, Recheck
      <4>4. CASE AtTheCage
        BY <4>4, CageChanges
      <4>5. CASE \E e \in Listed : ListGame(e) \/ PullLine(e)
        BY <4>5 DEF ListGame, PullLine
      <4>6. CASE \E e \in Events : Poll(e) \/ GameStarts(e)
        BY <4>6 DEF Poll, GameStarts
      <4> QED
        BY <2>2, <4>1, <4>2, <4>3, <4>4, <4>5, <4>6 DEF Next
    <3> QED
      BY <3>1 DEF TypeOK
  <2> QED
    BY <2>1, <2>2
<1>3. requests' \in Nat
  <2>1. requests' = requests \/ requests' = requests + 1
    <3>1. ASSUME NEW h \in Handlers, Advance(h) \/ Lose(h) PROVE <2>1!:
      BY <3>1 DEF Advance, LockGame, JudgeWager, PlaceWager, SettleGame, LockHolder, LocksNext, Settles,
                  WriteListing, Evaluate, PickFavor, AcceptFavor, Goes, Done, Lose
    <3>2. ASSUME BreakDeadlock PROVE <2>1!:
      BY <3>2 DEF BreakDeadlock, Done, Goes
    <3>3. ASSUME AtTheDesk PROVE <2>1!:
      BY <3>3 DEF AtTheDesk, SubmitWager, AskFavor, Void, Resolve, Recheck, Request
    <3>4. ASSUME AtTheCage PROVE <2>1!:
      BY <3>4, CageChanges
    <3>5. ASSUME NEW e, ListGame(e) \/ PullLine(e) \/ Poll(e) \/ GameStarts(e) PROVE <2>1!:
      BY <3>5 DEF ListGame, PullLine, Poll, GameStarts
    <3> QED
      BY <3>1, <3>2, <3>3, <3>4, <3>5 DEF Next
  <2> QED
    BY <2>1 DEF TypeOK
<1> DEFINE Rest == /\ game' \in [Events -> Game] /\ reopened' \subseteq Events
                   /\ \A t \in tickets' : t \in Ticket
                   /\ IsFiniteSet(tickets')
                   /\ chips' \in [Players -> Chips]
                   /\ ledger' \subseteq Players \X ActionIds
<1>4. \A t \in tickets : t \in Ticket
  BY DEF TypeOK
<1>5. ASSUME SameBook PROVE Rest
  BY <1>4, <1>5 DEF SameBook, TypeOK
<1>6. ASSUME NEW slip \in Slip, NEW bought \in Ticket, Places(slip, bought) PROVE Rest
  <2>1. game' = game /\ reopened' = reopened
    BY <1>6 DEF Places
  <2> QED
    BY <1>6, <2>1, PlacesTyped DEF TypeOK
<1>7. ASSUME NEW e \in Events, NEW outcome \in Outcomes, Grades(e, outcome) PROVE Rest
  <2>1. ledger' = ledger /\ reopened' = reopened
    BY <1>7 DEF Grades
  <2> QED
    BY <1>7, <2>1, GradesTyped DEF TypeOK
<1>8. ASSUME NEW p \in Players, NEW id \in ActionIds, NEW new \in Chips, Exchanges(p, id, new) PROVE Rest
  BY <1>4, <1>8 DEF Exchanges, TypeOK
<1>9. ASSUME NEW e \in Events, NEW status \in {"PRE", "LIVE", "PULLED"}, Overwrites(e, status) PROVE Rest
  <2>1. game' \in [Events -> Game]
    BY <1>9 DEF Overwrites, TypeOK, Game
  <2> QED
    BY <1>4, <1>9, <2>1 DEF Overwrites, TypeOK
<1>10. Rest
  <2> HIDE DEF Rest
  <2> QED
    BY <1>5, <1>6, <1>7, <1>8, <1>9, BookCases
<1> QED
  BY <1>1, <1>2, <1>3, <1>10 DEF TypeOK

-----------------------------------------------------------------------------
(* Open tickets *)

LEMMA GradesOpen ==
  ASSUME NEW T, WellKept(T), NEW e, NEW outcome \in Outcomes, NEW d
  PROVE  OpenIn(SettledIn(T, e, outcome), d) = IF d = e THEN {} ELSE OpenIn(T, d)
<1>1. \A t \in OpenIn(T, e) : t \in Ticket /\ t.game = e
  BY DEF WellKept, OpenIn
<1>2. \A u \in GradedIn(T, e, outcome) : u.status # "OPEN"
  BY <1>1, RegradedIs DEF GradedIn
<1> QED
  BY <1>2 DEF SettledIn, OpenIn

LEMMA PlacesOpen ==
  ASSUME NEW slip, NEW bought, Places(slip, bought), NEW d
  PROVE  OpenIn(tickets', d) = IF d = slip.game THEN OpenIn(tickets, d) \cup {bought} ELSE OpenIn(tickets, d)
  BY DEF Places, OpenIn

-----------------------------------------------------------------------------
(* A settlement's list stays current *)

LEMMA MoveKeepsLists ==
  ASSUME TasksOK, ListCurrent, UNCHANGED tickets, NEW h \in Handlers, NEW new,
         task' = [task EXCEPT ![h] = new],
         new # None /\ new.op = "settle" /\ new.locks # {} => new.due = Open(On(new.game))
  PROVE  ListCurrent'
<1> SUFFICES ASSUME NEW k \in Handlers, Does(k, "settle")', task'[k].locks # {}
             PROVE  task'[k].due = OpenIn(tickets, task'[k].game)
  BY DEF ListCurrent, Open, On, OpenIn
<1>1. CASE k = h
  <2>1. task'[k] = new
    BY <1>1 DEF TasksOK
  <2> QED
    BY <2>1, OpenOnIs DEF Does, Idle
<1>2. CASE k # h
  <2>1. task'[k] = task[k]
    BY <1>2 DEF TasksOK
  <2> QED
    BY <2>1, OpenOnIs DEF Does, Idle, ListCurrent
<1> QED
  BY <1>1, <1>2

LEMMA StillLists ==
  ASSUME ListCurrent, UNCHANGED <<tickets, task>>
  PROVE  ListCurrent'
  BY DEF ListCurrent, Does, Idle, Open, On

\* h ends its task and changes tickets on a game no one else holds.
LEMMA ElsewhereLists ==
  ASSUME TasksOK, ListCurrent, NEW h \in Handlers, task' = [task EXCEPT ![h] = None],
         NEW e, \A k \in Handlers \ {h} : e \notin Held(k),
         \A d : d # e => OpenIn(tickets', d) = OpenIn(tickets, d)
  PROVE  ListCurrent'
<1> SUFFICES ASSUME NEW k \in Handlers, Does(k, "settle")', task'[k].locks # {}
             PROVE  task'[k].due = OpenIn(tickets', task'[k].game)
  BY DEF ListCurrent, Open, On, OpenIn
<1>1. k # h /\ task'[k] = task[k]
  BY DEF TasksOK, Does, Idle
<1>2. Does(k, "settle")
  BY <1>1 DEF Does, Idle
<1>3. IsSettlement(task[k])
  BY <1>2, TaskKinds
<1>4. task[k].game \in Held(k)
  BY <1>1, <1>2, <1>3 DEF IsSettlement, Held, Does
<1>5. task[k].game # e
  BY <1>1, <1>4
<1>6. task[k].due = OpenIn(tickets, task[k].game)
  BY <1>1, <1>2, OpenOnIs DEF ListCurrent
<1> QED
  BY <1>1, <1>5, <1>6

LEMMA LocksNextLists ==
  ASSUME TasksOK, TypeOK, IsFiniteSet(tickets), KeyedOnce, ListCurrent, NEW h \in Handlers,
         Does(h, "settle"), NEW due, due = Open(On(task[h].game)),
         \A k \in Handlers \ {h} : task[h].game \notin Held(k),
         NEW locks, LocksNext(h, due, locks)
  PROVE  ListCurrent'
<1>1. CASE Settles(h, due)
  <2>1. PICK e, outcome : e = task[h].game /\ outcome = task[h].outcome
    OBVIOUS
  <2>2. outcome \in Outcomes
    BY <2>1, KindsTyped DEF Settlement
  <2>3. tickets' = SettledIn(tickets, e, outcome)
    BY <1>1, <2>1, SettlesIs DEF Grades
  <2>4. \A d : d # e => OpenIn(tickets', d) = OpenIn(tickets, d)
    BY <2>2, <2>3, BookKept, GradesOpen
  <2>5. task' = [task EXCEPT ![h] = None]
    BY <1>1 DEF Settles, Done, Goes
  <2> QED
    BY <2>1, <2>4, <2>5, ElsewhereLists
<1>2. CASE /\ \E p : Goes(h, [task[h] EXCEPT !.due = due, !.locks = locks, !.want = p])
           /\ UNCHANGED <<game, started, final, tickets, chips, ledger, favor, reopened>>
  <2>1. PICK p, new : /\ new = [task[h] EXCEPT !.due = due, !.locks = locks, !.want = p]
                      /\ task' = [task EXCEPT ![h] = new]
    BY <1>2 DEF Goes
  <2>2. IsSettlement(task[h])
    BY TaskKinds
  <2>3. new.due = due /\ new.game = task[h].game
    BY <2>1, <2>2 DEF IsSettlement
  <2> QED
    BY <1>2, <2>1, <2>3, MoveKeepsLists
<1> QED
  BY <1>1, <1>2, LocksOrSettles

LEMMA AdvanceLists ==
  ASSUME IInv, TypeOK, IsFiniteSet(tickets), KeyedOnce, ListCurrent, NEW h \in Handlers, Advance(h)
  PROVE  ListCurrent'
<1> USE DEF IInv
<1>1. ASSUME UNCHANGED tickets, NEW new, task' = [task EXCEPT ![h] = new],
             new = None \/ new.op # "settle" \/ new.locks = {}
      PROVE  ListCurrent'
  BY <1>1, MoveKeepsLists
<1>2. CASE LockGame(h)
  <2>1. task[h] \in Wager
    BY <1>2, KindsTyped DEF LockGame
  <2>2. PICK new : /\ new = [task[h] EXCEPT !.locks = {task[h].slip.game}, !.want = task[h].slip.player]
                   /\ task' = [task EXCEPT ![h] = new]
    BY <1>2 DEF LockGame, Goes
  <2>3. new.op = "wager"
    BY <2>1, <2>2 DEF Wager
  <2> QED
    BY <1>1, <1>2, <2>2, <2>3 DEF LockGame
<1>3. CASE JudgeWager(h)
  <2>1. task[h] \in Wager
    BY <1>3, KindsTyped DEF JudgeWager
  <2>2. PICK new : task' = [task EXCEPT ![h] = new] /\ (new = None \/ new.op = "wager")
    <3>1. CASE Done(h)
      BY <3>1 DEF Done, Goes
    <3>2. CASE ~Done(h)
      <4>1. PICK p, f, new : /\ new = [task[h] EXCEPT !.locks = @ \cup {p}, !.want = None, !.floor = f]
                             /\ task' = [task EXCEPT ![h] = new]
        BY <1>3, <3>2 DEF JudgeWager, Goes
      <4>2. new.op = "wager"
        BY <2>1, <4>1 DEF Wager
      <4> QED
        BY <4>1, <4>2
    <3> QED
      BY <3>1, <3>2
  <2> QED
    BY <1>1, <1>3, <2>2 DEF JudgeWager
<1>4. CASE PlaceWager(h)
  <2>1. PICK slip, bought : slip = task[h].slip /\ Places(slip, bought)
    BY <1>4, PlaceIs
  <2>2. task' = [task EXCEPT ![h] = None] /\ Judged(h)
    BY <1>4 DEF PlaceWager, Done, Goes, Judged
  <2>3. \A k \in Handlers \ {h} : slip.game \notin Held(k)
    BY <2>1, <2>2, JudgedHolds
  <2>4. \A d : d # slip.game => OpenIn(tickets', d) = OpenIn(tickets, d)
    BY <2>1, PlacesOpen
  <2> QED
    BY <2>2, <2>3, <2>4, ElsewhereLists
<1>5. CASE SettleGame(h)
  <2>1. CASE Done(h) /\ UNCHANGED <<game, started, final, tickets, chips, ledger, favor, reopened>>
    BY <1>1, <2>1 DEF Done, Goes
  <2>2. CASE LocksNext(h, Open(On(task[h].game)), {task[h].game})
    <3>1. PICK due, locks : /\ due = Open(On(task[h].game)) /\ locks = {task[h].game}
                            /\ LocksNext(h, due, locks)
      BY <2>2
    <3>2. Does(h, "settle") /\ \A k \in Handlers \ {h} : task[h].game \notin Held(k)
      BY <1>5 DEF SettleGame, Locks
    <3> QED
      BY <3>1, <3>2, LocksNextLists
  <2> QED
    BY <1>5, <2>1, <2>2 DEF SettleGame
<1>6. CASE LockHolder(h)
  <2>1. Does(h, "settle") /\ IsSettlement(task[h]) /\ task[h].want \in Players
    BY <1>6, TaskKinds DEF LockHolder
  <2>2. task[h].game \in task[h].locks
    BY <2>1, RowsApart DEF IsSettlement
  <2>3. \A k \in Handlers \ {h} : task[h].game \notin Held(k)
    BY <2>1, <2>2 DEF TasksOK, Held, Does
  <2>4. PICK due, locks : due = task[h].due /\ LocksNext(h, due, locks)
    BY <1>6 DEF LockHolder
  <2>5. due = Open(On(task[h].game))
    BY <2>1, <2>2, <2>4 DEF ListCurrent
  <2> QED
    BY <2>1, <2>3, <2>4, <2>5, LocksNextLists
<1>7. CASE WriteListing(h)
  BY <1>1, <1>7 DEF WriteListing, Done, Goes
<1>8. CASE Evaluate(h)
  <2>1. PICK new : task' = [task EXCEPT ![h] = new] /\ (new = None \/ new.locks = {})
    BY <1>8 DEF Evaluate, Done, Goes, Settling
  <2> QED
    BY <1>1, <1>8, <2>1 DEF Evaluate
<1>9. CASE PickFavor(h)
  <2>1. task[h] \in Favor
    BY <1>9, KindsTyped DEF PickFavor
  <2>2. PICK new : task' = [task EXCEPT ![h] = new] /\ (new = None \/ new.op = "favor")
    <3>1. CASE Done(h)
      BY <3>1 DEF Done, Goes
    <3>2. CASE ~Done(h)
      <4>1. PICK e, p, new : /\ new = [task[h] EXCEPT !.game = e, !.locks = {p}, !.want = e]
                             /\ task' = [task EXCEPT ![h] = new]
        BY <1>9, <3>2 DEF PickFavor, Goes
      <4>2. new.op = "favor"
        BY <2>1, <4>1 DEF Favor
      <4> QED
        BY <4>1, <4>2
    <3> QED
      BY <3>1, <3>2
  <2> QED
    BY <1>1, <1>9, <2>2 DEF PickFavor
<1>10. CASE AcceptFavor(h)
  BY <1>1, <1>10 DEF AcceptFavor, Done, Goes
<1> QED
  BY <1>2, <1>3, <1>4, <1>5, <1>6, <1>7, <1>8, <1>9, <1>10 DEF Advance

LEMMA OthersLists ==
  ASSUME IInv, ListCurrent, Next, \A h \in Handlers : ~Advance(h)
  PROVE  ListCurrent'
<1> USE DEF Handlers, IInv
<1>1. ASSUME UNCHANGED tickets, NEW h \in Handlers, NEW new, task' = [task EXCEPT ![h] = new],
             new = None \/ new.locks = {}
      PROVE  ListCurrent'
  BY <1>1, MoveKeepsLists
<1>2. ASSUME NEW h \in Handlers, Lose(h) PROVE ListCurrent'
  BY <1>1, <1>2 DEF Lose
<1>3. CASE BreakDeadlock
  <2>1. PICK set \in SUBSET Handlers : \E h \in set : Done(h)
    BY <1>3 DEF BreakDeadlock
  <2> QED
    BY <1>1, <1>3, <2>1 DEF Done, Goes, BreakDeadlock
<1>4. ASSUME NEW h \in Clients, NEW new, task' = [task EXCEPT ![h] = new], new.locks = {}, UNCHANGED tickets
      PROVE  ListCurrent'
  BY <1>1, <1>4
<1>5. CASE AtTheDesk
  <2>1. ASSUME NEW h \in Clients, NEW slip \in Slips, SubmitWager(h, slip) PROVE ListCurrent'
    <3>1. PICK new : /\ new = [op |-> "wager", slip |-> slip, inTime |-> slip.game \notin started,
                               floor |-> 0, locks |-> {}, want |-> slip.game]
                     /\ task' = [task EXCEPT ![h] = new]
      BY <2>1 DEF SubmitWager, Request
    <3>2. new.locks = {} /\ UNCHANGED tickets
      BY <2>1, <3>1 DEF SubmitWager
    <3> QED
      BY <1>4, <3>1, <3>2
  <2>2. ASSUME NEW h \in Clients, NEW p \in Players, AskFavor(h, p) PROVE ListCurrent'
    <3>1. PICK new : /\ new = [op |-> "favor", player |-> p, game |-> None, locks |-> {}, want |-> p]
                     /\ task' = [task EXCEPT ![h] = new]
      BY <2>2 DEF AskFavor, Request
    <3>2. new.locks = {} /\ UNCHANGED tickets
      BY <2>2, <3>1 DEF AskFavor
    <3> QED
      BY <1>4, <3>1, <3>2
  <2>3. ASSUME NEW h \in Clients, NEW e \in Events, Void(h, e) \/ Resolve(h, e) PROVE ListCurrent'
    <3>1. PICK outcome : task' = [task EXCEPT ![h] = Settling(e, outcome)]
      BY <2>3 DEF Void, Resolve, Request
    <3>2. PICK new : new = Settling(e, outcome) /\ task' = [task EXCEPT ![h] = new]
      BY <3>1
    <3>3. new.locks = {}
      BY <3>2 DEF Settling
    <3> QED
      BY <1>4, <2>3, <3>2, <3>3 DEF Void, Resolve
  <2>4. ASSUME NEW h \in Clients, NEW e \in Events, Recheck(h, e) PROVE ListCurrent'
    <3>1. PICK new : /\ new = [op |-> "check", game |-> e, locks |-> {}, want |-> None]
                     /\ task' = [task EXCEPT ![h] = new]
      BY <2>4 DEF Recheck, Request
    <3>2. new.locks = {} /\ UNCHANGED tickets
      BY <2>4, <3>1 DEF Recheck
    <3> QED
      BY <1>4, <3>1, <3>2
  <2> QED
    BY <1>5, <2>1, <2>2, <2>3, <2>4 DEF AtTheDesk
<1>6. CASE AtTheCage
  BY <1>6, CageChanges, StillLists
<1>7. ASSUME NEW e, ListGame(e) \/ Poll(e) PROVE ListCurrent'
  <2>1. UNCHANGED task \/ \E new : new.locks = {} /\ task' = [task EXCEPT ![Poller] = new]
    BY <1>7 DEF ListGame, Poll
  <2> QED
    BY <1>1, <1>7, <2>1, StillLists DEF ListGame, Poll
<1>8. ASSUME NEW e, PullLine(e) \/ GameStarts(e) PROVE ListCurrent'
  BY <1>8, StillLists DEF PullLine, GameStarts
<1> QED
  BY <1>2, <1>3, <1>5, <1>6, <1>7, <1>8 DEF Next

-----------------------------------------------------------------------------
(* What every step keeps *)

LEMMA KeysKept ==
  ASSUME TypeOK, IsFiniteSet(tickets), KeyedOnce,
         \/ SameBook
         \/ \E slip \in Slip, bought \in Ticket : Places(slip, bought)
         \/ \E e \in Events, outcome \in Outcomes : Grades(e, outcome)
         \/ \E p \in Players, id \in ActionIds, new \in Chips : Exchanges(p, id, new)
         \/ \E e \in Events, status \in {"PRE", "LIVE", "PULLED"} : Overwrites(e, status)
  PROVE  KeyedOnce'
<1>1. CASE SameBook
  BY <1>1 DEF SameBook, KeyedOnce
<1>2. CASE \E slip \in Slip, bought \in Ticket : Places(slip, bought)
  <2>1. PICK slip \in Slip, bought \in Ticket : Places(slip, bought)
    BY <1>2
  <2>2. /\ tickets' = tickets \cup {bought} /\ ledger' = ledger \cup {<<slip.player, slip.id>>}
        /\ bought.player = slip.player /\ bought.id = slip.id /\ <<slip.player, slip.id>> \notin ledger
    BY <2>1 DEF Places, Takes
  <2>3. \A t \in tickets : ~(t.player = bought.player /\ t.id = bought.id)
    BY <2>2 DEF KeyedOnce
  <2> QED
    BY <2>2, <2>3 DEF KeyedOnce
<1>3. CASE \E e \in Events, outcome \in Outcomes : Grades(e, outcome)
  <2>1. PICK e \in Events, outcome \in Outcomes : Grades(e, outcome)
    BY <1>3
  <2>2. tickets' = SettledIn(tickets, e, outcome) /\ ledger' = ledger
    BY <2>1 DEF Grades
  <2>3. WellKept(tickets')
    BY <2>2, BookKept, AfterSettlement
  <2>4. ASSUME NEW t \in tickets' PROVE <<t.player, t.id>> \in ledger
    <3>1. CASE t \in tickets
      BY <3>1 DEF KeyedOnce
    <3>2. CASE t \in GradedIn(tickets, e, outcome)
      <4>1. PICK u \in tickets : u \in Ticket /\ t = Regraded(u, outcome)
        BY <3>2 DEF GradedIn, OpenIn, TypeOK
      <4> QED
        BY <4>1, RegradedIs DEF KeyedOnce
    <3> QED
      BY <2>2, <2>4, <3>1, <3>2 DEF SettledIn
  <2> QED
    BY <2>2, <2>3, <2>4 DEF KeyedOnce, WellKept
<1>4. CASE \E p \in Players, id \in ActionIds, new \in Chips : Exchanges(p, id, new)
  <2>1. tickets' = tickets /\ ledger \subseteq ledger'
    BY <1>4 DEF Exchanges
  <2> QED
    BY <2>1 DEF KeyedOnce
<1>5. CASE \E e \in Events, status \in {"PRE", "LIVE", "PULLED"} : Overwrites(e, status)
  BY <1>5 DEF Overwrites, KeyedOnce
<1> QED
  BY <1>1, <1>2, <1>3, <1>4, <1>5

LEMMA WorthKept ==
  ASSUME TypeOK, WorthTheStake,
         \/ UNCHANGED tickets
         \/ \E slip \in Slip, bought \in Ticket : Places(slip, bought)
         \/ \E e \in Events, outcome \in Outcomes : Grades(e, outcome)
  PROVE  WorthTheStake'
<1>1. CASE UNCHANGED tickets
  BY <1>1 DEF WorthTheStake
<1>2. CASE \E slip \in Slip, bought \in Ticket : Places(slip, bought)
  BY <1>2 DEF Places, WorthTheStake
<1>3. CASE \E e \in Events, outcome \in Outcomes : Grades(e, outcome)
  <2>1. PICK e \in Events, outcome \in Outcomes : Grades(e, outcome)
    BY <1>3
  <2>2. \A t \in tickets : t \in Ticket
    BY DEF TypeOK
  <2>3. \A t \in GradedIn(tickets, e, outcome) : t.payout >= t.stake
    BY <2>2, RegradedIs DEF GradedIn, OpenIn, WorthTheStake
  <2> QED
    BY <2>1, <2>3 DEF Grades, SettledIn, WorthTheStake
<1> QED
  BY <1>1, <1>2, <1>3

\* Fewer tickets promise less.
LEMMA LiabilityPart ==
  ASSUME NEW T, IsFiniteSet(T), \A t \in T : t \in Ticket /\ t.payout >= t.stake, NEW S, S \subseteq T
  PROVE  Liability(S) <= Liability(T) /\ Liability(S) \in Int /\ Liability(T) \in Int
<1>1. IsFiniteSet(S) /\ \A t \in S : t \in Ticket
  BY FS_Subset
<1>2. Liability(S) = Sum(ProfitOf, S) /\ Liability(T) = Sum(ProfitOf, T)
  BY <1>1, BookSums
<1>3. Nats(ProfitOf, T)
  BY TicketTyped DEF Nats, ProfitOf
<1>4. Sum(ProfitOf, S) \in Nat /\ Sum(ProfitOf, T) \in Nat /\ Sum(ProfitOf, S) <= Sum(ProfitOf, T)
  BY <1>3, SumPart
<1> QED
  BY <1>2, <1>4

LEMMA SideIs ==
  /\ \A e, side : {t \in Open(On(e)) : t.side = side} = SideIn(tickets, e, side)
  /\ SideWithinLimit <=> \A e \in Events, side \in Sides : Liability(SideIn(tickets, e, side)) <= Limits.side
<1>1. \A e, side : {t \in Open(On(e)) : t.side = side} = SideIn(tickets, e, side)
  BY OpenOnIs DEF SideIn
<1>2. \A e, side : Liability({t \in Open(On(e)) : t.side = side}) = Liability(SideIn(tickets, e, side))
  <2> TAKE e, side
  <2>1. {t \in Open(On(e)) : t.side = side} = SideIn(tickets, e, side)
    BY <1>1
  <2> QED
    BY <2>1
<1> QED
  BY <1>1, <1>2 DEF SideWithinLimit

LEMMA SideTyped ==
  ASSUME TypeOK, IsFiniteSet(tickets), NEW e, NEW side
  PROVE  IsFiniteSet(SideIn(tickets, e, side)) /\ \A t \in SideIn(tickets, e, side) : t \in Ticket /\ t \in tickets
<1>1. SideIn(tickets, e, side) \subseteq tickets
  BY DEF SideIn, OpenIn
<1> QED
  BY <1>1, FS_Subset DEF TypeOK

LEMMA SideKept ==
  ASSUME TypeOK, IsFiniteSet(tickets), KeyedOnce, WorthTheStake, SideWithinLimit,
         \/ UNCHANGED tickets
         \/ \E slip \in Slip, bought \in Ticket : Places(slip, bought)
         \/ \E e \in Events, outcome \in Outcomes : Grades(e, outcome)
  PROVE  SideWithinLimit'
<1> SUFFICES ASSUME NEW e \in Events, NEW side \in Sides
             PROVE  Liability(SideIn(tickets', e, side)) <= Limits.side
  <2>1. \A d, s : {t \in Open(On(d)) : t.side = s}' = SideIn(tickets', d, s)
    BY DEF Open, On, SideIn, OpenIn
  <2> QED
    BY <2>1 DEF SideWithinLimit
<1> DEFINE old == SideIn(tickets, e, side)
<1>1. Liability(old) <= Limits.side
  BY SideIs
<1>2. IsFiniteSet(old) /\ \A t \in old : t \in Ticket /\ t \in tickets /\ t.payout >= t.stake
  BY SideTyped DEF WorthTheStake
<1>3. Limits.side \in Nat
  BY SportsbookAssumption
<1>4. CASE UNCHANGED tickets
  BY <1>1, <1>4
<1>5. CASE \E slip \in Slip, bought \in Ticket : Places(slip, bought)
  <2>1. PICK slip \in Slip, bought \in Ticket : Places(slip, bought)
    BY <1>5
  <2>2. /\ bought.payout = Payout(slip) /\ bought.stake = slip.stake
        /\ bought.game = slip.game /\ bought.side = slip.side
        /\ bought.player = slip.player /\ bought.id = slip.id
        /\ <<slip.player, slip.id>> \notin ledger /\ WithinLimits(slip)
    BY <2>1 DEF Places, Takes
  <2>3. CASE e = slip.game /\ side = slip.side
    <3>1. SideIn(tickets', e, side) = old \cup {bought}
      BY <2>1, <2>2, <2>3, PlacesOpen DEF SideIn
    <3>2. bought \notin old
      BY <1>2, <2>2 DEF KeyedOnce
    <3>3. Liability(old) + (Payout(slip) - slip.stake) <= Limits.side
      <4>1. Liability({t \in Open(On(slip.game)) : t.side = slip.side}) + (Payout(slip) - slip.stake) <= Limits.side
        BY <2>2 DEF WithinLimits, Fits
      <4>2. {t \in Open(On(slip.game)) : t.side = slip.side} = old
        BY <2>3, SideIs
      <4> QED
        BY <4>1, <4>2
    <3>4. IsFiniteSet(old \cup {bought}) /\ \A t \in old \cup {bought} : t \in Ticket
      BY <1>2, FS_AddElement
    <3> HIDE DEF old
    <3>5. Liability(old \cup {bought}) = Sum(ProfitOf, old \cup {bought}) /\ Ints(ProfitOf, old \cup {bought})
      BY <3>4, BookSums
    <3>6. Liability(old) = Sum(ProfitOf, old) /\ Sum(ProfitOf, old) \in Int
      BY <1>2, BookSums
    <3>7. Sum(ProfitOf, old \cup {bought}) = ProfitOf[bought] + Sum(ProfitOf, old)
      BY <1>2, <3>2, <3>5, SumAdd
    <3>8. ProfitOf[bought] = Payout(slip) - slip.stake /\ ProfitOf[bought] \in Int
      BY <2>2, TicketTyped DEF ProfitOf
    <3> QED
      BY <1>3, <3>1, <3>3, <3>5, <3>6, <3>7, <3>8
  <2>4. CASE ~(e = slip.game /\ side = slip.side)
    <3>1. SideIn(tickets', e, side) = old
      BY <2>1, <2>2, <2>4, PlacesOpen DEF SideIn
    <3> QED
      BY <1>1, <3>1
  <2> QED
    BY <2>3, <2>4
<1>6. CASE \E d \in Events, outcome \in Outcomes : Grades(d, outcome)
  <2>1. PICK d \in Events, outcome \in Outcomes : Grades(d, outcome)
    BY <1>6
  <2>2. OpenIn(tickets', e) \subseteq OpenIn(tickets, e)
    BY <2>1, BookKept, GradesOpen DEF Grades
  <2>3. SideIn(tickets', e, side) \subseteq old
    BY <2>2 DEF SideIn
  <2> HIDE DEF old
  <2>4. /\ Liability(SideIn(tickets', e, side)) <= Liability(old)
        /\ Liability(SideIn(tickets', e, side)) \in Int /\ Liability(old) \in Int
    BY <1>2, <2>3, LiabilityPart
  <2> QED
    BY <1>1, <1>3, <2>4
<1> QED
  BY <1>4, <1>5, <1>6

\* p's chips and cash, next to his tickets in T.
Accounted(c, T, p) ==
  Worth(c) = Purse + Bankroll - Sum(StakeOf, OwnedIn(T, p)) + Sum(ReturnOf, OwnedIn(T, p))

LEMMA OwnedTyped ==
  ASSUME NEW T, IsFiniteSet(T), \A t \in T : t \in Ticket, NEW p
  PROVE  /\ IsFiniteSet(OwnedIn(T, p)) /\ \A t \in OwnedIn(T, p) : t \in Ticket /\ t \in T
         /\ Stakes(OwnedIn(T, p)) = Sum(StakeOf, OwnedIn(T, p)) /\ Sum(StakeOf, OwnedIn(T, p)) \in Nat
         /\ MapThenSumSet(Return, OwnedIn(T, p)) = Sum(ReturnOf, OwnedIn(T, p))
         /\ Sum(ReturnOf, OwnedIn(T, p)) \in Nat
<1>1. IsFiniteSet(OwnedIn(T, p)) /\ \A t \in OwnedIn(T, p) : t \in Ticket /\ t \in T
  <2>1. OwnedIn(T, p) \subseteq T
    BY DEF OwnedIn
  <2> QED
    BY <2>1, FS_Subset
<1> QED
  BY <1>1, BookSums

LEMMA AccountedIs ==
  ASSUME TypeOK, IsFiniteSet(tickets)
  PROVE  ChipsAccounted <=> \A p \in Players : Accounted(chips[p], tickets, p)
<1>1. \A p : Of(p) = OwnedIn(tickets, p)
  BY DEF Of, OwnedIn
<1>2. \A t \in tickets : t \in Ticket
  BY DEF TypeOK
<1>3. \A p : /\ Stakes(Of(p)) = Sum(StakeOf, OwnedIn(tickets, p))
             /\ MapThenSumSet(Return, Of(p)) = Sum(ReturnOf, OwnedIn(tickets, p))
  BY <1>1, <1>2, OwnedTyped
<1> QED
  BY <1>3 DEF ChipsAccounted, Accounted, Worth

LEMMA AccountedNext ==
  ASSUME TypeOK, TypeOK', IsFiniteSet(tickets), IsFiniteSet(tickets'), KeyedOnce,
         \A p \in Players : Accounted(chips[p], tickets, p),
         \/ SameBook
         \/ \E slip \in Slip, bought \in Ticket : Places(slip, bought)
         \/ \E e \in Events, outcome \in Outcomes : Grades(e, outcome)
         \/ \E p \in Players, id \in ActionIds, new \in Chips : Exchanges(p, id, new)
         \/ \E e \in Events, status \in {"PRE", "LIVE", "PULLED"} : Overwrites(e, status),
         NEW q \in Players
  PROVE  Accounted(chips'[q], tickets', q)
<1>1. Accounted(chips[q], tickets, q)
  OBVIOUS
<1>2. chips = [p \in Players |-> chips[p]]
  BY DEF TypeOK
<1>3. (\A t \in tickets : t \in Ticket) /\ (\A t \in tickets' : t \in Ticket)
  BY DEF TypeOK
<1>4. Purse \in Nat /\ Bankroll \in Nat
  BY SportsbookAssumption
<1>5. CASE SameBook \/ \E e \in Events, status \in {"PRE", "LIVE", "PULLED"} : Overwrites(e, status)
  BY <1>1, <1>5 DEF SameBook, Overwrites
<1>6. CASE \E p \in Players, id \in ActionIds, new \in Chips : Exchanges(p, id, new)
  <2>1. PICK p \in Players, id \in ActionIds, new \in Chips : Exchanges(p, id, new)
    BY <1>6
  <2>2. tickets' = tickets /\ Worth(chips'[q]) = Worth(chips[q])
    BY <1>2, <2>1 DEF Exchanges
  <2> QED
    BY <1>1, <2>2 DEF Accounted
<1>7. CASE \E slip \in Slip, bought \in Ticket : Places(slip, bought)
  <2>1. PICK slip \in Slip, bought \in Ticket : Places(slip, bought)
    BY <1>7
  <2>2. /\ tickets' = tickets \cup {bought} /\ bought.player = slip.player /\ bought.id = slip.id
        /\ bought.stake = slip.stake /\ bought.status = "OPEN" /\ slip.player \in Players
        /\ chips' = [chips EXCEPT ![slip.player].floor = chips[slip.player].floor - slip.stake]
        /\ <<slip.player, slip.id>> \notin ledger
        /\ chips[slip.player].open
    BY <2>1 DEF Places, Takes, Slip
  <2>3. CASE q # slip.player
    <3>1. OwnedIn(tickets', q) = OwnedIn(tickets, q) /\ chips'[q] = chips[q]
      BY <1>2, <2>2, <2>3 DEF OwnedIn
    <3> QED
      BY <1>1, <3>1 DEF Accounted
  <2>4. CASE q = slip.player
    <3> DEFINE mine == OwnedIn(tickets, q)
    <3>1. OwnedIn(tickets', q) = mine \cup {bought}
      BY <2>2, <2>4 DEF OwnedIn
    <3>2. bought \notin mine
      BY <2>2 DEF KeyedOnce, OwnedIn
    <3>3. IsFiniteSet(mine) /\ \A t \in mine : t \in Ticket
      BY <1>3, OwnedTyped
    <3>4. Sum(StakeOf, mine) \in Nat /\ Sum(ReturnOf, mine) \in Nat
      BY <1>3, OwnedTyped
    <3> HIDE DEF mine
    <3>5. Ints(StakeOf, mine \cup {bought}) /\ Ints(ReturnOf, mine \cup {bought})
      BY <3>3, TicketTyped DEF Ints, StakeOf, ReturnOf
    <3>6. /\ Sum(StakeOf, mine \cup {bought}) = StakeOf[bought] + Sum(StakeOf, mine)
          /\ Sum(ReturnOf, mine \cup {bought}) = ReturnOf[bought] + Sum(ReturnOf, mine)
      BY <3>2, <3>3, <3>5, SumAdd
    <3>7. StakeOf[bought] = slip.stake /\ ReturnOf[bought] = 0 /\ slip.stake \in Nat
      BY <2>2, TicketTyped DEF StakeOf, ReturnOf, Return
    <3>8. chips[q] \in Chips /\ chips[q].open
      BY <2>2, <2>4 DEF TypeOK
    <3>9. chips'[q] = [chips[q] EXCEPT !.floor = chips[q].floor - slip.stake]
      BY <1>2, <2>2, <2>4
    <3>10. Worth(chips'[q]) = Worth(chips[q]) - slip.stake /\ Worth(chips[q]) \in Nat
      BY <3>7, <3>8, <3>9 DEF Worth, Chips
    <3>11. Worth(chips[q]) = Purse + Bankroll - Sum(StakeOf, mine) + Sum(ReturnOf, mine)
      BY <1>1 DEF Accounted, mine
    <3>12. Worth(chips'[q]) = Purse + Bankroll - Sum(StakeOf, OwnedIn(tickets', q)) + Sum(ReturnOf, OwnedIn(tickets', q))
      BY <1>4, <3>1, <3>4, <3>6, <3>7, <3>10, <3>11
    <3> QED
      BY <3>12 DEF Accounted
  <2> QED
    BY <2>3, <2>4
<1>8. CASE \E e \in Events, outcome \in Outcomes : Grades(e, outcome)
  <2>1. PICK e \in Events, outcome \in Outcomes : Grades(e, outcome)
    BY <1>8
  <2>2. WellKept(tickets)
    BY BookKept
  <2>3. PICK graded, after : graded = GradedIn(tickets, e, outcome) /\ after = SettledIn(tickets, e, outcome)
    OBVIOUS
  <2>4. /\ Sum(StakeOf, OwnedIn(after, q)) = Sum(StakeOf, OwnedIn(tickets, q))
        /\ Sum(ReturnOf, OwnedIn(after, q)) = Sum(ReturnOf, OwnedIn(tickets, q)) + Sum(ReturnOf, OwnedIn(graded, q))
    BY <2>2, <2>3, OwnAfterSettlement
  <2>5. tickets' = after
        /\ chips'[q] = IF \E t \in OpenIn(tickets, e) : t.player = q
                       THEN Credited(chips[q], OwnedIn(graded, q)) ELSE chips[q]
    BY <2>1, <2>3 DEF Grades
  <2>6. IsFiniteSet(graded) /\ \A t \in graded : t \in Ticket
    <3>1. graded \subseteq after /\ IsFiniteSet(graded)
      BY <2>2, <2>3, AfterSettlement DEF SettledIn
    <3> QED
      BY <1>3, <2>5, <3>1
  <2>7. IsFiniteSet(OwnedIn(graded, q)) /\ (\A t \in OwnedIn(graded, q) : t \in Ticket)
        /\ Sum(ReturnOf, OwnedIn(graded, q)) \in Nat
    BY <2>6, OwnedTyped
  <2>8. chips[q] \in Chips
    BY DEF TypeOK
  <2>9. Worth(chips'[q]) = Worth(chips[q]) + Sum(ReturnOf, OwnedIn(graded, q)) /\ Worth(chips[q]) \in Nat
    <3>1. Worth(chips[q]) \in Nat
      BY <2>8 DEF Worth, Chips
    <3>2. CASE \E t \in OpenIn(tickets, e) : t.player = q
      BY <2>5, <2>7, <2>8, <3>1, <3>2, CreditedWorth
    <3>3. CASE ~ \E t \in OpenIn(tickets, e) : t.player = q
      <4>1. \A t \in OpenIn(tickets, e) : t \in Ticket
        BY <1>3 DEF OpenIn
      <4>2. \A t \in graded : t.player # q
        BY <2>3, <3>3, <4>1, RegradedIs DEF GradedIn
      <4>3. OwnedIn(graded, q) = {}
        BY <4>2 DEF OwnedIn
      <4>4. Sum(ReturnOf, OwnedIn(graded, q)) = 0
        BY <4>3, SumEmpty
      <4> QED
        BY <2>5, <3>1, <3>3, <4>4
    <3> QED
      BY <3>1, <3>2, <3>3
  <2>10. Sum(StakeOf, OwnedIn(tickets, q)) \in Nat /\ Sum(ReturnOf, OwnedIn(tickets, q)) \in Nat
    BY <1>3, OwnedTyped
  <2>11. Worth(chips[q]) = Purse + Bankroll - Sum(StakeOf, OwnedIn(tickets, q)) + Sum(ReturnOf, OwnedIn(tickets, q))
    BY <1>1 DEF Accounted
  <2>12. Worth(chips'[q]) = Purse + Bankroll - Sum(StakeOf, OwnedIn(after, q)) + Sum(ReturnOf, OwnedIn(after, q))
    BY <1>4, <2>4, <2>7, <2>9, <2>10, <2>11
  <2> QED
    BY <2>5, <2>12 DEF Accounted
<1> QED
  BY <1>5, <1>6, <1>7, <1>8

\* Settling closes a game; only the feed's writes open it again, and say so.
LEMMA ClosedKept ==
  ASSUME TypeOK, IsFiniteSet(tickets), KeyedOnce, ClosedUnlessReopened, StrandedOnlyByFeed,
         \/ SameBook
         \/ \E slip \in Slip, bought \in Ticket : Places(slip, bought)
         \/ \E e \in Events, outcome \in Outcomes : Grades(e, outcome)
         \/ \E p \in Players, id \in ActionIds, new \in Chips : Exchanges(p, id, new)
         \/ \E e \in Events, status \in {"PRE", "LIVE", "PULLED"} : Overwrites(e, status)
  PROVE  ClosedUnlessReopened' /\ StrandedOnlyByFeed'
<1>1. game = [e \in Events |-> game[e]] /\ \A e \in Events : game[e] \in Game
  BY DEF TypeOK
<1>2. \A e : Open(On(e))' = OpenIn(tickets', e) /\ Open(On(e)) = OpenIn(tickets, e)
  BY DEF Open, On, OpenIn
<1> SUFFICES ASSUME NEW e \in Events, game'[e].settled
             PROVE  /\ e \in reopened' \/ game'[e].status \in {"FINAL", "VOID"}
                    /\ OpenIn(tickets', e) # {} => e \in reopened'
  BY <1>2 DEF ClosedUnlessReopened, StrandedOnlyByFeed
<1>3. game[e].settled => /\ e \in reopened \/ game[e].status \in {"FINAL", "VOID"}
                         /\ OpenIn(tickets, e) # {} => e \in reopened
  BY <1>2 DEF ClosedUnlessReopened, StrandedOnlyByFeed
<1>4. CASE SameBook \/ \E p \in Players, id \in ActionIds, new \in Chips : Exchanges(p, id, new)
  BY <1>3, <1>4 DEF SameBook, Exchanges
<1>5. CASE \E slip \in Slip, bought \in Ticket : Places(slip, bought)
  <2>1. PICK slip \in Slip, bought \in Ticket : Places(slip, bought)
    BY <1>5
  <2>2. game' = game /\ reopened' = reopened /\ game[slip.game].status = "PRE"
    BY <2>1 DEF Places, Takes
  <2>3. CASE e = slip.game
    BY <1>3, <2>2, <2>3
  <2>4. CASE e # slip.game
    <3>1. OpenIn(tickets', e) = OpenIn(tickets, e)
      BY <2>1, <2>4, PlacesOpen
    <3> QED
      BY <1>3, <2>2, <3>1
  <2> QED
    BY <2>3, <2>4
<1>6. CASE \E d \in Events, outcome \in Outcomes : Grades(d, outcome)
  <2>1. PICK d \in Events, outcome \in Outcomes : Grades(d, outcome)
    BY <1>6
  <2>2. OpenIn(tickets', e) = IF e = d THEN {} ELSE OpenIn(tickets, e)
    BY <2>1, BookKept, GradesOpen DEF Grades
  <2>3. reopened' = reopened /\ game'[e] = IF e = d THEN [status |-> IF outcome = "VOID" THEN "VOID" ELSE "FINAL",
                                                          settled |-> TRUE] ELSE game[e]
    BY <1>1, <2>1 DEF Grades
  <2> QED
    BY <1>3, <2>2, <2>3
<1>7. CASE \E d \in Events, status \in {"PRE", "LIVE", "PULLED"} : Overwrites(d, status)
  <2>1. PICK d \in Events, status \in {"PRE", "LIVE", "PULLED"} : Overwrites(d, status)
    BY <1>7
  <2>2. /\ game' = [game EXCEPT ![d].status = status] /\ reopened \subseteq reopened'
        /\ game[d].settled => d \in reopened'
        /\ tickets' = tickets
    BY <2>1 DEF Overwrites
  <2>3. game'[e].settled = game[e].settled /\ (e # d => game'[e] = game[e])
    BY <1>1, <2>2 DEF Game
  <2> QED
    BY <1>3, <2>2, <2>3
<1> QED
  BY <1>4, <1>5, <1>6, <1>7

-----------------------------------------------------------------------------
(* The invariant is kept *)

LEMMA BookNext == BookInv /\ [Next]_vars => BookInv'
<1>1. ASSUME BookInv, Next PROVE BookInv'
  <2> USE <1>1 DEF BookInv
  <2>1. IInv'
    BY NextIInv
  <2>2. TypeOK' /\ IsFiniteSet(tickets')
    BY TypesKept
  <2>3. \/ SameBook
        \/ \E slip \in Slip, bought \in Ticket : Places(slip, bought)
        \/ \E e \in Events, outcome \in Outcomes : Grades(e, outcome)
        \/ \E p \in Players, id \in ActionIds, new \in Chips : Exchanges(p, id, new)
        \/ \E e \in Events, status \in {"PRE", "LIVE", "PULLED"} : Overwrites(e, status)
    BY BookCases
  <2>4. \/ UNCHANGED tickets
        \/ \E slip \in Slip, bought \in Ticket : Places(slip, bought)
        \/ \E e \in Events, outcome \in Outcomes : Grades(e, outcome)
    BY <2>3 DEF SameBook, Exchanges, Overwrites
  <2>5. KeyedOnce'
    BY <2>3, KeysKept
  <2>6. WorthTheStake' /\ SideWithinLimit'
    BY <2>4, WorthKept, SideKept
  <2>7. ListCurrent'
    BY AdvanceLists, OthersLists
  <2>8. ClosedUnlessReopened' /\ StrandedOnlyByFeed'
    BY <2>3, ClosedKept
  <2>9. \A p \in Players : Accounted(chips[p], tickets, p)
    BY AccountedIs
  <2>10. \A p \in Players : Accounted(chips'[p], tickets', p)
    BY <2>2, <2>3, <2>9, AccountedNext
  <2>11. ChipsAccounted'
    <3>1. \A p : Of(p)' = OwnedIn(tickets', p)
      BY DEF Of, OwnedIn
    <3>2. \A t \in tickets' : t \in Ticket
      BY <2>2 DEF TypeOK
    <3>3. \A p : /\ Stakes(OwnedIn(tickets', p)) = Sum(StakeOf, OwnedIn(tickets', p))
                 /\ MapThenSumSet(Return, OwnedIn(tickets', p)) = Sum(ReturnOf, OwnedIn(tickets', p))
      BY <2>2, <3>2, OwnedTyped
    <3> QED
      BY <2>10, <3>1, <3>3 DEF ChipsAccounted, Accounted, Worth
  <2> QED
    BY <2>1, <2>2, <2>5, <2>6, <2>7, <2>8, <2>11
<1>2. ASSUME BookInv, UNCHANGED vars PROVE BookInv'
  <2>1. IInv'
    BY <1>2, NextIInv DEF BookInv
  <2>2. UNCHANGED <<game, started, final, tickets, chips, ledger, favor, task, requests, reopened>>
    BY <1>2 DEF vars
  <2>3. TypeOK' /\ IsFiniteSet(tickets')
    BY <1>2, <2>2 DEF BookInv, TypeOK
  <2>4. KeyedOnce' /\ WorthTheStake' /\ ClosedUnlessReopened'
    BY <1>2, <2>2 DEF BookInv, KeyedOnce, WorthTheStake, ClosedUnlessReopened
  <2>5. ListCurrent'
    BY <1>2, <2>2, StillLists DEF BookInv
  <2>6. SideWithinLimit'
    BY <1>2, <2>2 DEF BookInv, SideWithinLimit, Open, On
  <2>7. ChipsAccounted'
    BY <1>2, <2>2 DEF BookInv, ChipsAccounted, Of
  <2>8. StrandedOnlyByFeed'
    BY <1>2, <2>2 DEF BookInv, StrandedOnlyByFeed, Open, On
  <2> QED
    BY <2>1, <2>3, <2>4, <2>5, <2>6, <2>7, <2>8 DEF BookInv
<1> QED
  BY <1>1, <1>2

LEMMA BookInit == Init => BookInv
<1> SUFFICES ASSUME Init PROVE BookInv
  OBVIOUS
<1> DEFINE m == [slip \in Placed |-> TicketFor(slip, 1)]
           stake == [slip \in Placed |-> slip.stake]
           Mine(p) == {slip \in Placed : slip.player = p}
<1>1. IsFiniteSet(Placed) /\ \A slip \in Placed : slip \in Slip
  BY PlacedAssumption, SportsbookAssumption
<1>2. \A slip \in Placed : /\ m[slip] \in Ticket
                           /\ m[slip].player = slip.player /\ m[slip].id = slip.id
                           /\ m[slip].game = slip.game /\ m[slip].side = slip.side
                           /\ m[slip].stake = slip.stake /\ m[slip].status = "OPEN"
                           /\ m[slip].payout >= m[slip].stake
                           /\ slip.stake \in Nat /\ slip.player \in Players /\ slip.id \in ActionIds
  BY <1>1, BoughtTyped DEF Slip
<1>3. tickets = {m[slip] : slip \in Placed} /\ ledger = {<<slip.player, slip.id>> : slip \in Placed}
  BY DEF Init
<1>4. \A slip \in Placed : m[slip] = TicketFor(slip, 1)
  OBVIOUS
<1>5. \A r, s \in Placed : r.player = s.player /\ r.id = s.id => r = s
  BY PlacedAssumption
<1>6. \A p : /\ Mine(p) \subseteq Placed /\ IsFiniteSet(Mine(p))
             /\ \A slip \in Mine(p) : slip.player = p
  BY <1>1, FS_Subset
<1>7. \A p : OwnedIn(tickets, p) = {m[slip] : slip \in Mine(p)}
  BY <1>2, <1>3 DEF OwnedIn
<1>8. chips = [p \in Players |->
                [cash |-> Purse, wallet |-> 0, visit |-> 1, open |-> TRUE, floor |-> Bankroll - Stakes(Mine(p))]]
  BY DEF Init
<1>9. \A slip \in Placed : stake[slip] = slip.stake
  OBVIOUS
<1>10. \A e, side : SideIn(tickets, e, side)
                    = {TicketFor(slip, 1) : slip \in {s \in Placed : s.game = e /\ s.side = side}}
  <2> SUFFICES ASSUME NEW e, NEW side
               PROVE  SideIn(tickets, e, side)
                      = {TicketFor(slip, 1) : slip \in {s \in Placed : s.game = e /\ s.side = side}}
    OBVIOUS
  <2>1. PICK chosen : chosen = {s \in Placed : s.game = e /\ s.side = side}
    OBVIOUS
  <2>2. {TicketFor(slip, 1) : slip \in chosen} = {m[slip] : slip \in chosen}
    BY <1>4, <2>1
  <2> HIDE DEF m
  <2>3. SideIn(tickets, e, side)
        = {t \in tickets : t.game = e /\ t.status = "OPEN" /\ t.side = side}
    BY DEF SideIn, OpenIn
  <2>4. ASSUME NEW t \in SideIn(tickets, e, side)
        PROVE  t \in {m[slip] : slip \in chosen}
    <3>1. t \in tickets /\ t.game = e /\ t.side = side
      BY <2>3
    <3>2. PICK slip \in Placed : t = m[slip]
      BY <1>3, <3>1
    <3>3. slip \in chosen
      BY <1>2, <2>1, <3>1, <3>2
    <3> QED
      BY <3>2, <3>3
  <2>5. ASSUME NEW t \in {m[slip] : slip \in chosen}
        PROVE  t \in SideIn(tickets, e, side)
    <3>1. PICK slip \in chosen : t = m[slip]
      OBVIOUS
    <3>2. slip \in Placed /\ slip.game = e /\ slip.side = side
      BY <2>1
    <3>3. t \in tickets
      BY <1>3, <3>1, <3>2
    <3>4. t.game = e /\ t.side = side /\ t.status = "OPEN"
      BY <1>2, <3>1, <3>2
    <3> QED
      BY <2>3, <3>3, <3>4
  <2>6. SideIn(tickets, e, side) = {m[slip] : slip \in chosen}
    BY <2>4, <2>5
  <2> QED
    BY <2>1, <2>2, <2>6
<1> HIDE DEF m, stake, Mine
<1>11. IsFiniteSet(tickets) /\ \A t \in tickets : t \in Ticket
  BY <1>1, <1>2, <1>3, FiniteImage
<1>12. ASSUME NEW p \in Players
       PROVE  /\ Stakes(Mine(p)) \in Nat /\ Stakes(Mine(p)) <= Bankroll
              /\ Sum(StakeOf, OwnedIn(tickets, p)) = Stakes(Mine(p))
              /\ Sum(ReturnOf, OwnedIn(tickets, p)) = 0
  <2>1. PICK mine : mine = Mine(p)
    OBVIOUS
  <2>2. IsFiniteSet(mine) /\ \A slip \in mine : slip \in Placed
    BY <1>6, <2>1
  <2>3. Stakes(mine) = Sum(stake, mine)
    BY <1>9, <2>2, StakesAre
  <2>4. Nats(stake, mine) /\ Ints(stake, mine)
    BY <1>2, <1>9, <2>2 DEF Nats, Ints
  <2>5. Sum(stake, mine) \in Nat
    BY <2>2, <2>4, SumNat
  <2>6. Sum(StakeOf, {m[slip] : slip \in mine}) = Sum(stake, mine)
    <3>1. \A slip \in mine : StakeOf[m[slip]] = stake[slip]
      BY <1>2, <1>9, <2>2 DEF StakeOf
    <3>2. \A r, s \in mine : m[r] = m[s] => r = s
      BY <1>2, <1>5, <2>2
    <3> QED
      BY <2>2, <2>4, <3>1, <3>2, SumImage
  <2>7. Sum(StakeOf, OwnedIn(tickets, p)) = Stakes(mine)
    BY <1>7, <2>1, <2>3, <2>6
  <2>8. IsFiniteSet(OwnedIn(tickets, p))
    BY <1>11, OwnedTyped
  <2>9. \A t \in OwnedIn(tickets, p) : ReturnOf[t] = 0
    BY <1>2, <1>3 DEF OwnedIn, ReturnOf, Return
  <2>10. Sum(ReturnOf, OwnedIn(tickets, p)) = 0
    BY <2>8, <2>9, SumZero
  <2>11. Stakes(mine) <= Bankroll
    BY <2>1, PlacedAssumption DEF Mine
  <2> QED
    BY <2>1, <2>3, <2>5, <2>7, <2>10, <2>11
<1>13. Purse \in Nat /\ Bankroll \in Nat
  BY SportsbookAssumption
<1>14. \A p \in Players : Bankroll - Stakes(Mine(p)) \in Nat
  BY <1>12, <1>13
<1>15. chips \in [Players -> Chips]
  BY <1>8, <1>13, <1>14 DEF Chips
<1>16. TypeOK
  <2>1. game \in [Events -> Game] /\ task \in [Handlers -> Task \cup {None}]
        /\ favor \in [Players -> Events \cup {None}] /\ requests \in Nat
    BY DEF Init, Game
  <2>2. started \subseteq Events /\ final \subseteq Events /\ reopened \subseteq Events
    BY SportsbookAssumption DEF Init
  <2>3. ledger \subseteq Players \X ActionIds
    BY <1>2, <1>3
  <2> QED
    BY <1>11, <1>15, <2>1, <2>2, <2>3 DEF TypeOK
<1>17. KeyedOnce
  <2>1. \A t \in tickets : \E slip \in Placed : t = m[slip]
    BY <1>3
  <2> QED
    BY <1>2, <1>3, <1>5, <2>1 DEF KeyedOnce
<1>18. WorthTheStake
  BY <1>2, <1>3 DEF WorthTheStake
<1>19. ListCurrent
  BY DEF Init, ListCurrent, Does, Idle
<1>20. ClosedUnlessReopened /\ StrandedOnlyByFeed
  BY DEF Init, ClosedUnlessReopened, StrandedOnlyByFeed
<1>21. SideWithinLimit
  <2>1. \A e \in Events, side \in Sides :
          Liability({TicketFor(slip, 1) : slip \in {s \in Placed : s.game = e /\ s.side = side}}) <= Limits.side
    BY PlacedAssumption
  <2>2. ASSUME NEW e \in Events, NEW side \in Sides
        PROVE  Liability(SideIn(tickets, e, side)) <= Limits.side
    <3>1. PICK set : set = {TicketFor(slip, 1) : slip \in {s \in Placed : s.game = e /\ s.side = side}}
      OBVIOUS
    <3>2. Liability(set) <= Limits.side
      BY <2>1, <3>1
    <3>3. SideIn(tickets, e, side) = set
      BY <1>10, <3>1
    <3> QED
      BY <3>2, <3>3
  <2> QED
    BY <2>2, SideIs
<1>22. ChipsAccounted
  <2>1. ASSUME NEW p \in Players PROVE Accounted(chips[p], tickets, p)
    <3>1. Worth(chips[p]) = Purse + (Bankroll - Stakes(Mine(p)))
      BY <1>8, <1>13, <1>14 DEF Worth
    <3> QED
      BY <1>12, <1>13, <3>1 DEF Accounted
  <2> QED
    BY <1>11, <1>16, <2>1, AccountedIs
<1>23. IInv
  BY InitIInv
<1> QED
  BY <1>11, <1>16, <1>17, <1>18, <1>19, <1>20, <1>21, <1>22, <1>23 DEF BookInv

LEMMA BookAlways == Spec => []BookInv
  BY BookInit, BookNext, PTL DEF Spec

\* THEOREM: every row of the book, every request and every lock keeps its type; no
\* balance of chips or cash goes below zero, whoever writes it last.
THEOREM BookTypeCorrect == Spec => []TypeOK
<1>1. BookInv => TypeOK
  BY DEF BookInv
<1> QED
  BY <1>1, BookAlways, PTL

\* THEOREM: what open tickets promise on one side of a game stays within the side's
\* limit (placeBet's sum over the game's open tickets, taken under the game's lock),
\* however many players bet on it at once.
THEOREM SideAlwaysWithinLimit == Spec => []SideWithinLimit
<1>1. BookInv => SideWithinLimit
  BY DEF BookInv
<1> QED
  BY <1>1, BookAlways, PTL

\* THEOREM: a player's chips and cash are what he brought, less his stakes, plus what
\* his graded tickets return: no retry, race of settlements or closed session charges
\* or pays twice or loses a payout (placeBet, settleSportsbookEventTx, the cage).
THEOREM ChipsAlwaysAccounted == Spec => []ChipsAccounted
<1>1. BookInv => ChipsAccounted
  BY DEF BookInv
<1> QED
  BY <1>1, BookAlways, PTL

\* THEOREM: a ticket left open on a settled game is there because the feed's upsert
\* wrote over the settlement, and for no other reason.
THEOREM StrandedOnlyByTheFeed == Spec => []StrandedOnlyByFeed
<1>1. BookInv => StrandedOnlyByFeed
  BY DEF BookInv
<1> QED
  BY <1>1, BookAlways, PTL

=============================================================================
