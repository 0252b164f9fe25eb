------------------------------- MODULE Sportsbook -------------------------------
(***************************************************************************)
(* The sportsbook of the casino: sportsbook.service.ts takes wagers and    *)
(* settles games, sportsbook-feed.service.ts lists games and looks for     *)
(* their results, admin-sportsbook.service.ts is the staff desk, and       *)
(* casino.service.ts holds the chips the tickets are bought with.          *)
(*                                                                         *)
(* A wager locks the row of its game and then the row of its player; a     *)
(* settlement locks the game, then the holder of each open ticket, in      *)
(* whatever order the database lists them, and then each player with a     *)
(* favor on the game; accepting Vic's favor locks the player and then,     *)
(* through a foreign key, the game.  What a transaction writes is seen     *)
(* when it commits.                                                        *)
(***************************************************************************)
EXTENDS Integers, FiniteSets, FiniteSetsExt

CONSTANTS
  Players, Events,  \* ids of player rows and of game rows
  Clients,          \* handlers of player and staff requests
  Poller,           \* the handler that holds the feed's lease
  Listed,           \* games on the dates the feed asks for
  Result,           \* Result[e]: the score the results provider has for e
  Odds,             \* Odds[e][side]: the moneyline, in American odds
  Slips,            \* wagers players submit
  Placed, Begun,    \* wagers already placed and games already started at first
  ActionIds, Amounts, \* action ids and amounts of cage requests
  Limits,           \* the round's sportsbook limits
  Purse, Bankroll,  \* cash each player kept and chips he took to the floor
  MaxRequests,      \* bound: requests of players and staff, and transactions lost
  None

VARIABLES
  game,     \* game[e]: status and settledAt (as a flag) of the game's row
  started,  \* games whose start time has passed
  final,    \* games whose source row holds a checked final score
  tickets,  \* the SportsbookBet rows
  chips,    \* chips[p]: cash, the casino wallet and the casino session of p
  ledger,   \* <<p, id>>: action ids in p's casino ledger
  favor,    \* favor[p]: the game p's accepted favor is about, or None
  task,     \* task[h]: what handler h is doing, or None
  requests, \* requests begun and transactions lost so far
  reopened  \* settled games the feed wrote over (a history variable)

vars == <<game, started, final, tickets, chips, ledger, favor, task, requests, reopened>>

Handlers == Clients \cup {Poller}
Rows == Events \cup Players
Sides == {"HOME", "AWAY"}
Scores == Sides \cup {"TIE"}
Outcomes == Scores \cup {"VOID"}

-----------------------------------------------------------------------------
(* Types *)

Slip == [player: Players, id: ActionIds, game: Events, side: Sides, stake: Nat \ {0}]

Statuses == {"OPEN", "WON", "LOST", "PUSH", "VOID"}

Ticket == [player: Players, id: ActionIds, game: Events, side: Sides, stake: Nat \ {0},
           payout: Nat, visit: Nat, status: Statuses]

\* visit counts the player's sessions; open says whether the last one still is.
Chips == [cash: Nat, wallet: Nat, floor: Nat, visit: Nat, open: BOOLEAN]

Game == [status: {"PRE", "LIVE", "PULLED", "FINAL", "VOID"}, settled: BOOLEAN]

\* Every task has the rows it locked and the row it waits for, if any.
Wager == [op: {"wager"}, slip: Slips, inTime: BOOLEAN, floor: Nat,
          locks: SUBSET Rows, want: Rows \cup {None}]
Settlement == [op: {"settle"}, game: Events, outcome: Outcomes, due: SUBSET Ticket,
               locks: SUBSET Rows, want: Rows]
Check == [op: {"check"}, game: Events, locks: {{}}, want: {None}]
Listing == [op: {"list"}, game: Events, lists: {"PRE", "LIVE"}, locks: {{}}, want: Events]
Favor == [op: {"favor"}, player: Players, game: Events \cup {None},
          locks: SUBSET Rows, want: Rows]

Task == Wager \cup Settlement \cup Check \cup Listing \cup Favor

ASSUME SportsbookAssumption ==
  /\ Events \cap Players = {} /\ None \notin Rows
  /\ Poller \notin Clients /\ Listed \subseteq Events /\ Begun \subseteq Events
  /\ Slips \subseteq Slip /\ Placed \subseteq Slip
  /\ Result \in [Events -> Scores]
  /\ Odds \in [Events -> [Sides -> Int \ {0}]]
  /\ Amounts \subseteq Nat \ {0}
  /\ Limits \in [minStake: Nat, maxStake: Nat, maxProfit: Nat, perGame: Nat, open: Nat,
                 openTickets: Nat, daily: Nat, side: Nat]
  /\ {Purse, Bankroll, MaxRequests} \subseteq Nat

-----------------------------------------------------------------------------
(* Prices, grades and limits *)

\* A winning ticket's profit in cents, rounded to the nearest.
Profit(stake, odds) ==
  IF odds > 0 THEN (stake * odds + 50) \div 100
  ELSE (stake * 100 + (-odds) \div 2) \div (-odds)

Payout(slip) == slip.stake + Profit(slip.stake, Odds[slip.game][slip.side])

\* A ticket pins its payout and the casino session its stake came from.
TicketFor(slip, visit) ==
  [player |-> slip.player, id |-> slip.id, game |-> slip.game, side |-> slip.side,
   stake |-> slip.stake, payout |-> Payout(slip), visit |-> visit, status |-> "OPEN"]

Grade(side, outcome) ==
  CASE outcome = "VOID" -> "VOID"
    [] outcome = "TIE" -> "PUSH"
    [] outcome = side -> "WON"
    [] OTHER -> "LOST"

\* Chips a graded ticket hands back.
Return(t) ==
  CASE t.status = "WON" -> t.payout
    [] t.status \in {"PUSH", "VOID"} -> t.stake
    [] OTHER -> 0

Open(set) == {t \in set : t.status = "OPEN"}
Of(p) == {t \in tickets : t.player = p}
On(e) == {t \in tickets : t.game = e}
Stakes(set) == MapThenSumSet(LAMBDA t : t.stake, set)
Liability(set) == MapThenSumSet(LAMBDA t : t.payout - t.stake, set)

\* The stake fits every limit, next to the player's tickets and those on the game.
\* The model's day never ends: every ticket is in the daily window.
Fits(slip, mine, onGame) ==
  LET profit == Payout(slip) - slip.stake
      side == {t \in Open(onGame) : t.side = slip.side}
  IN  /\ slip.stake \in Limits.minStake .. Limits.maxStake
      /\ Cardinality(Open(mine)) < Limits.openTickets
      /\ profit <= Limits.maxProfit
      /\ Stakes(Open(mine \cap onGame)) + slip.stake <= Limits.perGame
      /\ Stakes(Open(mine)) + slip.stake <= Limits.open
      /\ Stakes(mine) + slip.stake <= Limits.daily
      /\ Liability(side) + profit <= Limits.side

\* Wagers placed earlier passed the same checks: each under an id of its own, out of
\* the chips its player brought, and within the limit of its side.
ASSUME PlacedAssumption ==
  /\ IsFiniteSet(Placed)
  /\ \A r, s \in Placed : r.player = s.player /\ r.id = s.id => r = s
  /\ \A p \in Players : Stakes({slip \in Placed : slip.player = p}) <= Bankroll
  /\ \A e \in Events, side \in Sides :
       Liability({TicketFor(slip, 1) : slip \in {s \in Placed : s.game = e /\ s.side = side}}) <= Limits.side

\* Mutant: the side limit counts the player's own tickets only.
WithinLimitsAlone(slip) == Fits(slip, Of(slip.player), Of(slip.player) \cap On(slip.game))

WithinLimits(slip) == Fits(slip, Of(slip.player), On(slip.game))

-----------------------------------------------------------------------------
(* Locks and requests *)

Idle(h) == task[h] = None
Held(h) == IF Idle(h) THEN {} ELSE task[h].locks
Wants(h) == IF Idle(h) THEN None ELSE task[h].want
Does(h, op) == ~Idle(h) /\ task[h].op = op
Free(r) == \A h \in Handlers : r \notin Held(h)

\* h starts a task, on behalf of a player or of staff.
Request(h, new) ==
  /\ h \in Clients /\ Idle(h)
  /\ requests < MaxRequests
  /\ requests' = requests + 1
  /\ task' = [task EXCEPT ![h] = new]
  /\ UNCHANGED reopened

\* h goes on with its task, or is done with it.
Goes(h, new) == task' = [task EXCEPT ![h] = new] /\ UNCHANGED requests
Done(h) == Goes(h, None)

\* h gets the row it waits for.
Locks(h, r) == Wants(h) = r /\ \A g \in Handlers \ {h} : r \notin Held(g)

-----------------------------------------------------------------------------
(* Wagers: sportsbook.service.ts placeBet *)

\* Mutant: the game's status is not looked at again.
TakesClosed(slip) ==
  /\ <<slip.player, slip.id>> \notin ledger
  /\ favor[slip.player] # slip.game
  /\ WithinLimits(slip)
  /\ chips[slip.player].open /\ chips[slip.player].floor >= slip.stake

\* The book takes the slip: it is no repeat, the game is open for betting, the
\* player works no favor on it, and limits and bankroll allow the stake.
Takes(slip) ==
  /\ <<slip.player, slip.id>> \notin ledger
  /\ favor[slip.player] # slip.game
  /\ game[slip.game].status = "PRE"
  /\ WithinLimits(slip)
  /\ chips[slip.player].open /\ chips[slip.player].floor >= slip.stake

\* The request's time is taken here, before it waits for any row.
SubmitWager(h, slip) ==
  /\ Idle(h)
  /\ Request(h, [op |-> "wager", slip |-> slip, inTime |-> slip.game \notin started,
                 floor |-> 0, locks |-> {}, want |-> slip.game])
  /\ UNCHANGED <<game, started, final, tickets, chips, ledger, favor>>

\* Mutant: the player's row is locked before the game's.
LockPlayerFirst(h) ==
  /\ Does(h, "wager") /\ task[h].want = task[h].slip.game
  /\ LET p == task[h].slip.player
     IN  IF task[h].locks = {} THEN Free(p) /\ Goes(h, [task[h] EXCEPT !.locks = {p}])
         ELSE Locks(h, task[h].want) /\ Goes(h, [task[h] EXCEPT !.locks = @ \cup {task[h].want}, !.want = p])
  /\ UNCHANGED <<game, started, final, tickets, chips, ledger, favor, reopened>>

LockGame(h) ==
  /\ Does(h, "wager") /\ Locks(h, task[h].slip.game)
  /\ Goes(h, [task[h] EXCEPT !.locks = {task[h].slip.game}, !.want = task[h].slip.player])
  /\ UNCHANGED <<game, started, final, tickets, chips, ledger, favor, reopened>>

\* Everything is read and judged under both locks; a refusal ends the request.
JudgeWager(h) ==
  /\ Does(h, "wager") /\ Locks(h, task[h].slip.player)
  /\ LET slip == task[h].slip
     IN  IF task[h].inTime /\ Takes(slip)
         THEN Goes(h, [task[h] EXCEPT !.locks = @ \cup {slip.player}, !.want = None,
                                      !.floor = chips[slip.player].floor])
         ELSE Done(h)
  /\ UNCHANGED <<game, started, final, tickets, chips, ledger, favor, reopened>>

\* The bankroll is written as read, less the stake.
PlaceWager(h) ==
  /\ Does(h, "wager") /\ task[h].want = None
  /\ LET slip == task[h].slip IN
     /\ chips' = [chips EXCEPT ![slip.player].floor = task[h].floor - slip.stake]
     /\ tickets' = tickets \cup {TicketFor(slip, chips[slip.player].visit)}
     /\ ledger' = ledger \cup {<<slip.player, slip.id>>}
  /\ Done(h)
  /\ UNCHANGED <<game, started, final, favor, reopened>>

-----------------------------------------------------------------------------
(* Settlement: settleSportsbookEventTx *)

Settling(e, outcome) ==
  [op |-> "settle", game |-> e, outcome |-> outcome, due |-> {}, locks |-> {}, want |-> e]

\* Mutant: the chips of a session that is over go to the floor of the next.
CreditedToFloor(c, graded) == [c EXCEPT !.floor = @ + MapThenSumSet(Return, graded)]

\* Chips go back to the floor of the session the stake came from, or else to the wallet.
Credited(c, graded) ==
  LET floor == {t \in graded : c.open /\ t.visit = c.visit}
      sum(set) == MapThenSumSet(Return, set)
  IN  [c EXCEPT !.floor = @ + sum(floor), !.wallet = @ + sum(graded \ floor)]

\* The tickets on the list that are still open, graded.
GradedOf(due, outcome) == {[t EXCEPT !.status = Grade(t.side, outcome)] : t \in due \cap tickets}

\* The last row is locked: every ticket on the list is graded and paid at once.
Settles(h, due) ==
  LET e == task[h].game
      graded == GradedOf(due, task[h].outcome)
  IN  /\ game' = [game EXCEPT ![e] = [status |-> IF task[h].outcome = "VOID" THEN "VOID" ELSE "FINAL",
                                      settled |-> TRUE]]
      /\ tickets' = (tickets \ due) \cup graded
      /\ chips' = [p \in Players |->
                    IF \E t \in due : t.player = p
                    THEN Credited(chips[p], {t \in graded : t.player = p}) ELSE chips[p]]
      /\ Done(h)
      /\ UNCHANGED <<started, final, ledger, favor, reopened>>

\* Whom the outcome of a game is told besides: the favors on it are resolved, which
\* leaves them in the way of a wager (favor stays) but logs it to their players.
Favored(e) == {p \in Players : favor[p] = e}

\* h waits for the row of one more holder of a ticket that is due, after them for that
\* of one more player with a favor on the game, or settles.
LocksNext(h, due, locks) ==
  LET holders == {t.player : t \in due} \ locks
      next == IF holders = {} THEN Favored(task[h].game) \ locks ELSE holders
  IN  IF next = {} THEN Settles(h, due)
      ELSE /\ \E p \in next :
                Goes(h, [task[h] EXCEPT !.due = due, !.locks = locks, !.want = p])
           /\ UNCHANGED <<game, started, final, tickets, chips, ledger, favor, reopened>>

\* The game's row is locked; if it was settled meanwhile there is nothing to do.
SettleGame(h) ==
  /\ Does(h, "settle") /\ Locks(h, task[h].game)
  /\ IF game[task[h].game].settled
     THEN Done(h) /\ UNCHANGED <<game, started, final, tickets, chips, ledger, favor, reopened>>
     ELSE LocksNext(h, Open(On(task[h].game)), {task[h].game})

LockHolder(h) ==
  /\ Does(h, "settle") /\ task[h].want \in Players /\ Locks(h, task[h].want)
  /\ LocksNext(h, task[h].due, task[h].locks \cup {task[h].want})

-----------------------------------------------------------------------------
(* Staff: admin-sportsbook.service.ts *)

Void(h, e) ==
  /\ ~game[e].settled
  /\ Request(h, Settling(e, "VOID"))
  /\ UNCHANGED <<game, started, final, tickets, chips, ledger, favor>>

\* A recorded score settles a game that is under review.
Resolve(h, e) ==
  /\ ~game[e].settled /\ e \in final
  /\ Request(h, Settling(e, Result[e]))
  /\ UNCHANGED <<game, started, final, tickets, chips, ledger, favor>>

Recheck(h, e) ==
  /\ ~game[e].settled /\ e \in started /\ Free(e)
  /\ Request(h, [op |-> "check", game |-> e, locks |-> {}, want |-> None])
  /\ final' = final \cup {e}
  /\ UNCHANGED <<game, started, tickets, chips, ledger, favor>>

-----------------------------------------------------------------------------
(* The feed: sportsbook-feed.service.ts *)

\* Mutant: the provider's status is stored as it is.
ListGameRaw(e) ==
  /\ Idle(Poller) /\ ~game[e].settled
  /\ final' = final \ {e}
  /\ task' = [task EXCEPT ![Poller] =
       [op |-> "list", game |-> e, lists |-> IF e \in started THEN "OVER" ELSE "PRE",
        locks |-> {}, want |-> e]]
  /\ UNCHANGED <<game, started, tickets, chips, ledger, favor, requests, reopened>>

\* The provider lists every game; what it lists overwrites the checked score.  A
\* game read as unsettled will be written.
ListGame(e) ==
  /\ Idle(Poller)
  /\ final' = final \ {e}
  /\ IF game[e].settled THEN UNCHANGED task
     ELSE task' = [task EXCEPT ![Poller] =
            [op |-> "list", game |-> e, lists |-> IF e \in started THEN "LIVE" ELSE "PRE",
             locks |-> {}, want |-> e]]
  /\ UNCHANGED <<game, started, tickets, chips, ledger, favor, requests, reopened>>

\* Mutant: the row is written while a wager holds it.
WriteListingAnyway(h) ==
  /\ Does(h, "list")
  /\ LET e == task[h].game IN
     /\ game' = [game EXCEPT ![e].status = task[h].lists]
     /\ reopened' = reopened \cup {d \in {e} : game[d].settled}
  /\ Done(h)
  /\ UNCHANGED <<started, final, tickets, chips, ledger, favor>>

\* The write goes by id alone: it does not ask whether the game was settled since.
WriteListing(h) ==
  /\ Does(h, "list") /\ Locks(h, task[h].game)
  /\ LET e == task[h].game IN
     /\ game' = [game EXCEPT ![e].status = task[h].lists]
     /\ reopened' = reopened \cup {d \in {e} : game[d].settled}
  /\ Done(h)
  /\ UNCHANGED <<started, final, tickets, chips, ledger, favor>>

\* A coming game the provider no longer lists is closed.
PullLine(e) ==
  /\ Idle(Poller) /\ Free(e)
  /\ game[e] = [status |-> "PRE", settled |-> FALSE] /\ e \notin started
  /\ game' = [game EXCEPT ![e].status = "PULLED"]
  /\ UNCHANGED <<started, final, tickets, chips, ledger, favor, task, requests, reopened>>

\* Mutant: results are asked for only when the feed has seen the game begin.
PollLive(e) ==
  /\ Idle(Poller) /\ Free(e)
  /\ game[e] = [status |-> "LIVE", settled |-> FALSE]
  /\ e \in started /\ Open(On(e)) # {}
  /\ task' = [task EXCEPT ![Poller] = [op |-> "check", game |-> e, locks |-> {}, want |-> None]]
  /\ final' = final \cup {e}
  /\ UNCHANGED <<game, started, tickets, chips, ledger, favor, requests, reopened>>

\* After the listings, a run asks for the results of started games with open tickets.
Poll(e) ==
  /\ Idle(Poller) /\ Free(e)
  /\ ~game[e].settled /\ game[e].status \in {"PRE", "LIVE", "PULLED"}
  /\ e \in started /\ Open(On(e)) # {}
  /\ task' = [task EXCEPT ![Poller] = [op |-> "check", game |-> e, locks |-> {}, want |-> None]]
  /\ final' = final \cup {e}
  /\ UNCHANGED <<game, started, tickets, chips, ledger, favor, requests, reopened>>

\* The score recorded for the game, if it is still there, settles it.
Evaluate(h) ==
  /\ Does(h, "check")
  /\ LET e == task[h].game
     IN  IF game[e].settled \/ e \notin final THEN Done(h)
         ELSE Goes(h, Settling(e, Result[e]))
  /\ UNCHANGED <<game, started, final, tickets, chips, ledger, favor, reopened>>

GameStarts(e) ==
  /\ e \notin started
  /\ started' = started \cup {e}
  /\ UNCHANGED <<game, final, tickets, chips, ledger, favor, task, requests, reopened>>

-----------------------------------------------------------------------------
(* The cage: casino.service.ts.  The player's row is locked first and no other. *)

Cage(p, id, new) ==
  /\ \E h \in Clients : Idle(h)
  /\ Free(p) /\ <<p, id>> \notin ledger
  /\ requests < MaxRequests /\ requests' = requests + 1
  /\ ledger' = ledger \cup {<<p, id>>}
  /\ chips' = [chips EXCEPT ![p] = new]
  /\ UNCHANGED <<game, started, final, tickets, favor, task, reopened>>

BuyChips(p, id, n) ==
  /\ chips[p].cash >= n
  /\ Cage(p, id, IF chips[p].open THEN [chips[p] EXCEPT !.cash = @ - n, !.floor = @ + n]
                 ELSE [chips[p] EXCEPT !.cash = @ - n, !.wallet = @ + n])

RedeemChips(p, id, n) ==
  /\ chips[p].wallet >= n
  /\ Cage(p, id, [chips[p] EXCEPT !.wallet = @ - n, !.cash = @ + n])

StartSession(p, id, n) ==
  /\ ~chips[p].open /\ chips[p].wallet >= n
  /\ Cage(p, id, [chips[p] EXCEPT !.wallet = @ - n, !.floor = n, !.visit = @ + 1, !.open = TRUE])

CloseSession(p, id) ==
  /\ chips[p].open
  /\ Cage(p, id, [chips[p] EXCEPT !.wallet = @ + chips[p].floor, !.floor = 0, !.open = FALSE])

-----------------------------------------------------------------------------
(* Vic's favor: handcrafted-quest.service.ts accept *)

AskFavor(h, p) ==
  /\ Idle(h)
  /\ Request(h, [op |-> "favor", player |-> p, game |-> None, locks |-> {}, want |-> p])
  /\ UNCHANGED <<game, started, final, tickets, chips, ledger, favor>>

\* Vic names a coming game; the contract row then refers to the game's row, so the
\* database waits for whoever holds that.
PickFavor(h) ==
  /\ Does(h, "favor") /\ Locks(h, task[h].player)
  /\ LET p == task[h].player
         coming == {e \in Events \ started : game[e].status = "PRE"}
     IN  IF favor[p] # None \/ coming = {} THEN Done(h)
         ELSE \E e \in coming :
                Goes(h, [task[h] EXCEPT !.game = e, !.locks = {p}, !.want = e])
  /\ UNCHANGED <<game, started, final, tickets, chips, ledger, favor, reopened>>

AcceptFavor(h) ==
  /\ Does(h, "favor") /\ task[h].game # None /\ Locks(h, task[h].game)
  /\ favor' = [favor EXCEPT ![task[h].player] = task[h].game]
  /\ Done(h)
  /\ UNCHANGED <<game, started, final, tickets, chips, ledger, reopened>>

-----------------------------------------------------------------------------
(* Deadlocks and lost transactions *)

\* Everyone in set waits for a row of another in set, and holds a row that
\* another in set waits for.
Cycle(set) ==
  /\ set # {}
  /\ \A h \in set : \E g \in set : Wants(h) \in Held(g)
  /\ \A h \in set : \E g \in set : Wants(g) \in Held(h)

\* The database ends a deadlock by rolling one of its transactions back.
BreakDeadlock ==
  /\ \E set \in SUBSET Handlers : Cycle(set) /\ \E h \in set : Done(h)
  /\ UNCHANGED <<game, started, final, tickets, chips, ledger, favor, reopened>>

\* A transaction times out, is refused for reasons the model leaves out, or dies
\* with its process.
Lose(h) ==
  /\ ~Idle(h)
  /\ requests < MaxRequests /\ requests' = requests + 1
  /\ task' = [task EXCEPT ![h] = None]
  /\ UNCHANGED <<game, started, final, tickets, chips, ledger, favor, reopened>>

-----------------------------------------------------------------------------

Init ==
  /\ game = [e \in Events |-> [status |-> "PRE", settled |-> FALSE]]
  /\ started = Begun /\ final = {} /\ reopened = {}
  /\ tickets = {TicketFor(slip, 1) : slip \in Placed}
  /\ ledger = {<<slip.player, slip.id>> : slip \in Placed}
  /\ chips = [p \in Players |->
                [cash |-> Purse, wallet |-> 0, visit |-> 1, open |-> TRUE,
                 floor |-> Bankroll - Stakes({slip \in Placed : slip.player = p})]]
  /\ favor = [p \in Players |-> None]
  /\ task = [h \in Handlers |-> None]
  /\ requests = 0

\* A handler's next step with the task it has.
Advance(h) ==
  \/ LockGame(h) \/ JudgeWager(h) \/ PlaceWager(h)
  \/ SettleGame(h) \/ LockHolder(h)
  \/ WriteListing(h) \/ Evaluate(h)
  \/ PickFavor(h) \/ AcceptFavor(h)

AtTheCage ==
  \E p \in Players, id \in ActionIds :
    \/ \E n \in Amounts : BuyChips(p, id, n) \/ RedeemChips(p, id, n) \/ StartSession(p, id, n)
    \/ CloseSession(p, id)

AtTheDesk ==
  \E h \in Clients :
    \/ \E slip \in Slips : SubmitWager(h, slip)
    \/ \E p \in Players : AskFavor(h, p)
    \/ \E e \in Events : Void(h, e) \/ Resolve(h, e) \/ Recheck(h, e)

Next ==
  \/ \E h \in Handlers : Advance(h) \/ Lose(h)
  \/ BreakDeadlock
  \/ AtTheDesk \/ AtTheCage
  \/ \E e \in Listed : ListGame(e) \/ PullLine(e)
  \/ \E e \in Events : Poll(e) \/ GameStarts(e)

Spec == Init /\ [][Next]_vars

\* Row locks are queued, deadlocks are found, and every feed run ends by asking for
\* the results that are due.
Fairness ==
  /\ \A h \in Handlers : SF_vars(Advance(h))
  /\ WF_vars(BreakDeadlock)
  /\ SF_vars(\E e \in Events : Poll(e))

FairSpec == Spec /\ Fairness

-----------------------------------------------------------------------------
(* Properties *)

\* Every variable keeps its type.
TypeOK ==
  /\ game \in [Events -> Game]
  /\ started \subseteq Events /\ final \subseteq Events /\ reopened \subseteq Events
  /\ tickets \subseteq Ticket
  /\ chips \in [Players -> Chips]
  /\ ledger \subseteq Players \X ActionIds
  /\ favor \in [Players -> Events \cup {None}]
  /\ task \in [Handlers -> Task \cup {None}]
  /\ requests \in Nat

\* Judged under the two locks, a wager may be written later: until it commits,
\* nothing another transaction commits can make it one the book would refuse, and
\* the bankroll it is about to overwrite is the one it read.
JudgedStands ==
  \A h \in Handlers :
    Does(h, "wager") /\ task[h].want = None
    => /\ Takes(task[h].slip)
       /\ chips[task[h].slip.player].floor = task[h].floor

\* The winnings open tickets promise on one side of a game stay within the
\* book's limit, however many players bet on it at once.
SideWithinLimit ==
  \A e \in Events, side \in Sides :
    Liability({t \in Open(On(e)) : t.side = side}) <= Limits.side

\* Chips and cash of a player are what he started with, less every stake, plus
\* what each graded ticket returns: repeats, retries and settlements that race
\* neither charge nor pay twice, and a session closed meanwhile loses nothing.
ChipsAccounted ==
  \A p \in Players :
    chips[p].cash + chips[p].wallet + (IF chips[p].open THEN chips[p].floor ELSE 0)
      = Purse + Bankroll - Stakes(Of(p)) + MapThenSumSet(Return, Of(p))

\* Betting and settling never lock each other out: in a deadlock of wagers and
\* settlements only settlements take part.
WagerNeverDeadlocks ==
  \A set \in SUBSET {h \in Handlers : ~Does(h, "favor")} :
    Cycle(set) => \A h \in set : Does(h, "settle")

\* A ticket is open on a settled game only if the feed wrote over the settlement.
StrandedOnlyByFeed ==
  \A e \in Events : game[e].settled /\ Open(On(e)) # {} => e \in reopened

\* Tickets on a started game that is not settled are graded in the end: again and
\* again there comes a time when no ticket is overdue.
TicketsGraded ==
  []<>(\A e \in started : ~game[e].settled => Open(On(e)) = {})

=============================================================================
