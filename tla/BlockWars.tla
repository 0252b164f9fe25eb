------------------------------- MODULE BlockWars -------------------------------
(***************************************************************************)
(* Turf and block wars: block-war.service.ts takes what players do in a    *)
(* war, block-war-settle.service.ts settles it, turf-action.service.ts     *)
(* claims, mans and leaves blocks, turf.service.ts lets unsupplied corners *)
(* walk out.                                                               *)
(*                                                                         *)
(* A war is settled lazily: whoever comes by, or the minute sweep, walks   *)
(* it through the events that were due by then, as if each had happened on *)
(* time.  The people of a crew who are in a war come home only when their  *)
(* own player next comes by.                                               *)
(*                                                                         *)
(* A request first settles the wars it may concern, one transaction each,  *)
(* and then runs, all at the time it was made.  The rows are the record    *)
(* db; a transaction is an operator from rows to the set of rows it may    *)
(* leave.  Every thug on a corner or in a squad carries one gun.           *)
(***************************************************************************)
EXTENDS Integers, FiniteSets, FiniteSetsExt, Functions

CONSTANTS
  Players, Blocks, Wars,
  Alliance,    \* Alliance[p]: what p belongs to
  StartCrew,   \* StartCrew[p]: thugs of p, each with a gun
  StartHolder, \* StartHolder[b]: who holds b, or None
  StartCorner, \* StartCorner[b]: how many stand there
  Casts,       \* sets of <<player, operation>>: the requests of a behaviour are those of one
  CornerMin,   \* thugs a corner and a declaration need
  BlockCap,    \* blocks a crew may hold
  Warning, Muster, WarLength, Resiege, Truce, Lockout, SiegeCall, \* times of the ruleset
  Full, Pace, Speedup, BreakLoss, \* a siege's Control: 100, a tick's gain, an ally's, the loss
  RoundEnd,
  MaxSend, MaxSquads, MaxWounds, MaxRequests, Horizon, \* bounds
  MaxLag,      \* MaxLag[op]: how long a request may take, a bound
  None

VARIABLES
  cast,  \* who makes which requests
  clock,
  over,  \* the round is closed
  db,    \* the committed rows
  req    \* req[p]: the request p waits for, or None

vars == <<cast, clock, over, db, req>>

-----------------------------------------------------------------------------
(* Types *)

Sides == {"ATTACKER", "DEFENDER"}

\* thugs counts them all; hurt, busy and posted are those of them not at home.
Crew == [thugs: Nat, hurt: Nat, busy: Nat, posted: Nat, guns: Nat]
Block == [holder: Players \cup {None}, corner: Nat, shield: Nat, upkeepAt: Nat]
Fight == [kind: {"OPENING", "ASSAULT", "BREAK"}, landsAt: Nat]

\* fight is the pending one or, when the war is over, the cancelled one.
War == [block: Blocks, attacker: Players, defender: Players, goal: {"TAKE", "SACK"},
        status: {"OPENING", "BETWEEN", "SIEGE", "ENDED"}, endsBy: Nat,
        control: Nat, controlAt: Nat, nextAssaultAt: Nat, fight: Fight \cup {None},
        ally: [Sides -> Players \cup {None}], callUntil: [Sides -> Nat],
        winner: Sides \cup {None}, reason: {"", "CONTROL", "CONCEDED", "WITHDREW", "TIMEOUT",
                                            "ABANDONED", "CUTOFF"}, endedAt: Nat]

\* Squads are numbered as they are sent.  One whose people and guns are all credited is forgotten.
Numbers == 1..MaxSquads
Squad == [war: Wars, player: Players, side: Sides, role: {"DECLARER", "HOLDER", "ALLY"},
          sent: Nat, thugs: Nat, wounded: Nat, posted: Nat, active: BOOLEAN,
          creditedThugs: Nat, creditedWounded: Nat]

Rows == [crew: [Players -> Crew], block: [Blocks -> Block], war: [Wars -> War \cup {None}],
         squads: [Numbers -> Squad \cup {None}]]

OnWars == {"defend", "break", "assault", "call", "answer", "concede", "withdraw"}
OnBlocks == {"take", "sack", "claim", "post", "pull", "scout"}
Ops == OnWars \cup OnBlocks \cup {"visit"}

\* due: wars to settle first; step: where the request is.
Request == [op: Ops, war: Wars \cup {None}, block: Blocks \cup {None}, now: Nat,
            due: SUBSET Wars, step: {"check", "end", "settle"}]

\* The thugs of p on corners at the start.
StartPosted(p) == SumFunction([b \in {x \in Blocks : StartHolder[x] = p} |-> StartCorner[b]])

ASSUME WarAssumption ==
  /\ IsFiniteSet(Players) /\ IsFiniteSet(Blocks) /\ IsFiniteSet(Wars)
  /\ Wars \subseteq Nat /\ Wars \cap Players = {}
  /\ None \notin Players \cup Sides \cup War \cup Fight \cup Squad \cup Request
  /\ StartCrew \in [Players -> Nat] /\ StartCorner \in [Blocks -> Nat]
  /\ StartHolder \in [Blocks -> Players \cup {None}]
  /\ \A p \in Players : StartPosted(p) <= StartCrew[p]
  /\ Casts \subseteq SUBSET (Players \X Ops)
  /\ {CornerMin, BlockCap, Warning, Muster, WarLength, Resiege, Truce, Lockout, SiegeCall,
      Full, Pace, Speedup, BreakLoss, RoundEnd} \subseteq Nat
  /\ {MaxSend, MaxSquads, MaxWounds, MaxRequests, Horizon} \subseteq Nat /\ MaxLag \in [Ops -> Nat]
  /\ Pace > 0 /\ CornerMin > 0 /\ Warning < WarLength /\ Muster > 0 /\ Horizon > 0

-----------------------------------------------------------------------------
(* Reading the rows *)

Least(a, b) == IF a <= b THEN a ELSE b

\* Mutant: nothing keeps a count above zero.
Unclamped(n) == n

AtLeastZero(n) == IF n >= 0 THEN n ELSE 0

Live(d, w) == d.war[w] # None /\ d.war[w].status # "ENDED"
LiveWars(d) == {w \in Wars : Live(d, w)}
BlockOf(d, w) == d.block[d.war[w].block]

Squads(d) == {i \in Numbers : d.squads[i] # None}
Active(d, w) == {i \in Squads(d) : d.squads[i].war = w /\ d.squads[i].active}
On(d, w, side) == {i \in Active(d, w) : d.squads[i].side = side}
Declaring(d, w) == {i \in Active(d, w) : d.squads[i].role = "DECLARER"}
Fielded(d, S) == {i \in S : d.squads[i].thugs > 0}
ThugsIn(d, S) == SumFunction([i \in S |-> d.squads[i].thugs])

Held(d, p) == {b \in Blocks : d.block[b].holder = p}
Fit(d, p) == AtLeastZero(d.crew[p].thugs - d.crew[p].hurt - d.crew[p].busy - d.crew[p].posted)

\* The wars a player's requests settle.
WarsOf(d, p) ==
  {w \in LiveWars(d) :
     \/ d.war[w].attacker = p \/ d.war[w].defender = p
     \/ \E side \in Sides : d.war[w].ally[side] = p
     \/ \E i \in Active(d, w) : d.squads[i].player = p}

-----------------------------------------------------------------------------
(* Control of a siege: business.ts, block-wars.ts *)

\* A tick's gain, more with an ally beside the declarer.
Rate(d, w) ==
  LET declarer == ThugsIn(d, Declaring(d, w))
      ally == ThugsIn(d, On(d, w, "ATTACKER") \ Declaring(d, w))
  IN  Pace + (IF declarer = 0 THEN 0 ELSE (Speedup * Least(ally, declarer)) \div declarer)

\* When Control is full, to the tick.
FullAt(d, w) ==
  d.war[w].controlAt + (Full - d.war[w].control + Rate(d, w) - 1) \div Rate(d, w)

\* Mutant: the time Control was taken to is not kept.
TickedAgain(d, w, to) ==
  LET war == d.war[w] IN
  IF war.status # "SIEGE" \/ to <= war.controlAt THEN d
  ELSE [d EXCEPT !.war[w].control = Least(Full, @ + Rate(d, w) * (to - war.controlAt))]


Ticked(d, w, to) ==
  LET war == d.war[w] IN
  IF war.status # "SIEGE" \/ to <= war.controlAt THEN d
  ELSE [d EXCEPT !.war[w] = [war EXCEPT !.control = Least(Full, @ + Rate(d, w) * (to - war.controlAt)),
                                        !.controlAt = to]]

-----------------------------------------------------------------------------
(* Fights: block-war-settle.service.ts resolveFight *)

\* Mutant: those sent home are still counted as with the squad.
ReleasedInPlace(d, S) ==
  [d EXCEPT !.squads = [i \in Numbers |->
     IF i \in S THEN [@[i] EXCEPT !.active = FALSE] ELSE @[i]]]

\* Mutant: allies are not sent home.
ReleasedButAllies(d, S) ==
  [d EXCEPT !.squads = [i \in Numbers |->
     IF i \in S /\ @[i].role # "ALLY" THEN [@[i] EXCEPT !.active = FALSE, !.thugs = 0] ELSE @[i]]]


Released(d, S) ==
  [d EXCEPT !.squads = [i \in Numbers |->
     IF i \in S THEN [@[i] EXCEPT !.active = FALSE, !.thugs = 0] ELSE @[i]]]

\* The corner's wounded go home with their guns.
CornerHurt(d, b, n) ==
  LET p == d.block[b].holder
      crew == d.crew[p]
  IN  [d EXCEPT !.block[b].corner = @ - n,
                !.crew[p] = [crew EXCEPT !.posted = AtLeastZero(@ - n), !.guns = @ + n, !.hurt = @ + n]]

\* hurt[i] of squad i and hurt[0] of the corner are wounded.
Bloodied(d, w, hurt) ==
  CornerHurt([d EXCEPT !.squads = [i \in Numbers |->
                IF i \in DOMAIN hurt
                THEN [d.squads[i] EXCEPT !.thugs = @ - hurt[i], !.wounded = @ + hurt[i]]
                ELSE @[i]]],
             d.war[w].block, hurt[0])

\* What a fight may do to the people in it.
Wounds(d, S, corner) ==
  {hurt \in [S \cup {0} -> 0..MaxWounds] :
     /\ \A i \in S : hurt[i] <= d.squads[i].thugs
     /\ hurt[0] <= corner
     /\ SumFunction(hurt) <= MaxWounds}

\* Helpers go home; attackers who lost do too and wait, those who won besiege the block.
Decided(d, w, helpers, attackers, winner) ==
  LET at == d.war[w].fight.landsAt
      broken == d.war[w].fight.kind = "BREAK"
      old == d.war[w]
      freed == Released(d, helpers)
      rows == IF winner = "DEFENDER" THEN Released(freed, attackers) ELSE freed
  IN  IF winner = "DEFENDER"
      THEN [rows EXCEPT !.war[w] =
              [old EXCEPT !.fight = None, !.status = "BETWEEN", !.nextAssaultAt = at + Resiege,
                          !.controlAt = 0, !.control = IF broken THEN AtLeastZero(@ - BreakLoss) ELSE @]]
      ELSE IF broken THEN [rows EXCEPT !.war[w].fight = None]
      ELSE [rows EXCEPT !.war[w] = [old EXCEPT !.fight = None, !.status = "SIEGE", !.controlAt = at]]

Fought(d, w) ==
  LET attackers == Fielded(d, On(d, w, "ATTACKER"))
      helpers == Fielded(d, On(d, w, "DEFENDER"))
      corner == BlockOf(d, w).corner
      met == attackers # {} /\ corner + ThugsIn(d, helpers) > 0
      winners == IF attackers = {} THEN {"DEFENDER"} ELSE IF met THEN Sides ELSE {"ATTACKER"}
      wounds == IF met THEN Wounds(d, attackers \cup helpers, corner) ELSE {[i \in {0} |-> 0]}
  IN  {Decided(Bloodied(d, w, hurt), w, helpers, attackers, winner) :
         hurt \in wounds, winner \in winners}

-----------------------------------------------------------------------------
(* The end of a war: endWar *)

\* The holder's corner goes home hurt, the declarer's squad stays on in its place.
Taken(d, w, at) ==
  LET war == d.war[w]
      block == BlockOf(d, w)
      first == IF Declaring(d, w) = {} THEN 0 ELSE Min(Declaring(d, w))
      posted == IF first = 0 THEN 0 ELSE d.squads[first].thugs
      beaten == CornerHurt(d, war.block, block.corner)
      manned == IF first = 0 THEN beaten
                ELSE [beaten EXCEPT !.squads[first] =
                        [@ EXCEPT !.posted = posted, !.thugs = 0, !.active = FALSE]]
  IN  [manned EXCEPT !.block[war.block] =
         [holder |-> war.attacker, corner |-> posted, shield |-> at + Truce, upkeepAt |-> at]]

\* Everyone goes home, but after a Take the declarer's.  Nobody's truce when the block was lost
\* some other way.  What nothing reads of a war that is over is forgotten.
Ended(d, w, at, winner, reason) ==
  LET war == d.war[w]
      taken == winner = "ATTACKER" /\ war.goal = "TAKE"
      settled == IF taken THEN Taken(d, w, at)
                 ELSE IF winner = None THEN d
                 ELSE [d EXCEPT !.block[war.block].shield = at + Truce]
      home == IF taken THEN Active(settled, w) \ Declaring(settled, w) ELSE Active(settled, w)
      closed == [war EXCEPT !.status = "ENDED", !.winner = winner, !.reason = reason, !.endedAt = at,
                           !.control = 0, !.controlAt = 0, !.nextAssaultAt = 0,
                           !.callUntil = [side \in Sides |-> 0]]
  IN  [Released(settled, home) EXCEPT !.war[w] = closed]

-----------------------------------------------------------------------------
(* A war walked forward to now: advanceIn *)

\* What is due after the fight; ending is None or a <<winner, reason>> to end it with.
Finished(d, w, now, ending) ==
  LET war == d.war[w]
      full == FullAt(d, w)
  IN  IF war.status = "SIEGE" /\ full <= now /\ full <= war.endsBy
      THEN Ended([Ticked(d, w, full) EXCEPT !.war[w].control = Full], w, full,
                 "ATTACKER", "CONTROL")
      ELSE IF war.endsBy <= now
      THEN Ended(Ticked(d, w, war.endsBy), w, war.endsBy, "DEFENDER", "TIMEOUT")
      ELSE IF ending # None THEN Ended(Ticked(d, w, now), w, now, ending[1], ending[2])
      ELSE Ticked(d, w, now)

\* At most one fight is pending, and none is begun here.
FightNext(d, w, now) ==
  LET war == d.war[w] IN
  /\ war.fight # None
  /\ war.fight.landsAt <= now /\ war.fight.landsAt <= war.endsBy
  /\ war.status = "SIEGE" => war.fight.landsAt < FullAt(d, w)

\* Mutant: a war over a lost block ends when somebody looks.
AbandonedNow(d, w, now) == now

\* A war over a block that was lost otherwise ends when that is seen, or when its time was up.
AbandonedAt(d, w, now) == Least(now, d.war[w].endsBy)

\* Mutant: only a block nobody holds ends its war.
AdvancedHeld(d, w, now, ending) ==
  IF ~Live(d, w) THEN {d}
  ELSE IF BlockOf(d, w).holder = None
  THEN {Ended(d, w, AbandonedAt(d, w, now), None, "ABANDONED")}
  ELSE {Finished(x, w, now, ending) :
          x \in IF FightNext(d, w, now) THEN Fought(Ticked(d, w, d.war[w].fight.landsAt), w)
                ELSE {d}}

\* A block the holder lost some other way leaves nothing to fight for.
Advanced(d, w, now, ending) ==
  IF ~Live(d, w) THEN {d}
  ELSE IF BlockOf(d, w).holder # d.war[w].defender
  THEN {Ended(d, w, AbandonedAt(d, w, now), None, "ABANDONED")}
  ELSE {Finished(x, w, now, ending) :
          x \in IF FightNext(d, w, now) THEN Fought(Ticked(d, w, d.war[w].fight.landsAt), w)
                ELSE {d}}

-----------------------------------------------------------------------------
(* A player's own rows, before he acts or is shown: credit, settlePlayer *)

Own(d, p) == {i \in Squads(d) : d.squads[i].player = p}
Away(squad) == squad.sent - squad.thugs

\* The hurt come home as they are hurt; the rest and the guns when the squad is released,
\* those it left on a corner it took as posted.
Credited(d, p) ==
  LET crew == d.crew[p]
      own == Own(d, p)
      done == {i \in own : ~d.squads[i].active}
      back == SumFunction([i \in own |-> Away(d.squads[i]) - d.squads[i].creditedThugs])
      hurt == SumFunction([i \in own |-> d.squads[i].wounded - d.squads[i].creditedWounded])
      posted == SumFunction([i \in done |-> d.squads[i].posted])
      guns == SumFunction([i \in done |-> d.squads[i].sent - d.squads[i].posted])
      Marked(squad) == [squad EXCEPT !.creditedThugs = Away(squad), !.creditedWounded = squad.wounded]
  IN  [d EXCEPT !.crew[p] = [crew EXCEPT !.busy = AtLeastZero(@ - back), !.hurt = @ + hurt,
                                         !.posted = @ + posted, !.guns = @ + guns],
                !.squads = [i \in Numbers |-> IF i \in done THEN None
                                                   ELSE IF i \in own THEN Marked(d.squads[i]) ELSE @[i]]]

Left(block, n, now) ==
  IF block.corner = n THEN [block EXCEPT !.holder = None, !.corner = 0, !.shield = 0,
                                         !.upkeepAt = now]
  ELSE [block EXCEPT !.corner = @ - n, !.upkeepAt = now]

\* Corners since whose last supplies time has passed lose any number of their people, whose
\* guns come home.
WalkedOut(d, p, now) ==
  LET crew == d.crew[p]
      due == {b \in Held(d, p) : d.block[b].upkeepAt < now /\ d.block[b].corner > 0}
      most == SumFunction([b \in due |-> d.block[b].corner])
  IN  {[d EXCEPT !.crew[p] = [crew EXCEPT !.thugs = AtLeastZero(@ - SumFunction(f)),
                                          !.guns = @ + SumFunction(f),
                                          !.posted = AtLeastZero(@ - SumFunction(f))],
                 !.block = [b \in Blocks |-> IF b \in due THEN Left(@[b], f[b], now) ELSE @[b]]] :
         f \in {g \in [due -> 0..most] : \A b \in due : g[b] <= d.block[b].corner}}

\* Some of the hurt are fit again.
Healed(d, p) == {[d EXCEPT !.crew[p].hurt = n] : n \in 0..d.crew[p].hurt}

Entered(d, p, now) == UNION {Healed(x, p) : x \in WalkedOut(Credited(d, p), p, now)}

Absent(crew) == crew.hurt + crew.busy + crew.posted

\* assertPlayerState
Sound(d, p) == Absent(d.crew[p]) <= d.crew[p].thugs

-----------------------------------------------------------------------------
(* What players do: the bodies of block-war.service.ts and turf-action.service.ts *)

\* Only as many as are fit and have a home gun.
Sizes(d, p) == {n \in 1..MaxSend : n <= Fit(d, p) /\ n <= d.crew[p].guns}

NextSquad(d) == 1 + Max({0} \cup Squads(d))

\* commit
Sent(d, p, w, side, role, n) ==
  [d EXCEPT !.crew[p] = [d.crew[p] EXCEPT !.busy = @ + n, !.guns = @ - n],
            !.squads[NextSquad(d)] =
               [war |-> w, player |-> p, side |-> side, role |-> role,
                sent |-> n, thugs |-> n, wounded |-> 0, posted |-> 0,
                active |-> TRUE, creditedThugs |-> 0, creditedWounded |-> 0]]

Sends(d, p, w, side, role, sizes) ==
  IF NextSquad(d) > MaxSquads THEN {} ELSE {Sent(d, p, w, side, role, n) : n \in sizes}

NewFight(kind, at) == [kind |-> kind, landsAt |-> at]

NewWar(p, q, b, goal, now) ==
  [block |-> b, attacker |-> p, defender |-> q, goal |-> goal, status |-> "OPENING",
   endsBy |-> now + WarLength, control |-> 0, controlAt |-> 0, nextAssaultAt |-> 0,
   fight |-> NewFight("OPENING", now + Warning), ally |-> [side \in Sides |-> None],
   callUntil |-> [side \in Sides |-> 0], winner |-> None, reason |-> "", endedAt |-> 0]

Allied(p, q) == Alliance[p] # None /\ Alliance[p] = Alliance[q]
Declared(d, p) == {w \in LiveWars(d) : d.war[w].attacker = p}

\* The holder beat p there and p is still locked out.
LockedOut(d, p, b, now) ==
  \E w \in Wars : /\ d.war[w] # None
                  /\ d.war[w].block = b /\ d.war[w].attacker = p /\ d.war[w].winner = "DEFENDER"
                  /\ d.war[w].endedAt > now - Lockout

MayDeclare(d, p, b, now) ==
  LET holder == d.block[b].holder IN
  /\ holder \notin {None, p} /\ ~Allied(p, holder)
  /\ d.block[b].shield <= now
  /\ \A w \in LiveWars(d) : d.war[w].block # b
  /\ Declared(d, p) = {}
  /\ ~LockedOut(d, p, b, now)

\* A Take needs a free block slot.
SlotFor(d, p, goal) ==
  goal = "TAKE" => Cardinality(Held(d, p))
                   + Cardinality({w \in Declared(d, p) : d.war[w].goal = "TAKE"}) < BlockCap

Declare(d, p, b, goal, now) ==
  LET free == {w \in Wars : d.war[w] = None} IN
  IF free = {} \/ ~MayDeclare(d, p, b, now) \/ ~SlotFor(d, p, goal) THEN {}
  ELSE Sends([d EXCEPT !.war[Min(free)] = NewWar(p, d.block[b].holder, b, goal, now)],
             p, Min(free), "ATTACKER", "DECLARER", {n \in Sizes(d, p) : n >= CornerMin})

\* The fight that is coming, of another kind than those in kinds.
Coming(d, w, now, kinds) ==
  d.war[w].fight # None /\ d.war[w].fight.landsAt > now /\ d.war[w].fight.kind \notin kinds

Defend(d, p, w, now) ==
  IF d.war[w].defender = p /\ Coming(d, w, now, {"BREAK"})
     /\ \A i \in On(d, w, "DEFENDER") : d.squads[i].role # "HOLDER"
  THEN Sends(d, p, w, "DEFENDER", "HOLDER", Sizes(d, p)) ELSE {}

\* A fight is mustered only if it lands before the war runs out.
Mustered(d, w, kind, now) == [d EXCEPT !.war[w].fight = NewFight(kind, now + Muster)]
InTime(d, w, now) == now + Muster < d.war[w].endsBy

BreakSiege(d, p, w, now) ==
  IF d.war[w].defender = p /\ d.war[w].status = "SIEGE" /\ d.war[w].fight = None /\ InTime(d, w, now)
  THEN Sends(Mustered(d, w, "BREAK", now), p, w, "DEFENDER", "HOLDER", Sizes(d, p)) ELSE {}

Assault(d, p, w, now) ==
  IF /\ d.war[w].attacker = p /\ d.war[w].status = "BETWEEN" /\ d.war[w].fight = None
     /\ d.war[w].nextAssaultAt <= now /\ InTime(d, w, now)
  THEN Sends(Mustered(d, w, "ASSAULT", now), p, w, "ATTACKER", "DECLARER", Sizes(d, p)) ELSE {}

Caller(war, side) == IF side = "ATTACKER" THEN war.attacker ELSE war.defender
Joinable(d, w, side, now) == Coming(d, w, now, IF side = "ATTACKER" THEN {"BREAK"} ELSE {})

\* The call is open until the fight, or for a while in a siege.
CallAlly(d, p, w, now) ==
  {[d EXCEPT !.war[w].callUntil[side] =
      IF Joinable(d, w, side, now) THEN d.war[w].fight.landsAt ELSE now + SiegeCall] :
     side \in {s \in Sides :
       /\ Caller(d.war[w], s) = p /\ Alliance[p] # None
       /\ Joinable(d, w, s, now) \/ (s = "ATTACKER" /\ d.war[w].status = "SIEGE")}}

MayAnswer(d, p, w, side, now) ==
  LET war == d.war[w] IN
  /\ p \notin {war.attacker, war.defender} /\ Allied(p, Caller(war, side))
  /\ war.callUntil[side] > now
  /\ \/ war.ally[side] = p
     \/ war.ally[side] = None /\ \A v \in LiveWars(d) \ {w} : \A s \in Sides : d.war[v].ally[s] # p
  /\ Joinable(d, w, side, now) \/ (side = "ATTACKER" /\ war.status = "SIEGE")

\* No more than the declarer has there.
Answer(d, p, w, now) ==
  LET room == ThugsIn(d, Declaring(d, w)) - ThugsIn(d, Active(d, w) \cap Own(d, p)) IN
  UNION {Sends([d EXCEPT !.war[w].ally[side] = p], p, w, side, "ALLY",
               {n \in Sizes(d, p) : n <= room}) :
           side \in {s \in Sides : MayAnswer(d, p, w, s, now)}}

\* The locals' block, won from them or not; only blocks held count against the cap.
Claim(d, p, b, now) ==
  IF d.block[b].holder # None \/ Cardinality(Held(d, p)) >= BlockCap THEN {}
  ELSE {d} \cup
       {[d EXCEPT !.block[b] = [holder |-> p, corner |-> n, shield |-> 0, upkeepAt |-> now],
                  !.crew[p] = [d.crew[p] EXCEPT !.posted = @ + n, !.guns = @ - n]] :
          n \in {m \in Sizes(d, p) : m >= CornerMin}}

Post(d, p, b, now) ==
  IF d.block[b].holder # p THEN {}
  ELSE {[d EXCEPT !.block[b] = [d.block[b] EXCEPT !.corner = @ + n, !.upkeepAt = now],
                  !.crew[p] = [d.crew[p] EXCEPT !.posted = @ + n, !.guns = @ - n]] : n \in Sizes(d, p)}

\* All of them, or enough are left.
Pull(d, p, b, now) ==
  LET block == d.block[b] IN
  IF block.holder # p THEN {}
  ELSE {[d EXCEPT !.block[b] = Left(block, n, now),
                  !.crew[p] = [d.crew[p] EXCEPT !.posted = AtLeastZero(@ - n), !.guns = @ + n]] :
          n \in {m \in 1..block.corner : block.corner - m = 0 \/ block.corner - m >= CornerMin}}

\* A worker on a rival's block has the rival's corners settled, unless his row is busy, but
\* not his squads credited: scoutEconomy.
Scout(d, p, b, now) ==
  LET q == d.block[b].holder IN
  {d} \cup (IF q \in {None, p} THEN {} ELSE WalkedOut(d, q, now))

\* What a request may leave, after the player's rows were brought up to date.  Concede and
\* withdraw have ended the war before.
Body(d, p, r) ==
  IF r.op \in OnWars \ {"concede", "withdraw"} /\ ~Live(d, r.war) THEN {}
  ELSE CASE r.op = "take" -> Declare(d, p, r.block, "TAKE", r.now)
         [] r.op = "sack" -> Declare(d, p, r.block, "SACK", r.now)
         [] r.op = "defend" -> Defend(d, p, r.war, r.now)
         [] r.op = "break" -> BreakSiege(d, p, r.war, r.now)
         [] r.op = "assault" -> Assault(d, p, r.war, r.now)
         [] r.op = "call" -> CallAlly(d, p, r.war, r.now)
         [] r.op = "answer" -> Answer(d, p, r.war, r.now)
         [] r.op = "claim" -> Claim(d, p, r.block, r.now)
         [] r.op = "post" -> Post(d, p, r.block, r.now)
         [] r.op = "pull" -> Pull(d, p, r.block, r.now)
         [] r.op = "scout" -> Scout(d, p, r.block, r.now)
         [] OTHER -> {d}

\* A state poll commits whatever it finds; an action is refused after the round and asserts
\* the player's state before its body.
Outcomes(d, p, r) ==
  IF r.op = "visit" THEN Entered(d, p, r.now)
  ELSE IF over \/ r.now >= RoundEnd THEN {}
  ELSE UNION {Body(x, p, r) : x \in {y \in Entered(d, p, r.now) : Sound(y, p)}}

-----------------------------------------------------------------------------
(* Requests *)

InFlight == {p \in Players : req[p] # None}
At(p, step) == req[p] # None /\ req[p].step = step

NewRequest(op, w, b, step, due) ==
  [op |-> op, war |-> w, block |-> b, now |-> clock, due |-> due, step |-> step]

\* A player makes one request at a time, and none that is certain to be refused: on a war
\* that is over, or after the round.
MayAsk(p, op) ==
  /\ <<p, op>> \in cast /\ req[p] = None /\ Cardinality(InFlight) < MaxRequests
  /\ over => op = "visit"

\* A request takes the time and lists the wars to settle.  The list only shrinks meanwhile, and
\* to settle a war that is over does nothing: it is read with the step before.
AskBlock(p, op) ==
  /\ MayAsk(p, op)
  /\ \E b \in IF op = "visit" THEN {None} ELSE Blocks :
       req' = [req EXCEPT ![p] = NewRequest(op, None, b, "settle", WarsOf(db, p))]
  /\ UNCHANGED <<cast, clock, over, db>>

\* upToDate: a request on a war first walks that war forward, in a transaction of its own.
AskWar(p, op) ==
  /\ MayAsk(p, op)
  /\ \E w \in LiveWars(db) :
       /\ db' \in Advanced(db, w, clock, None)
       /\ req' = [req EXCEPT ![p] =
            IF op \in {"concede", "withdraw"} THEN NewRequest(op, w, None, "check", {})
            ELSE NewRequest(op, w, None, "settle", WarsOf(db', p))]
  /\ UNCHANGED <<cast, clock, over>>

\* Whether the war may be ended so is read on its own, and the war then ended.
MayEnd(p) ==
  LET war == db.war[req[p].war] IN
  /\ war.status # "ENDED"
  /\ IF req[p].op = "concede" THEN war.defender = p /\ war.status = "SIEGE" ELSE war.attacker = p

Check(p) ==
  /\ At(p, "check")
  /\ req' = [req EXCEPT ![p] = IF MayEnd(p) THEN [@ EXCEPT !.step = "end"] ELSE None]
  /\ UNCHANGED <<cast, clock, over, db>>

Ending(op) == IF op = "concede" THEN <<"ATTACKER", "CONCEDED">> ELSE <<"DEFENDER", "WITHDREW">>

End(p) ==
  /\ At(p, "end")
  /\ db' \in Advanced(db, req[p].war, req[p].now, Ending(req[p].op))
  /\ req' = [req EXCEPT ![p] = [@ EXCEPT !.due = WarsOf(db', p), !.step = "settle"]]
  /\ UNCHANGED <<cast, clock, over>>

\* settleDueFor: the wars listed are settled one by one.
SettleOne(p) ==
  /\ At(p, "settle")
  /\ \E w \in req[p].due :
       /\ db' \in Advanced(db, w, req[p].now, None)
       /\ req' = [req EXCEPT ![p].due = @ \ {w}]
  /\ UNCHANGED <<cast, clock, over>>

\* The request's own transaction, which commits or is refused.
Run(p) ==
  /\ At(p, "settle") /\ req[p].due = {}
  /\ db' \in {db} \cup Outcomes(db, p, req[p])
  /\ req' = [req EXCEPT ![p] = None]
  /\ UNCHANGED <<cast, clock, over>>

-----------------------------------------------------------------------------
(* The clock, the minute sweep and the end of the round *)

\* A request takes no longer than MaxLag.
Tick ==
  /\ clock < Horizon
  /\ \A p \in InFlight : clock < req[p].now + MaxLag[req[p].op]
  /\ clock' = clock + 1
  /\ UNCHANGED <<cast, over, db, req>>

Sweep(w) ==
  /\ Live(db, w)
  /\ db' \in Advanced(db, w, clock, None)
  /\ UNCHANGED <<cast, clock, over, req>>

\* closeRoundInTransaction: every war to the cutoff and over, then every player settled.
Closing(d, t) ==
  IF t \in Wars THEN UNION {Advanced(x, t, RoundEnd, <<"DEFENDER", "CUTOFF">>) :
                            x \in Advanced(d, t, RoundEnd, None)}
  ELSE Entered(d, t, RoundEnd)

\* From any rows of D, the wars or players T one after another.
InTurn(D, T) ==
  LET After[S \in SUBSET T] ==
        IF S = {} THEN D
        ELSE LET t == CHOOSE t \in S : TRUE IN UNION {Closing(d, t) : d \in After[S \ {t}]}
  IN  After[T]

CloseRound ==
  /\ clock >= RoundEnd /\ ~over
  /\ db' \in InTurn(InTurn({db}, LiveWars(db)), Players)
  /\ over' = TRUE
  /\ UNCHANGED <<cast, clock, req>>

-----------------------------------------------------------------------------
Init ==
  /\ cast \in Casts
  /\ clock = 1 /\ over = FALSE /\ req = [p \in Players |-> None]
  /\ db = [crew |-> [p \in Players |->
             [thugs |-> StartCrew[p], hurt |-> 0, busy |-> 0, posted |-> StartPosted(p),
              guns |-> StartCrew[p] - StartPosted(p)]],
           block |-> [b \in Blocks |-> [holder |-> StartHolder[b], corner |-> StartCorner[b],
                                        shield |-> 0, upkeepAt |-> 1]],
           war |-> [w \in Wars |-> None], squads |-> [i \in Numbers |-> None]]

Serve(p) == Check(p) \/ End(p) \/ SettleOne(p) \/ Run(p)

Next ==
  \/ \E p \in Players : \/ \E op \in Ops \ OnWars : AskBlock(p, op)
                       \/ \E op \in OnWars : AskWar(p, op)
                       \/ Serve(p)
  \/ Tick \/ CloseRound
  \/ \E w \in Wars : Sweep(w)

Spec == Init /\ [][Next]_vars

-----------------------------------------------------------------------------
(* Properties *)

\* Types.
TypeOK ==
  /\ cast \in Casts /\ clock \in 1..Horizon /\ over \in BOOLEAN
  /\ db \in Rows
  /\ req \in [Players -> Request \cup {None}]

Manned(d, p) == SumFunction([b \in Held(d, p) |-> d.block[b].corner])
Carried(d, p) == SumFunction([i \in Own(d, p) |-> d.squads[i].sent - d.squads[i].posted])
Out(d, p) == SumFunction([i \in Own(d, p) |-> d.squads[i].sent - d.squads[i].creditedThugs])
LeftPosted(d, p) == SumFunction([i \in Own(d, p) |-> d.squads[i].posted])

\* Across fights, captures, walkouts and late credits no gun of a crew is lost or made, every
\* busy thug is one of a squad whose return is still to be credited, and everyone on a corner
\* is posted or about to be.
CrewsAccounted ==
  \A p \in Players :
    /\ db.crew[p].guns + Manned(db, p) + Carried(db, p) = StartCrew[p]
    /\ db.crew[p].busy = Out(db, p)
    /\ db.crew[p].posted + LeftPosted(db, p) >= Manned(db, p)

\* People are out only for a war that goes on, and for something in it: the holder's side for
\* a fight to come, the attacker's for one or for the siege.  The exception is a declarer who
\* took the block with a second squad, the first having been wounded to the last: only the
\* first is posted, and the second is not sent home.
NobodyLeftBehind ==
  \A i \in Squads(db) :
    LET squad == db.squads[i]
        war == db.war[squad.war]
    IN  squad.active /\ squad.thugs > 0 =>
          IF Live(db, squad.war)
          THEN war.fight # None \/ (squad.side = "ATTACKER" /\ war.status = "SIEGE")
          ELSE squad.role = "DECLARER" /\ war.goal = "TAKE" /\ war.winner = "ATTACKER"

\* However late a war is looked at, it ends within its time, and no fight that was due before
\* its end is dropped, unless the block was lost some other way; whoever looks at it after its
\* time ends it.
EndsInTime ==
  \A w \in Wars : db.war[w] # None =>
    IF Live(db, w)
    THEN db.war[w].endsBy <= clock => \A x \in Advanced(db, w, clock, None) : ~Live(x, w)
    ELSE /\ db.war[w].endedAt <= db.war[w].endsBy
         /\ db.war[w].reason # "ABANDONED" /\ db.war[w].fight # None =>
              db.war[w].fight.landsAt >= db.war[w].endedAt

\* A war looked at late stands where it would have stood had it been looked at in between,
\* as long as its block is still the defender's.
LateIsOnTime ==
  \A w \in LiveWars(db) : BlockOf(db, w).holder = db.war[w].defender =>
    \A t \in clock..(db.war[w].endsBy + 1) :
      Advanced(db, w, t, None) = UNION {Advanced(x, w, t, None) : x \in Advanced(db, w, clock, None)}

\* w is won in this step and the block with it.
WonBy(w, p, q, b) ==
  /\ Live(db, w) /\ db'.war[w].status = "ENDED"
  /\ db.war[w].block = b /\ db.war[w].attacker = q /\ db.war[w].defender = p
  /\ db'.war[w].winner = "ATTACKER" /\ db'.war[w].goal = "TAKE"

\* A block passes from one crew to another only by a war of these two won to take it, and the
\* locals' block never by a war.
HandsChange ==
  \A b \in Blocks, q \in Players :
    db'.block[b].holder = q /\ db.block[b].holder # q =>
      IF db.block[b].holder = None
      THEN \A w \in Wars, p \in Players : ~WonBy(w, p, q, b)
      ELSE \E w \in Wars : WonBy(w, db.block[b].holder, q, b)
HandsChangeByWar == [][HandsChange]_vars

\* Once all of a player's people are credited, those hurt, busy or posted are people of his:
\* what every action asserts before it runs.
CrewAddsUp == \A p \in Players : Own(db, p) = {} => Sound(db, p)

=============================================================================
