---------------------------- MODULE BlockWarsProofs ----------------------------
(***************************************************************************)
(* What holds of the block wars for every set of players, blocks and wars, *)
(* whatever the ruleset's numbers and whatever a fight does to the people  *)
(* in it.                                                                  *)
(***************************************************************************)
EXTENDS BlockWars, Sums, TLAPS

-----------------------------------------------------------------------------
(* The shape of the rows *)

\* Those of a squad are with it, wounded, on the corner it took, or home; a squad that went
\* home has nobody with it.
SquadSound(squad) ==
  /\ squad.thugs + squad.wounded + squad.posted <= squad.sent
  /\ IF squad.active THEN squad.posted = 0 ELSE squad.thugs = 0
  /\ squad.creditedThugs <= squad.sent - squad.thugs
  /\ squad.creditedWounded <= squad.wounded

\* A squad is one of a war, and the declarer's squads are the attacker's.
SquadsOf(d) ==
  \A i \in Squads(d) :
    LET squad == d.squads[i] IN
    /\ SquadSound(squad)
    /\ d.war[squad.war] # None
    /\ squad.role = "DECLARER" => squad.player = d.war[squad.war].attacker /\ squad.side = "ATTACKER"

\* Only a siege is broken, and Control is never more than full.
WarsSound(d) ==
  \A w \in Wars : d.war[w] # None =>
    /\ d.war[w].control <= Full
    /\ Live(d, w) /\ d.war[w].fight # None /\ d.war[w].fight.kind = "BREAK" => d.war[w].status = "SIEGE"

Typed(d) == d \in Rows /\ SquadsOf(d) /\ WarsSound(d)

\* No two wars for one block at a time.
OneWarEach(d) ==
  \A v, w \in LiveWars(d) : d.war[v].block = d.war[w].block => v = w

-----------------------------------------------------------------------------
(* Rows and their parts *)

\* SumFunction is the sum of Sums over the domain.
LEMMA SumOver == ASSUME NEW f PROVE SumFunction(f) = Sum(f, DOMAIN f)
  BY DEF SumFunction, Sum

LEMMA NoneIsNone ==
  /\ None \notin Players /\ None \notin War /\ None \notin Fight /\ None \notin Squad
  /\ None \notin Request /\ None \notin Sides
  BY WarAssumption

LEMMA Numerals ==
  /\ CornerMin \in Nat /\ BlockCap \in Nat /\ Warning \in Nat /\ Muster \in Nat /\ WarLength \in Nat
  /\ Resiege \in Nat /\ Truce \in Nat /\ Lockout \in Nat /\ SiegeCall \in Nat /\ Full \in Nat
  /\ Pace \in Nat /\ Speedup \in Nat /\ BreakLoss \in Nat /\ RoundEnd \in Nat /\ MaxSend \in Nat
  /\ MaxSquads \in Nat /\ MaxWounds \in Nat /\ Horizon \in Nat /\ Pace > 0 /\ CornerMin > 0
<1>1. /\ CornerMin \in Nat /\ BlockCap \in Nat /\ Warning \in Nat /\ Muster \in Nat
      /\ WarLength \in Nat /\ Resiege \in Nat /\ Truce \in Nat
  BY WarAssumption
<1>2. /\ Lockout \in Nat /\ SiegeCall \in Nat /\ Full \in Nat /\ Pace \in Nat /\ Speedup \in Nat
      /\ BreakLoss \in Nat /\ RoundEnd \in Nat
  BY WarAssumption
<1>3. /\ MaxSend \in Nat /\ MaxSquads \in Nat /\ MaxWounds \in Nat /\ Horizon \in Nat
      /\ Pace > 0 /\ CornerMin > 0
  BY WarAssumption
<1> QED
  BY <1>1, <1>2, <1>3

LEMMA RowsParts ==
  ASSUME NEW d \in Rows
  PROVE  /\ d = [crew |-> d.crew, block |-> d.block, war |-> d.war, squads |-> d.squads]
         /\ d.crew \in [Players -> Crew] /\ d.block \in [Blocks -> Block]
         /\ d.war \in [Wars -> War \cup {None}] /\ d.squads \in [Numbers -> Squad \cup {None}]
  BY DEF Rows

LEMMA CrewIs ==
  ASSUME NEW d \in Rows, NEW p \in Players
  PROVE  /\ d.crew[p] \in Crew
         /\ d.crew[p].thugs \in Nat /\ d.crew[p].hurt \in Nat /\ d.crew[p].busy \in Nat
         /\ d.crew[p].posted \in Nat /\ d.crew[p].guns \in Nat
<1>1. d.crew[p] \in Crew
  BY RowsParts
<1> QED
  BY <1>1 DEF Crew

LEMMA BlockIs ==
  ASSUME NEW d \in Rows, NEW b \in Blocks
  PROVE  /\ d.block[b] \in Block
         /\ d.block[b].holder \in Players \cup {None} /\ d.block[b].corner \in Nat
         /\ d.block[b].shield \in Nat /\ d.block[b].upkeepAt \in Nat
<1>1. d.block[b] \in Block
  BY RowsParts
<1> QED
  BY <1>1 DEF Block

LEMMA WarIs ==
  ASSUME NEW d \in Rows, NEW w \in Wars, d.war[w] # None
  PROVE  /\ d.war[w] \in War
         /\ d.war[w].block \in Blocks /\ d.war[w].attacker \in Players
         /\ d.war[w].defender \in Players /\ d.war[w].goal \in {"TAKE", "SACK"}
         /\ d.war[w].status \in {"OPENING", "BETWEEN", "SIEGE", "ENDED"}
         /\ d.war[w].endsBy \in Nat /\ d.war[w].control \in Nat /\ d.war[w].controlAt \in Nat
         /\ d.war[w].nextAssaultAt \in Nat /\ d.war[w].fight \in Fight \cup {None}
         /\ d.war[w].ally \in [Sides -> Players \cup {None}] /\ d.war[w].callUntil \in [Sides -> Nat]
         /\ d.war[w].winner \in Sides \cup {None} /\ d.war[w].endedAt \in Nat
<1>1. d.war[w] \in War
  BY RowsParts
<1> QED
  BY <1>1 DEF War

LEMMA FightIs ==
  ASSUME NEW d \in Rows, NEW w \in Wars, d.war[w] # None, d.war[w].fight # None
  PROVE  /\ d.war[w].fight \in Fight /\ d.war[w].fight.landsAt \in Nat
         /\ d.war[w].fight.kind \in {"OPENING", "ASSAULT", "BREAK"}
<1>1. d.war[w].fight \in Fight
  BY WarIs
<1> QED
  BY <1>1 DEF Fight

LEMMA SquadIs ==
  ASSUME NEW d \in Rows, NEW i \in Squads(d)
  PROVE  /\ i \in Numbers /\ i \in Nat /\ d.squads[i] # None /\ d.squads[i] \in Squad
         /\ d.squads[i].war \in Wars /\ d.squads[i].player \in Players
         /\ d.squads[i].side \in Sides /\ d.squads[i].active \in BOOLEAN
         /\ d.squads[i].role \in {"DECLARER", "HOLDER", "ALLY"}
         /\ d.squads[i].sent \in Nat /\ d.squads[i].thugs \in Nat /\ d.squads[i].wounded \in Nat
         /\ d.squads[i].posted \in Nat /\ d.squads[i].creditedThugs \in Nat
         /\ d.squads[i].creditedWounded \in Nat
<1>1. i \in Numbers /\ d.squads[i] # None /\ d.squads[i] \in Squad
  BY RowsParts DEF Squads
<1>2. i \in Nat
  BY <1>1, Numerals DEF Numbers
<1> QED
  BY <1>1, <1>2 DEF Squad

LEMMA SquadsFinite == ASSUME NEW d PROVE IsFiniteSet(Squads(d))
<1>1. IsFiniteSet(Numbers)
  BY Numerals, FS_Interval DEF Numbers
<1>2. Squads(d) \subseteq Numbers
  BY DEF Squads
<1> QED
  BY <1>1, <1>2, FS_Subset

LEMMA ThugsNat ==
  ASSUME NEW d \in Rows, NEW S, S \subseteq Squads(d)
  PROVE  ThugsIn(d, S) \in Nat
<1> DEFINE f == [i \in S |-> d.squads[i].thugs]
<1>1. IsFiniteSet(S)
  BY SquadsFinite, FS_Subset
<1>2. Nats(f, S)
  <2>1. ASSUME NEW i \in S PROVE f[i] \in Nat
    BY SquadIs
  <2> QED
    BY <2>1 DEF Nats
<1>3. Sum(f, S) \in Nat
  <2> HIDE DEF f
  <2> QED
    BY <1>1, <1>2, SumNat
<1> QED
  BY <1>3, SumOver DEF ThugsIn

LEMMA ActiveIs ==
  ASSUME NEW d, NEW w
  PROVE  /\ Active(d, w) \subseteq Squads(d) /\ Declaring(d, w) \subseteq Active(d, w)
         /\ \A side : On(d, w, side) \subseteq Active(d, w)
  BY DEF Active, Declaring, On

\* A change to one war and to nothing else.
JustWar(d, x, w) ==
  /\ x \in Rows /\ x.crew = d.crew /\ x.block = d.block /\ x.squads = d.squads
  /\ \A v \in Wars \ {w} : x.war[v] = d.war[v]

LEMMA SetWar ==
  ASSUME NEW d \in Rows, NEW w \in Wars, NEW new \in War \cup {None}
  PROVE  JustWar(d, [d EXCEPT !.war[w] = new], w) /\ [d EXCEPT !.war[w] = new].war[w] = new
<1>1. PICK wars : wars = [d.war EXCEPT ![w] = new]
  OBVIOUS
<1>2. wars \in [Wars -> War \cup {None}] /\ wars[w] = new /\ \A v \in Wars \ {w} : wars[v] = d.war[v]
  BY <1>1, RowsParts
<1>3. [d EXCEPT !.war[w] = new] = [d EXCEPT !.war = wars]
  BY <1>1
<1>4. PICK x : x = [d EXCEPT !.war = wars]
  OBVIOUS
<1>5. /\ x.crew = d.crew /\ x.block = d.block /\ x.squads = d.squads /\ x.war = wars /\ x \in Rows
  BY <1>2, <1>4, RowsParts DEF Rows
<1> QED
  BY <1>2, <1>3, <1>4, <1>5 DEF JustWar

\* The squads of rows whose squads are the same.
LEMMA SameSquads ==
  ASSUME NEW d, NEW x, x.squads = d.squads
  PROVE  /\ Squads(x) = Squads(d) /\ \A w : Active(x, w) = Active(d, w) /\ Declaring(x, w) = Declaring(d, w)
         /\ \A w, side : On(x, w, side) = On(d, w, side)
         /\ \A S : ThugsIn(x, S) = ThugsIn(d, S) /\ Fielded(x, S) = Fielded(d, S)
         /\ \A p : Own(x, p) = Own(d, p)
<1>1. Squads(x) = Squads(d)
  BY DEF Squads
<1>2. \A w : Active(x, w) = Active(d, w)
  BY <1>1 DEF Active
<1>3. \A w, side : On(x, w, side) = On(d, w, side)
  BY <1>2 DEF On
<1>4. \A w : Declaring(x, w) = Declaring(d, w)
  BY <1>2 DEF Declaring
<1> QED
  BY <1>1, <1>2, <1>3, <1>4 DEF Own, ThugsIn, Fielded

-----------------------------------------------------------------------------
(* Control *)

LEMMA BlockDivBounds ==
  ASSUME NEW a \in Int, NEW c \in Nat, c > 0
  PROVE  a \div c \in Int /\ c * (a \div c) <= a /\ a < c * (a \div c) + c
  OBVIOUS

LEMMA DivNat == ASSUME NEW a \in Nat, NEW c \in Nat, c > 0 PROVE a \div c \in Nat
  OBVIOUS

LEMMA ProductNat == ASSUME NEW a \in Nat, NEW b \in Nat PROVE a * b \in Nat
  OBVIOUS

LEMMA RateNat ==
  ASSUME NEW d \in Rows, NEW w
  PROVE  Rate(d, w) \in Nat /\ Rate(d, w) > 0
<1>1. PICK declarer : declarer = ThugsIn(d, Declaring(d, w))
  OBVIOUS
<1>2. PICK ally : ally = ThugsIn(d, On(d, w, "ATTACKER") \ Declaring(d, w))
  OBVIOUS
<1>3. declarer \in Nat /\ ally \in Nat
  <2>1. Declaring(d, w) \subseteq Squads(d) /\ On(d, w, "ATTACKER") \ Declaring(d, w) \subseteq Squads(d)
    BY ActiveIs
  <2> QED
    BY <1>1, <1>2, <2>1, ThugsNat
<1>4. Rate(d, w) = Pace + (IF declarer = 0 THEN 0 ELSE (Speedup * Least(ally, declarer)) \div declarer)
  BY <1>1, <1>2 DEF Rate
<1>5. CASE declarer = 0
  BY <1>4, <1>5, Numerals
<1>6. CASE declarer # 0
  <2>1. Least(ally, declarer) \in Nat
    BY <1>3 DEF Least
  <2>2. Speedup * Least(ally, declarer) \in Nat
    BY <2>1, Numerals, ProductNat
  <2>3. (Speedup * Least(ally, declarer)) \div declarer \in Nat
    BY <1>3, <1>6, <2>2, DivNat
  <2> QED
    BY <1>4, <1>6, <2>3, Numerals
<1> QED
  BY <1>5, <1>6

LEMMA FullNat ==
  ASSUME NEW d, Typed(d), NEW w \in Wars, d.war[w] # None
  PROVE  FullAt(d, w) \in Nat /\ FullAt(d, w) >= d.war[w].controlAt
<1>1. d \in Rows /\ d.war[w].control <= Full /\ d.war[w].control \in Nat /\ d.war[w].controlAt \in Nat
  BY WarIs DEF Typed, WarsSound
<1>2. PICK r : r = Rate(d, w)
  OBVIOUS
<1>3. r \in Nat /\ r > 0
  BY <1>1, <1>2, RateNat
<1>4. Full - d.war[w].control + r - 1 \in Nat
  BY <1>1, <1>3, Numerals
<1>5. (Full - d.war[w].control + r - 1) \div r \in Nat
  BY <1>3, <1>4, DivNat
<1>6. FullAt(d, w) = d.war[w].controlAt + (Full - d.war[w].control + r - 1) \div r
  BY <1>2 DEF FullAt
<1> QED
  BY <1>1, <1>5, <1>6

\* A war of which nothing but Control moved.
Clocked(old, new) ==
  /\ new # None /\ new \in War
  /\ new.block = old.block /\ new.attacker = old.attacker /\ new.defender = old.defender
  /\ new.goal = old.goal /\ new.status = old.status /\ new.endsBy = old.endsBy
  /\ new.nextAssaultAt = old.nextAssaultAt /\ new.fight = old.fight /\ new.ally = old.ally
  /\ new.callUntil = old.callUntil /\ new.winner = old.winner /\ new.reason = old.reason
  /\ new.endedAt = old.endedAt

LEMMA SetControl ==
  ASSUME NEW old \in War, NEW c \in Nat, NEW at \in Nat
  PROVE  Clocked(old, [old EXCEPT !.control = c, !.controlAt = at])
<1>1. PICK new : new = [old EXCEPT !.control = c, !.controlAt = at]
  OBVIOUS
<1>2. new \in War
  BY <1>1 DEF War
<1>3. new # None
  BY <1>2, NoneIsNone
<1>4. /\ new.block = old.block /\ new.attacker = old.attacker /\ new.defender = old.defender
      /\ new.goal = old.goal /\ new.status = old.status /\ new.endsBy = old.endsBy
      /\ new.nextAssaultAt = old.nextAssaultAt /\ new.fight = old.fight /\ new.ally = old.ally
      /\ new.callUntil = old.callUntil /\ new.winner = old.winner /\ new.reason = old.reason
      /\ new.endedAt = old.endedAt /\ new.control = c /\ new.controlAt = at
  BY <1>1 DEF War
<1> QED
  BY <1>1, <1>2, <1>3, <1>4 DEF Clocked

\* Rows stay sound when Control of one war moves within bounds.
LEMMA ClockedTyped ==
  ASSUME NEW d, Typed(d), NEW w \in Wars, d.war[w] # None, NEW x, JustWar(d, x, w),
         Clocked(d.war[w], x.war[w]), x.war[w].control <= Full
  PROVE  Typed(x) /\ LiveWars(x) = LiveWars(d) /\ \A v \in Wars : Live(x, v) <=> Live(d, v)
<1>1. \A v \in Wars : Live(x, v) <=> Live(d, v)
  BY DEF Live, JustWar, Clocked
<1>2. LiveWars(x) = LiveWars(d)
  BY <1>1 DEF LiveWars
<1>3. x \in Rows /\ d \in Rows /\ x.squads = d.squads
  BY DEF JustWar, Typed
<1>4. \A v \in Wars : /\ (x.war[v] = None <=> d.war[v] = None)
                      /\ x.war[v] # None => /\ x.war[v].attacker = d.war[v].attacker
                                            /\ x.war[v].fight = d.war[v].fight
                                            /\ x.war[v].status = d.war[v].status
  BY DEF JustWar, Clocked
<1>5. SquadsOf(x)
  <2>1. SUFFICES ASSUME NEW i \in Squads(x) PROVE
           /\ SquadSound(x.squads[i]) /\ x.war[x.squads[i].war] # None
           /\ x.squads[i].role = "DECLARER" =>
                x.squads[i].player = x.war[x.squads[i].war].attacker /\ x.squads[i].side = "ATTACKER"
    BY DEF SquadsOf
  <2>2. i \in Squads(d) /\ x.squads[i] = d.squads[i]
    BY <1>3, SameSquads
  <2>3. d.squads[i].war \in Wars
    BY <1>3, <2>2, SquadIs
  <2> QED
    BY <1>4, <2>2, <2>3 DEF Typed, SquadsOf
<1>6. WarsSound(x)
  <2>1. SUFFICES ASSUME NEW v \in Wars, x.war[v] # None PROVE
           /\ x.war[v].control <= Full
           /\ Live(x, v) /\ x.war[v].fight # None /\ x.war[v].fight.kind = "BREAK" =>
                x.war[v].status = "SIEGE"
    BY DEF WarsSound
  <2>2. x.war[v].control <= Full
    BY <2>1, <1>4 DEF Typed, WarsSound, JustWar
  <2> QED
    BY <1>1, <1>4, <2>1, <2>2 DEF Typed, WarsSound
<1> QED
  BY <1>1, <1>2, <1>3, <1>5, <1>6 DEF Typed

LEMMA TickedWar ==
  ASSUME NEW d, Typed(d), NEW w \in Wars, d.war[w] # None, NEW to \in Nat
  PROVE  /\ JustWar(d, Ticked(d, w, to), w) /\ Clocked(d.war[w], Ticked(d, w, to).war[w])
         /\ Ticked(d, w, to).war[w].control <= Full
         /\ Typed(Ticked(d, w, to)) /\ LiveWars(Ticked(d, w, to)) = LiveWars(d)
         /\ \A v \in Wars : Live(Ticked(d, w, to), v) <=> Live(d, v)
<1>1. /\ d \in Rows /\ d.war[w] \in War /\ d.war[w].control \in Nat /\ d.war[w].controlAt \in Nat
      /\ d.war[w].control <= Full
  BY WarIs DEF Typed, WarsSound
<1>2. PICK x : x = Ticked(d, w, to)
  OBVIOUS
<1>3. JustWar(d, x, w) /\ Clocked(d.war[w], x.war[w]) /\ x.war[w].control <= Full
  <2>1. CASE d.war[w].status # "SIEGE" \/ to <= d.war[w].controlAt
    <3>1. x = d
      BY <1>2, <2>1 DEF Ticked
    <3> QED
      BY <1>1, <3>1 DEF JustWar, Clocked
  <2>2. CASE ~(d.war[w].status # "SIEGE" \/ to <= d.war[w].controlAt)
    <3>1. PICK c : c = Least(Full, d.war[w].control + Rate(d, w) * (to - d.war[w].controlAt))
      OBVIOUS
    <3>2. to - d.war[w].controlAt \in Nat
      BY <1>1, <2>2
    <3>3. Rate(d, w) * (to - d.war[w].controlAt) \in Nat
      BY <1>1, <3>2, RateNat, ProductNat
    <3>4. c \in Nat /\ c <= Full
      BY <1>1, <3>1, <3>3, Numerals DEF Least
    <3>5. PICK new : new = [d.war[w] EXCEPT !.control = c, !.controlAt = to]
      OBVIOUS
    <3>6. x = [d EXCEPT !.war[w] = new]
      BY <1>1, <1>2, <2>2, <3>1, <3>5 DEF Ticked
    <3>7. Clocked(d.war[w], new) /\ new.control = c
      <4>1. PICK old : old = d.war[w]
        OBVIOUS
      <4>2. new = [old EXCEPT !.control = c, !.controlAt = to] /\ old \in War
        BY <1>1, <3>5, <4>1
      <4>3. Clocked(old, [old EXCEPT !.control = c, !.controlAt = to])
        BY <3>4, <4>2, SetControl
      <4>4. new.control = c
        BY <4>2 DEF War
      <4> QED
        BY <4>1, <4>2, <4>3, <4>4
    <3>8. JustWar(d, x, w) /\ x.war[w] = new
      <4>1. new \in War
        BY <3>7 DEF Clocked
      <4> QED
        BY <1>1, <3>6, <4>1, SetWar
    <3> QED
      BY <3>4, <3>7, <3>8
  <2> QED
    BY <2>1, <2>2
<1>4. Typed(x) /\ LiveWars(x) = LiveWars(d) /\ \A v \in Wars : Live(x, v) <=> Live(d, v)
  BY <1>3, ClockedTyped
<1> QED
  BY <1>2, <1>3, <1>4

-----------------------------------------------------------------------------
(* What settling keeps of squads and wars *)

SameSquad(old, new) ==
  /\ new.war = old.war /\ new.player = old.player /\ new.side = old.side /\ new.role = old.role
  /\ new.sent = old.sent

SameWar(old, new) ==
  /\ new.block = old.block /\ new.attacker = old.attacker /\ new.defender = old.defender
  /\ new.goal = old.goal /\ new.endsBy = old.endsBy

\* No squad and no war is begun, and none changes what it was begun as.
Later(d, x) ==
  /\ \A i \in Squads(x) : i \in Squads(d) /\ SameSquad(d.squads[i], x.squads[i])
  /\ \A v \in Wars : /\ x.war[v] = None <=> d.war[v] = None
                     /\ d.war[v] # None => SameWar(d.war[v], x.war[v])

LEMMA LaterSelf == ASSUME NEW d PROVE Later(d, d)
  BY DEF Later, SameSquad, SameWar

LEMMA LaterStill ==
  ASSUME NEW d, NEW x, NEW y, Later(d, x), Later(x, y)
  PROVE  Later(d, y)
  BY DEF Later, SameSquad, SameWar

LEMMA StillTyped ==
  ASSUME NEW d, Typed(d), NEW x \in Rows, Later(d, x), WarsSound(x),
         \A i \in Squads(x) : SquadSound(x.squads[i])
  PROVE  Typed(x)
<1>1. SUFFICES ASSUME NEW i \in Squads(x)
      PROVE  /\ x.war[x.squads[i].war] # None
             /\ x.squads[i].role = "DECLARER" =>
                  x.squads[i].player = x.war[x.squads[i].war].attacker /\ x.squads[i].side = "ATTACKER"
  BY DEF Typed, SquadsOf
<1>2. i \in Squads(d) /\ SameSquad(d.squads[i], x.squads[i])
  BY DEF Later
<1>3. d.squads[i].war \in Wars /\ d.war[d.squads[i].war] # None
  BY <1>2, SquadIs DEF Typed, SquadsOf
<1>4. x.war[d.squads[i].war] # None /\ x.war[d.squads[i].war].attacker = d.war[d.squads[i].war].attacker
  BY <1>3 DEF Later, SameWar
<1> QED
  BY <1>2, <1>4 DEF Typed, SquadsOf, SameSquad

\* Rows whose wars are the same.
LEMMA SameWars ==
  ASSUME NEW d, NEW x, x.war = d.war
  PROVE  /\ \A v : Live(x, v) <=> Live(d, v)
         /\ LiveWars(x) = LiveWars(d) /\ (WarsSound(d) => WarsSound(x))
<1>1. \A v : Live(x, v) <=> Live(d, v)
  BY DEF Live
<1> QED
  BY <1>1 DEF LiveWars, WarsSound

LEMMA LaterClocked ==
  ASSUME NEW d \in Rows, NEW w \in Wars, d.war[w] # None, NEW x, JustWar(d, x, w), Clocked(d.war[w], x.war[w])
  PROVE  Later(d, x)
<1>1. \A i \in Squads(x) : i \in Squads(d) /\ SameSquad(d.squads[i], x.squads[i])
  BY SameSquads DEF JustWar, SameSquad
<1>2. \A v \in Wars : /\ x.war[v] = None <=> d.war[v] = None
                      /\ d.war[v] # None => SameWar(d.war[v], x.war[v])
  BY DEF JustWar, Clocked, SameWar
<1> QED
  BY <1>1, <1>2 DEF Later

-----------------------------------------------------------------------------
(* The crews' accounts *)

Accounts(d) ==
  \A p \in Players :
    /\ d.crew[p].guns + Manned(d, p) + Carried(d, p) = StartCrew[p]
    /\ d.crew[p].busy = Out(d, p)
    /\ d.crew[p].posted + LeftPosted(d, p) >= Manned(d, p)

\* The squads count the same.
SameLedger(d, x) ==
  /\ Squads(x) = Squads(d)
  /\ \A i \in Squads(d) : /\ x.squads[i].player = d.squads[i].player
                          /\ x.squads[i].sent = d.squads[i].sent
                          /\ x.squads[i].posted = d.squads[i].posted
                          /\ x.squads[i].creditedThugs = d.squads[i].creditedThugs

LEMMA SameLedgerSums ==
  ASSUME NEW d, NEW x, SameLedger(d, x), NEW p
  PROVE  /\ Own(x, p) = Own(d, p) /\ Carried(x, p) = Carried(d, p) /\ Out(x, p) = Out(d, p)
         /\ LeftPosted(x, p) = LeftPosted(d, p)
<1>1. Own(x, p) = Own(d, p)
  BY DEF SameLedger, Own
<1>2. \A i \in Own(d, p) : i \in Squads(d)
  BY DEF Own
<1>3. [i \in Own(x, p) |-> x.squads[i].sent - x.squads[i].posted]
      = [i \in Own(d, p) |-> d.squads[i].sent - d.squads[i].posted]
  BY <1>1, <1>2 DEF SameLedger
<1>4. [i \in Own(x, p) |-> x.squads[i].sent - x.squads[i].creditedThugs]
      = [i \in Own(d, p) |-> d.squads[i].sent - d.squads[i].creditedThugs]
  BY <1>1, <1>2 DEF SameLedger
<1>5. [i \in Own(x, p) |-> x.squads[i].posted] = [i \in Own(d, p) |-> d.squads[i].posted]
  BY <1>1, <1>2 DEF SameLedger
<1>6. Carried(x, p) = Carried(d, p)
  BY <1>3 DEF Carried
<1>7. Out(x, p) = Out(d, p)
  BY <1>4 DEF Out
<1>8. LeftPosted(x, p) = LeftPosted(d, p)
  BY <1>5 DEF LeftPosted
<1> QED
  BY <1>1, <1>6, <1>7, <1>8

LEMMA SameManned ==
  ASSUME NEW d, NEW x, NEW p, Held(x, p) = Held(d, p),
         \A b \in Held(d, p) : x.block[b].corner = d.block[b].corner
  PROVE  Manned(x, p) = Manned(d, p)
<1>1. [b \in Held(x, p) |-> x.block[b].corner] = [b \in Held(d, p) |-> d.block[b].corner]
  OBVIOUS
<1> QED
  BY <1>1 DEF Manned

LEMMA AccountsSame ==
  ASSUME NEW d, Accounts(d), NEW x, SameLedger(d, x), x.crew = d.crew, x.block = d.block
  PROVE  Accounts(x)
<1>1. SUFFICES ASSUME NEW p \in Players
      PROVE  /\ x.crew[p].guns + Manned(x, p) + Carried(x, p) = StartCrew[p]
             /\ x.crew[p].busy = Out(x, p)
             /\ x.crew[p].posted + LeftPosted(x, p) >= Manned(x, p)
  BY DEF Accounts
<1>2. Held(x, p) = Held(d, p)
  BY DEF Held
<1>3. Manned(x, p) = Manned(d, p)
  BY <1>2, SameManned
<1>4. Carried(x, p) = Carried(d, p) /\ Out(x, p) = Out(d, p) /\ LeftPosted(x, p) = LeftPosted(d, p)
  BY SameLedgerSums
<1> QED
  BY <1>3, <1>4 DEF Accounts

LEMMA OwnSums ==
  ASSUME NEW d \in Rows, NEW p
  PROVE  /\ IsFiniteSet(Own(d, p)) /\ Carried(d, p) \in Int /\ Out(d, p) \in Int
         /\ LeftPosted(d, p) \in Nat
<1>1. Own(d, p) \subseteq Squads(d)
  BY DEF Own
<1>2. IsFiniteSet(Own(d, p))
  BY <1>1, SquadsFinite, FS_Subset
<1>3. PICK f : f = [i \in Own(d, p) |-> d.squads[i].sent - d.squads[i].posted]
  OBVIOUS
<1>4. PICK g : g = [i \in Own(d, p) |-> d.squads[i].sent - d.squads[i].creditedThugs]
  OBVIOUS
<1>5. PICK h : h = [i \in Own(d, p) |-> d.squads[i].posted]
  OBVIOUS
<1>6. ASSUME NEW i \in Own(d, p) PROVE f[i] \in Int /\ g[i] \in Int /\ h[i] \in Nat
  BY <1>1, <1>3, <1>4, <1>5, SquadIs
<1>7. Ints(f, Own(d, p)) /\ Ints(g, Own(d, p)) /\ Nats(h, Own(d, p))
  BY <1>6 DEF Ints, Nats
<1>8. Carried(d, p) = Sum(f, Own(d, p)) /\ Out(d, p) = Sum(g, Own(d, p)) /\ LeftPosted(d, p) = Sum(h, Own(d, p))
  BY <1>3, <1>4, <1>5, SumOver DEF Carried, Out, LeftPosted
<1> QED
  BY <1>2, <1>7, <1>8, SumInt, SumNat

LEMMA HeldSums ==
  ASSUME NEW d \in Rows, NEW p
  PROVE  /\ IsFiniteSet(Held(d, p)) /\ Held(d, p) \subseteq Blocks
         /\ \E f : /\ f = [b \in Held(d, p) |-> d.block[b].corner] /\ Nats(f, Held(d, p)) /\ Ints(f, Held(d, p))
                   /\ Manned(d, p) = Sum(f, Held(d, p)) /\ Manned(d, p) \in Nat
<1>1. Held(d, p) \subseteq Blocks
  BY DEF Held
<1>2. IsFiniteSet(Held(d, p))
  BY <1>1, FS_Subset, WarAssumption
<1>3. PICK f : f = [b \in Held(d, p) |-> d.block[b].corner]
  OBVIOUS
<1>4. ASSUME NEW b \in Held(d, p) PROVE f[b] \in Nat
  BY <1>1, <1>3, BlockIs
<1>5. Nats(f, Held(d, p)) /\ Ints(f, Held(d, p))
  BY <1>4 DEF Nats, Ints
<1>6. Manned(d, p) = Sum(f, Held(d, p))
  BY <1>3, SumOver DEF Manned
<1> QED
  BY <1>1, <1>2, <1>3, <1>5, <1>6, SumNat

\* One block changes.
LEMMA MannedMove ==
  ASSUME NEW d \in Rows, NEW x \in Rows, NEW b \in Blocks,
         \A c \in Blocks \ {b} : x.block[c] = d.block[c], NEW p
  PROVE  /\ Manned(x, p) = Manned(d, p) - (IF p = d.block[b].holder THEN d.block[b].corner ELSE 0)
                                        + (IF p = x.block[b].holder THEN x.block[b].corner ELSE 0)
         /\ Manned(d, p) \in Nat /\ Manned(x, p) \in Nat
<1>1. PICK R : R = Held(d, p) \ {b}
  OBVIOUS
<1>2. R = Held(x, p) \ {b}
  BY <1>1 DEF Held
<1>3. PICK f : /\ f = [c \in Held(d, p) |-> d.block[c].corner] /\ Ints(f, Held(d, p))
               /\ Manned(d, p) = Sum(f, Held(d, p)) /\ Manned(d, p) \in Nat
  BY HeldSums
<1>4. PICK g : /\ g = [c \in Held(x, p) |-> x.block[c].corner] /\ Ints(g, Held(x, p))
               /\ Manned(x, p) = Sum(g, Held(x, p)) /\ Manned(x, p) \in Nat
  BY HeldSums
<1>5. IsFiniteSet(Held(d, p)) /\ IsFiniteSet(Held(x, p)) /\ IsFiniteSet(R)
  BY <1>1, HeldSums, FS_Subset
<1>6. \A c \in R : f[c] = g[c]
  BY <1>1, <1>2, <1>3, <1>4 DEF Held
<1>7. Sum(f, R) = Sum(g, R)
  BY <1>5, <1>6, SumSame
<1>8. Ints(f, R) /\ Sum(f, R) \in Int
  <2>1. Ints(f, R)
    BY <1>1, <1>3 DEF Ints
  <2> QED
    BY <1>5, <2>1, SumInt
<1>9. Sum(f, R) = Manned(d, p) - (IF p = d.block[b].holder THEN d.block[b].corner ELSE 0)
  <2>1. CASE p = d.block[b].holder
    <3>1. b \in Held(d, p)
      BY <2>1 DEF Held
    <3>2. Sum(f, Held(d, p)) = f[b] + Sum(f, R)
      BY <1>1, <1>3, <1>5, <3>1, SumTake
    <3>3. f[b] = d.block[b].corner /\ f[b] \in Nat
      BY <1>3, <3>1, BlockIs
    <3> QED
      BY <1>3, <1>8, <2>1, <3>2, <3>3
  <2>2. CASE p # d.block[b].holder
    <3>1. R = Held(d, p)
      BY <1>1, <2>2 DEF Held
    <3> QED
      BY <1>3, <2>2, <3>1
  <2> QED
    BY <2>1, <2>2
<1>10. Manned(x, p) = Sum(g, R) + (IF p = x.block[b].holder THEN x.block[b].corner ELSE 0)
  <2>1. CASE p = x.block[b].holder
    <3>1. b \in Held(x, p)
      BY <2>1 DEF Held
    <3>2. Sum(g, Held(x, p)) = g[b] + Sum(g, R)
      BY <1>2, <1>4, <1>5, <3>1, SumTake
    <3>3. g[b] = x.block[b].corner /\ g[b] \in Nat
      BY <1>4, <3>1, BlockIs
    <3> QED
      BY <1>4, <1>7, <1>8, <2>1, <3>2, <3>3
  <2>2. CASE p # x.block[b].holder
    <3>1. R = Held(x, p)
      BY <1>2, <2>2 DEF Held
    <3> QED
      BY <1>4, <2>2, <3>1
  <2> QED
    BY <2>1, <2>2
<1> QED
  BY <1>3, <1>4, <1>7, <1>9, <1>10

\* A corner changes and no holder does.
LEMMA MannedChange ==
  ASSUME NEW d \in Rows, NEW x \in Rows, NEW b \in Blocks,
         \A c \in Blocks \ {b} : x.block[c] = d.block[c],
         x.block[b].holder = d.block[b].holder, NEW p
  PROVE  Manned(x, p) = Manned(d, p)
                        + (IF p = d.block[b].holder THEN x.block[b].corner - d.block[b].corner ELSE 0)
<1>1. d.block[b].corner \in Nat /\ x.block[b].corner \in Nat
  BY BlockIs
<1>2. /\ Manned(x, p) = Manned(d, p) - (IF p = d.block[b].holder THEN d.block[b].corner ELSE 0)
                                     + (IF p = x.block[b].holder THEN x.block[b].corner ELSE 0)
      /\ Manned(d, p) \in Nat
  BY MannedMove
<1> QED
  BY <1>1, <1>2

\* One squad changes, and stays its player's.
LEMMA OwnChange ==
  ASSUME NEW d \in Rows, NEW x \in Rows, Squads(x) = Squads(d), NEW i \in Squads(d),
         \A j \in Squads(d) \ {i} : x.squads[j] = d.squads[j],
         x.squads[i].player = d.squads[i].player, x.squads[i].sent = d.squads[i].sent,
         x.squads[i].creditedThugs = d.squads[i].creditedThugs, NEW p
  PROVE  LET more == IF p = d.squads[i].player THEN x.squads[i].posted - d.squads[i].posted ELSE 0
         IN  /\ Carried(x, p) = Carried(d, p) - more
             /\ LeftPosted(x, p) = LeftPosted(d, p) + more
             /\ Out(x, p) = Out(d, p)
<1>1. Own(x, p) = Own(d, p) /\ Own(d, p) \subseteq Squads(d)
  BY DEF Own
<1>2. IsFiniteSet(Own(d, p)) /\ Carried(d, p) \in Int /\ LeftPosted(d, p) \in Nat
  BY OwnSums
<1>3. PICK f : f = [j \in Own(d, p) |-> d.squads[j].sent - d.squads[j].posted]
  OBVIOUS
<1>4. PICK g : g = [j \in Own(d, p) |-> x.squads[j].sent - x.squads[j].posted]
  OBVIOUS
<1>5. PICK h : h = [j \in Own(d, p) |-> d.squads[j].posted]
  OBVIOUS
<1>6. PICK k : k = [j \in Own(d, p) |-> x.squads[j].posted]
  OBVIOUS
<1>7. /\ Carried(d, p) = Sum(f, Own(d, p)) /\ Carried(x, p) = Sum(g, Own(d, p))
      /\ LeftPosted(d, p) = Sum(h, Own(d, p)) /\ LeftPosted(x, p) = Sum(k, Own(d, p))
  BY <1>1, <1>3, <1>4, <1>5, <1>6, SumOver DEF Carried, LeftPosted
<1>8. ASSUME NEW j \in Own(d, p) PROVE f[j] \in Int /\ g[j] \in Int /\ h[j] \in Int /\ k[j] \in Int
  <2>1. j \in Squads(d) /\ j \in Squads(x)
    BY <1>1
  <2>2. /\ d.squads[j].sent \in Nat /\ d.squads[j].posted \in Nat
        /\ x.squads[j].sent \in Nat /\ x.squads[j].posted \in Nat
    BY <2>1, SquadIs
  <2> QED
    BY <1>3, <1>4, <1>5, <1>6, <2>2
<1>9. Ints(f, Own(d, p)) /\ Ints(g, Own(d, p)) /\ Ints(h, Own(d, p)) /\ Ints(k, Own(d, p))
  BY <1>8 DEF Ints
<1>10. \A j \in Own(d, p) \ {i} : f[j] = g[j] /\ h[j] = k[j]
  BY <1>1, <1>3, <1>4, <1>5, <1>6
<1>11. Out(x, p) = Out(d, p)
  <2>1. [j \in Own(x, p) |-> x.squads[j].sent - x.squads[j].creditedThugs]
        = [j \in Own(d, p) |-> d.squads[j].sent - d.squads[j].creditedThugs]
    BY <1>1
  <2> QED
    BY <2>1 DEF Out
<1>12. CASE p = d.squads[i].player
  <2>1. i \in Own(d, p)
    BY <1>12 DEF Own
  <2>2. Sum(g, Own(d, p)) = Sum(f, Own(d, p)) - f[i] + g[i]
    BY <1>2, <1>9, <1>10, <2>1, SumChange
  <2>3. Sum(k, Own(d, p)) = Sum(h, Own(d, p)) - h[i] + k[i]
    BY <1>2, <1>9, <1>10, <2>1, SumChange
  <2>4. /\ f[i] = d.squads[i].sent - d.squads[i].posted /\ g[i] = x.squads[i].sent - x.squads[i].posted
        /\ h[i] = d.squads[i].posted /\ k[i] = x.squads[i].posted
    BY <1>3, <1>4, <1>5, <1>6, <2>1
  <2>5. d.squads[i].sent \in Nat /\ d.squads[i].posted \in Nat /\ x.squads[i].posted \in Nat
    <3>1. i \in Squads(x)
      OBVIOUS
    <3> QED
      BY <3>1, SquadIs
  <2> QED
    BY <1>2, <1>7, <1>11, <1>12, <2>2, <2>3, <2>4, <2>5
<1>13. CASE p # d.squads[i].player
  <2>1. i \notin Own(d, p)
    BY <1>13 DEF Own
  <2>2. f = g /\ h = k
    BY <1>3, <1>4, <1>5, <1>6, <1>10, <2>1
  <2> QED
    BY <1>2, <1>7, <1>11, <1>13, <2>2
<1> QED
  BY <1>12, <1>13

-----------------------------------------------------------------------------
(* Squads going home and wounded *)

LEMMA ReleasedIs ==
  ASSUME NEW d, Typed(d), NEW S, S \subseteq Squads(d), NEW x, x = Released(d, S)
  PROVE  /\ x \in Rows /\ x.crew = d.crew /\ x.block = d.block /\ x.war = d.war
         /\ Squads(x) = Squads(d) /\ Later(d, x) /\ Typed(x)
         /\ \A i \in Squads(d) \ S : x.squads[i] = d.squads[i]
         /\ \A i \in S : /\ ~x.squads[i].active /\ x.squads[i].thugs = 0
                         /\ x.squads[i].wounded = d.squads[i].wounded
                         /\ x.squads[i].posted = d.squads[i].posted
                         /\ x.squads[i].creditedThugs = d.squads[i].creditedThugs
                         /\ x.squads[i].creditedWounded = d.squads[i].creditedWounded
         /\ Accounts(d) => Accounts(x)
<1>1. d \in Rows
  BY DEF Typed
<1>2. PICK squads : squads = [i \in Numbers |-> IF i \in S THEN [d.squads[i] EXCEPT !.active = FALSE, !.thugs = 0]
                                                ELSE d.squads[i]]
  OBVIOUS
<1>3. x = [d EXCEPT !.squads = squads]
  BY <1>2 DEF Released
<1>4. ASSUME NEW i \in S
      PROVE  /\ squads[i] \in Squad /\ squads[i] # None /\ ~squads[i].active /\ squads[i].thugs = 0
             /\ squads[i].wounded = d.squads[i].wounded
             /\ squads[i].posted = d.squads[i].posted
             /\ squads[i].creditedThugs = d.squads[i].creditedThugs
             /\ squads[i].creditedWounded = d.squads[i].creditedWounded
             /\ SameSquad(d.squads[i], squads[i]) /\ SquadSound(squads[i])
  <2>1. i \in Squads(d) /\ i \in Numbers /\ d.squads[i] \in Squad /\ SquadSound(d.squads[i])
    BY <1>1, SquadIs DEF Typed, SquadsOf
  <2>2. PICK old : old = d.squads[i]
    OBVIOUS
  <2>3. squads[i] = [old EXCEPT !.active = FALSE, !.thugs = 0]
    BY <1>2, <2>1, <2>2
  <2>4. PICK new : new = [old EXCEPT !.active = FALSE, !.thugs = 0]
    OBVIOUS
  <2>5. new \in Squad
    BY <2>1, <2>2, <2>4 DEF Squad
  <2>6. /\ new.active = FALSE /\ new.thugs = 0 /\ new.wounded = old.wounded /\ new.posted = old.posted
        /\ new.creditedThugs = old.creditedThugs /\ new.creditedWounded = old.creditedWounded
        /\ new.war = old.war /\ new.player = old.player /\ new.side = old.side /\ new.role = old.role
        /\ new.sent = old.sent
    BY <2>1, <2>2, <2>4 DEF Squad
  <2>7. new # None
    BY <2>5, NoneIsNone
  <2>8. /\ old.sent \in Nat /\ old.thugs \in Nat /\ old.wounded \in Nat /\ old.posted \in Nat
        /\ old.creditedThugs \in Nat
    BY <1>1, <2>1, <2>2, SquadIs
  <2>9. SquadSound(new)
    BY <2>1, <2>2, <2>6, <2>8 DEF SquadSound
  <2> QED
    BY <2>2, <2>3, <2>4, <2>5, <2>6, <2>7, <2>9 DEF SameSquad
<1>5. \A i \in Numbers \ S : squads[i] = d.squads[i]
  BY <1>2
<1>6. S \subseteq Numbers
  BY DEF Squads
<1>7. squads \in [Numbers -> Squad \cup {None}]
  <2>1. \A i \in Numbers : squads[i] \in Squad \cup {None}
    BY <1>1, <1>4, <1>5, RowsParts
  <2> QED
    BY <1>2, <2>1
<1>8. /\ x.crew = d.crew /\ x.block = d.block /\ x.war = d.war /\ x.squads = squads /\ x \in Rows
  BY <1>1, <1>3, <1>7, RowsParts DEF Rows
<1>9. Squads(x) = Squads(d)
  BY <1>4, <1>5, <1>6, <1>8 DEF Squads
<1>10. Later(d, x)
  BY <1>4, <1>5, <1>8, <1>9 DEF Later, SameSquad, SameWar, Squads
<1>11. \A i \in Squads(x) : SquadSound(x.squads[i])
  BY <1>4, <1>5, <1>8, <1>9 DEF Typed, SquadsOf, Squads
<1>12. WarsSound(x)
  BY <1>8, SameWars DEF Typed
<1>13. Typed(x)
  BY <1>8, <1>10, <1>11, <1>12, StillTyped
<1>14. SameLedger(d, x)
  BY <1>4, <1>5, <1>8, <1>9 DEF SameLedger, SameSquad, Squads
<1> QED
  BY <1>4, <1>5, <1>8, <1>9, <1>10, <1>13, <1>14, AccountsSame DEF Squads

\* n of a corner's people go home hurt, with their guns.
HurtAt(d, x, b, n) ==
  /\ x \in Rows /\ x.war = d.war /\ x.squads = d.squads
  /\ x.block[b].corner = d.block[b].corner - n /\ x.block[b].holder = d.block[b].holder
  /\ \A c \in Blocks \ {b} : x.block[c] = d.block[c]
  /\ \A q \in Players : LET m == IF q = d.block[b].holder THEN n ELSE 0 IN
       /\ x.crew[q].guns = d.crew[q].guns + m /\ x.crew[q].busy = d.crew[q].busy
       /\ x.crew[q].posted >= d.crew[q].posted - m

LEMMA CornerHurtIs ==
  ASSUME NEW d \in Rows, NEW b \in Blocks, NEW n \in Nat, n <= d.block[b].corner,
         NEW x, x = CornerHurt(d, b, n)
  PROVE  HurtAt(d, x, b, n)
<1>1. PICK p : p = d.block[b].holder
  OBVIOUS
<1>2. PICK old : old = d.block[b]
  OBVIOUS
<1>3. PICK block : block = [old EXCEPT !.corner = @ - n]
  OBVIOUS
<1>4. old \in Block /\ old.corner \in Nat /\ old.corner - n \in Nat
  BY <1>2, BlockIs
<1>5. block \in Block /\ block.corner = old.corner - n /\ block.holder = old.holder
  BY <1>3, <1>4 DEF Block
<1>6. PICK blocks : blocks = [d.block EXCEPT ![b] = block]
  OBVIOUS
<1>7. /\ blocks \in [Blocks -> Block] /\ blocks[b] = block
      /\ \A c \in Blocks \ {b} : blocks[c] = d.block[c]
  BY <1>5, <1>6, RowsParts
<1>8. PICK was : was = d.crew[p]
  OBVIOUS
<1>9. PICK crew : crew = [was EXCEPT !.posted = AtLeastZero(@ - n), !.guns = @ + n, !.hurt = @ + n]
  OBVIOUS
<1>10. PICK crews : crews = [d.crew EXCEPT ![p] = crew]
  OBVIOUS
<1>11. x = [d EXCEPT !.block = blocks, !.crew = crews]
  BY <1>1, <1>2, <1>3, <1>6, <1>8, <1>9, <1>10 DEF CornerHurt
<1>12. /\ crews \in [Players -> Crew]
       /\ \A q \in Players : LET m == IF q = p THEN n ELSE 0 IN
            /\ crews[q].guns = d.crew[q].guns + m /\ crews[q].busy = d.crew[q].busy
            /\ crews[q].posted >= d.crew[q].posted - m
  <2>1. CASE p \in Players
    <3>1. was \in Crew /\ was.posted \in Nat /\ was.guns \in Nat /\ was.hurt \in Nat
      BY <1>8, <2>1, CrewIs
    <3>2. was.posted - n \in Int /\ AtLeastZero(was.posted - n) \in Nat
          /\ AtLeastZero(was.posted - n) >= was.posted - n
      BY <3>1 DEF AtLeastZero
    <3>3. was.guns + n \in Nat /\ was.hurt + n \in Nat
      BY <3>1
    <3>4. /\ crew \in Crew /\ crew.guns = was.guns + n /\ crew.busy = was.busy
          /\ crew.posted = AtLeastZero(was.posted - n)
      BY <1>9, <3>1, <3>2, <3>3 DEF Crew
    <3>5. /\ crews \in [Players -> Crew] /\ crews[p] = crew
          /\ \A q \in Players \ {p} : crews[q] = d.crew[q]
      BY <1>10, <2>1, <3>4, RowsParts
    <3>6. \A q \in Players : d.crew[q].guns \in Nat /\ d.crew[q].posted \in Nat
      BY CrewIs
    <3> QED
      BY <1>8, <3>2, <3>4, <3>5, <3>6
  <2>2. CASE p \notin Players
    <3>1. crews = d.crew
      BY <1>10, <2>2, RowsParts
    <3>2. \A q \in Players : d.crew[q].guns \in Nat /\ d.crew[q].posted \in Nat
      BY CrewIs
    <3> QED
      BY <2>2, <3>1, <3>2, RowsParts
  <2> QED
    BY <2>1, <2>2
<1>13. /\ x.war = d.war /\ x.squads = d.squads /\ x.block = blocks /\ x.crew = crews /\ x \in Rows
  BY <1>7, <1>11, <1>12, RowsParts DEF Rows
<1> QED
  BY <1>1, <1>2, <1>5, <1>7, <1>12, <1>13 DEF HurtAt

LEMMA HurtTyped ==
  ASSUME NEW d, Typed(d), NEW b, NEW n, NEW x, HurtAt(d, x, b, n)
  PROVE  Typed(x) /\ Later(d, x) /\ Squads(x) = Squads(d)
<1>1. x \in Rows /\ x.war = d.war /\ x.squads = d.squads
  BY DEF HurtAt
<1>2. Squads(x) = Squads(d)
  BY <1>1, SameSquads
<1>3. Later(d, x)
  BY <1>1, <1>2 DEF Later, SameSquad, SameWar
<1>4. WarsSound(x)
  BY <1>1, SameWars DEF Typed
<1>5. \A i \in Squads(x) : SquadSound(x.squads[i])
  BY <1>1, <1>2 DEF Typed, SquadsOf
<1> QED
  BY <1>1, <1>2, <1>3, <1>4, <1>5, StillTyped

LEMMA HurtAccounts ==
  ASSUME NEW d \in Rows, Accounts(d), NEW b \in Blocks, NEW n \in Nat, NEW x, HurtAt(d, x, b, n)
  PROVE  Accounts(x)
<1>1. x \in Rows /\ x.squads = d.squads
  BY DEF HurtAt
<1>2. SUFFICES ASSUME NEW p \in Players
      PROVE  /\ x.crew[p].guns + Manned(x, p) + Carried(x, p) = StartCrew[p]
             /\ x.crew[p].busy = Out(x, p)
             /\ x.crew[p].posted + LeftPosted(x, p) >= Manned(x, p)
  BY DEF Accounts
<1>3. PICK m : m = IF p = d.block[b].holder THEN n ELSE 0
  OBVIOUS
<1>4. /\ x.crew[p].guns = d.crew[p].guns + m /\ x.crew[p].busy = d.crew[p].busy
      /\ x.crew[p].posted >= d.crew[p].posted - m
  BY <1>3 DEF HurtAt
<1>5. Manned(x, p) = Manned(d, p) + (IF p = d.block[b].holder THEN x.block[b].corner - d.block[b].corner ELSE 0)
  BY <1>1, MannedChange DEF HurtAt
<1>6. x.block[b].corner - d.block[b].corner = 0 - n
  <2>1. d.block[b].corner \in Nat
    BY BlockIs
  <2> QED
    BY <2>1 DEF HurtAt
<1>7. Manned(d, p) \in Nat /\ m \in Nat
  BY <1>3, HeldSums
<1>8. Manned(x, p) = Manned(d, p) - m
  BY <1>3, <1>5, <1>6, <1>7
<1>9. SameLedger(d, x)
  BY <1>1, SameSquads DEF SameLedger
<1>10. Carried(x, p) = Carried(d, p) /\ Out(x, p) = Out(d, p) /\ LeftPosted(x, p) = LeftPosted(d, p)
  BY <1>9, SameLedgerSums
<1>11. /\ Carried(d, p) \in Int /\ LeftPosted(d, p) \in Nat
       /\ d.crew[p].guns \in Nat /\ d.crew[p].posted \in Nat /\ x.crew[p].posted \in Nat
  BY <1>1, OwnSums, CrewIs
<1>12. /\ d.crew[p].guns + Manned(d, p) + Carried(d, p) = StartCrew[p]
       /\ d.crew[p].busy = Out(d, p)
       /\ d.crew[p].posted + LeftPosted(d, p) >= Manned(d, p)
  BY DEF Accounts
<1> QED
  BY <1>4, <1>7, <1>8, <1>10, <1>11, <1>12

\* hurt is what a fight may do to the squads S and a corner.
Hurting(d, b, S, hurt) ==
  /\ hurt \in [S \cup {0} -> Nat]
  /\ \A i \in S : hurt[i] <= d.squads[i].thugs
  /\ hurt[0] <= d.block[b].corner

\* Those of the squads S were hurt, and some of a corner.
Bled(d, x, S) ==
  /\ x \in Rows /\ x.war = d.war /\ Squads(x) = Squads(d) /\ Later(d, x) /\ Typed(x)
  /\ \A i \in Squads(d) \ S : x.squads[i] = d.squads[i]
  /\ \A b \in Blocks : x.block[b].holder = d.block[b].holder
  /\ Accounts(d) => Accounts(x)

LEMMA BloodiedIs ==
  ASSUME NEW d, Typed(d), NEW w \in Wars, d.war[w] # None, NEW S, S \subseteq Squads(d),
         NEW hurt, Hurting(d, d.war[w].block, S, hurt), NEW x, x = Bloodied(d, w, hurt)
  PROVE  Bled(d, x, S)
<1>1. d \in Rows /\ d.war[w].block \in Blocks
  BY WarIs DEF Typed
<1>2. PICK squads : squads = [i \in Numbers |->
                        IF i \in DOMAIN hurt
                        THEN [d.squads[i] EXCEPT !.thugs = @ - hurt[i], !.wounded = @ + hurt[i]]
                        ELSE d.squads[i]]
  OBVIOUS
<1>3. PICK e : e = [d EXCEPT !.squads = squads]
  OBVIOUS
<1>4. DOMAIN hurt = S \cup {0} /\ 0 \notin Numbers /\ S \subseteq Numbers
  BY DEF Hurting, Numbers, Squads
<1>5. ASSUME NEW i \in S
      PROVE  /\ squads[i] \in Squad /\ squads[i] # None /\ squads[i].active = d.squads[i].active
             /\ squads[i].thugs = d.squads[i].thugs - hurt[i]
             /\ squads[i].posted = d.squads[i].posted
             /\ squads[i].creditedThugs = d.squads[i].creditedThugs
             /\ SameSquad(d.squads[i], squads[i]) /\ SquadSound(squads[i])
  <2>1. i \in Squads(d) /\ i \in Numbers /\ d.squads[i] \in Squad /\ SquadSound(d.squads[i])
    BY <1>1, SquadIs DEF Typed, SquadsOf
  <2>2. PICK old : old = d.squads[i]
    OBVIOUS
  <2>3. PICK h : h = hurt[i]
    OBVIOUS
  <2>4. squads[i] = [old EXCEPT !.thugs = @ - h, !.wounded = @ + h]
    BY <1>2, <1>4, <2>1, <2>2, <2>3
  <2>5. PICK new : new = [old EXCEPT !.thugs = @ - h, !.wounded = @ + h]
    OBVIOUS
  <2>6. /\ old.sent \in Nat /\ old.thugs \in Nat /\ old.wounded \in Nat /\ old.posted \in Nat
        /\ old.creditedThugs \in Nat /\ old.creditedWounded \in Nat
    BY <1>1, <2>1, <2>2, SquadIs
  <2>7. h \in Nat /\ old.thugs - h \in Nat /\ old.wounded + h \in Nat
    BY <2>2, <2>3, <2>6 DEF Hurting
  <2>8. new \in Squad
    BY <2>1, <2>2, <2>5, <2>7 DEF Squad
  <2>9. /\ new.active = old.active /\ new.thugs = old.thugs - h /\ new.wounded = old.wounded + h
        /\ new.posted = old.posted
        /\ new.creditedThugs = old.creditedThugs /\ new.creditedWounded = old.creditedWounded
        /\ new.war = old.war /\ new.player = old.player /\ new.side = old.side /\ new.role = old.role
        /\ new.sent = old.sent
    BY <2>1, <2>2, <2>5 DEF Squad
  <2>10. new # None
    BY <2>8, NoneIsNone
  <2>11. SquadSound(new)
    <3>1. SquadSound(old)
      BY <2>1, <2>2
    <3>2. /\ new.thugs + new.wounded + new.posted = old.thugs + old.wounded + old.posted
          /\ new.creditedWounded <= new.wounded /\ new.creditedThugs <= new.sent - new.thugs
          /\ old.thugs = 0 => new.thugs = 0
      BY <2>6, <2>7, <2>9, <3>1 DEF SquadSound
    <3> QED
      BY <2>9, <3>1, <3>2 DEF SquadSound
  <2> QED
    BY <2>2, <2>3, <2>4, <2>5, <2>8, <2>9, <2>10, <2>11 DEF SameSquad
<1>6. \A i \in Numbers \ S : squads[i] = d.squads[i]
  BY <1>2, <1>4
<1>7. squads \in [Numbers -> Squad \cup {None}]
  <2>1. \A i \in Numbers : squads[i] \in Squad \cup {None}
    BY <1>1, <1>5, <1>6, RowsParts
  <2> QED
    BY <1>2, <2>1
<1>8. /\ e.crew = d.crew /\ e.block = d.block /\ e.war = d.war /\ e.squads = squads /\ e \in Rows
  BY <1>1, <1>3, <1>7, RowsParts DEF Rows
<1>9. Squads(e) = Squads(d)
  BY <1>4, <1>5, <1>6, <1>8 DEF Squads
<1>10. Later(d, e)
  BY <1>5, <1>6, <1>8, <1>9 DEF Later, SameSquad, SameWar, Squads
<1>11. \A i \in Squads(e) : SquadSound(e.squads[i])
  BY <1>5, <1>6, <1>8, <1>9 DEF Typed, SquadsOf, Squads
<1>12. WarsSound(e)
  BY <1>8, SameWars DEF Typed
<1>13. Typed(e)
  BY <1>8, <1>10, <1>11, <1>12, StillTyped
<1>14. x = CornerHurt(e, d.war[w].block, hurt[0])
  BY <1>2, <1>3 DEF Bloodied
<1>15. hurt[0] \in Nat /\ hurt[0] <= e.block[d.war[w].block].corner
  BY <1>8 DEF Hurting
<1>16. HurtAt(e, x, d.war[w].block, hurt[0])
  BY <1>1, <1>8, <1>14, <1>15, CornerHurtIs
<1>17. Typed(x) /\ Later(e, x) /\ Squads(x) = Squads(e) /\ x \in Rows /\ x.war = d.war /\ x.squads = squads
  <2>1. Typed(x) /\ Later(e, x) /\ Squads(x) = Squads(e)
    BY <1>13, <1>16, HurtTyped
  <2>2. x \in Rows /\ x.war = e.war /\ x.squads = e.squads
    BY <1>16 DEF HurtAt
  <2> QED
    BY <1>8, <2>1, <2>2
<1>18. Later(d, x)
  BY <1>10, <1>17, LaterStill
<1>19. \A b \in Blocks : x.block[b].holder = d.block[b].holder
  BY <1>8, <1>16 DEF HurtAt
<1>20. SameLedger(d, e)
  BY <1>5, <1>6, <1>8, <1>9 DEF SameLedger, SameSquad, Squads
<1>21. Accounts(d) => Accounts(x)
  BY <1>1, <1>8, <1>15, <1>16, <1>20, AccountsSame, HurtAccounts
<1> QED
  BY <1>6, <1>8, <1>9, <1>17, <1>18, <1>19, <1>21 DEF Squads, Bled

-----------------------------------------------------------------------------
(* A war changes *)

LEMMA WarTyped ==
  ASSUME NEW d, Typed(d), NEW w \in Wars, d.war[w] # None, NEW x, JustWar(d, x, w),
         x.war[w] \in War, SameWar(d.war[w], x.war[w]), x.war[w].control <= Full,
         x.war[w].status # "ENDED" /\ x.war[w].fight # None /\ x.war[w].fight.kind = "BREAK" =>
           x.war[w].status = "SIEGE"
  PROVE  /\ Typed(x) /\ Later(d, x) /\ Squads(x) = Squads(d)
         /\ \A v \in Wars \ {w} : Live(x, v) <=> Live(d, v)
         /\ Accounts(d) => Accounts(x)
<1>1. d \in Rows /\ x \in Rows /\ x.squads = d.squads /\ x.crew = d.crew /\ x.block = d.block
  BY DEF Typed, JustWar
<1>2. \A v \in Wars \ {w} : x.war[v] = d.war[v]
  BY DEF JustWar
<1>3. x.war[w] # None
  BY NoneIsNone
<1>4. Squads(x) = Squads(d)
  BY <1>1, SameSquads
<1>5. Later(d, x)
  BY <1>1, <1>2, <1>3, <1>4 DEF Later, SameSquad, SameWar
<1>6. WarsSound(x)
  BY <1>2 DEF WarsSound, Typed, Live
<1>7. \A i \in Squads(x) : SquadSound(x.squads[i])
  BY <1>1, <1>4 DEF Typed, SquadsOf
<1>8. Typed(x)
  BY <1>1, <1>5, <1>6, <1>7, StillTyped
<1>9. SameLedger(d, x)
  BY <1>1, <1>4 DEF SameLedger
<1>10. Accounts(d) => Accounts(x)
  BY <1>1, <1>9, AccountsSame
<1> QED
  BY <1>2, <1>4, <1>5, <1>8, <1>10 DEF Live

\* The helpers went home, and the attackers too unless they won.
Judged(d, x, w, helpers, attackers, winner) ==
  /\ Typed(x) /\ Later(d, x) /\ Squads(x) = Squads(d) /\ x.block = d.block
  /\ \A v \in Wars \ {w} : x.war[v] = d.war[v]
  /\ Live(x, w) /\ x.war[w].fight = None
  /\ \A i \in helpers : x.squads[i].thugs = 0
  /\ IF winner = "DEFENDER" THEN \A i \in attackers : x.squads[i].thugs = 0
     ELSE x.war[w].status = "SIEGE"
  /\ \A i \in Squads(d) \ (helpers \cup attackers) : x.squads[i] = d.squads[i]
  /\ Accounts(d) => Accounts(x)

LEMMA DecidedIs ==
  ASSUME NEW d, Typed(d), NEW w \in Wars, Live(d, w), d.war[w].fight # None,
         NEW helpers, helpers \subseteq Squads(d), NEW attackers, attackers \subseteq Squads(d),
         NEW winner \in Sides, NEW x, x = Decided(d, w, helpers, attackers, winner)
  PROVE  Judged(d, x, w, helpers, attackers, winner)
<1>1. d \in Rows /\ d.war[w] # None /\ d.war[w].status # "ENDED"
  BY DEF Typed, Live
<1>2. PICK old : old = d.war[w]
  OBVIOUS
<1>3. /\ old \in War /\ old.control \in Nat /\ old.control <= Full /\ old.fight.landsAt \in Nat
      /\ old.status \in {"OPENING", "BETWEEN", "SIEGE"} /\ (old.fight.kind = "BREAK" => old.status = "SIEGE")
  BY <1>1, <1>2, WarIs, FightIs DEF Typed, WarsSound
<1>4. PICK freed : freed = Released(d, helpers)
  OBVIOUS
<1>5. /\ freed.war = d.war /\ freed.block = d.block
      /\ Squads(freed) = Squads(d) /\ Later(d, freed) /\ Typed(freed)
      /\ \A i \in Squads(d) \ helpers : freed.squads[i] = d.squads[i]
      /\ \A i \in helpers : freed.squads[i].thugs = 0
      /\ Accounts(d) => Accounts(freed)
  BY <1>4, ReleasedIs
<1>6. PICK rows : rows = IF winner = "DEFENDER" THEN Released(freed, attackers) ELSE freed
  OBVIOUS
<1>7. /\ rows.war = d.war /\ rows.block = d.block
      /\ Squads(rows) = Squads(d) /\ Later(d, rows) /\ Typed(rows)
      /\ \A i \in Squads(d) \ (helpers \cup attackers) : rows.squads[i] = d.squads[i]
      /\ \A i \in helpers : rows.squads[i].thugs = 0
      /\ winner = "DEFENDER" => \A i \in attackers : rows.squads[i].thugs = 0
      /\ Accounts(d) => Accounts(rows)
  <2>1. CASE winner = "DEFENDER"
    <3>1. rows = Released(freed, attackers) /\ attackers \subseteq Squads(freed)
      BY <1>5, <1>6, <2>1
    <3>2. /\ rows.war = freed.war /\ rows.block = freed.block
          /\ Squads(rows) = Squads(freed) /\ Later(freed, rows) /\ Typed(rows)
          /\ \A i \in Squads(freed) \ attackers : rows.squads[i] = freed.squads[i]
          /\ \A i \in attackers : rows.squads[i].thugs = 0
          /\ Accounts(freed) => Accounts(rows)
      BY <1>5, <3>1, ReleasedIs
    <3>3. Later(d, rows)
      BY <1>5, <3>2, LaterStill
    <3> QED
      BY <1>5, <3>2, <3>3
  <2>2. CASE winner # "DEFENDER"
    BY <1>5, <1>6, <2>2
  <2> QED
    BY <2>1, <2>2
<1>8. PICK at : at = old.fight.landsAt
  OBVIOUS
<1>9. PICK left : left = IF old.fight.kind = "BREAK" THEN AtLeastZero(old.control - BreakLoss) ELSE old.control
  OBVIOUS
<1>10. left \in Nat /\ left <= Full
  BY <1>3, <1>9, Numerals DEF AtLeastZero
<1>11. PICK new : new = IF winner = "DEFENDER"
                        THEN [old EXCEPT !.fight = None, !.status = "BETWEEN", !.nextAssaultAt = at + Resiege,
                                         !.controlAt = 0, !.control = left]
                        ELSE IF old.fight.kind = "BREAK" THEN [old EXCEPT !.fight = None]
                        ELSE [old EXCEPT !.fight = None, !.status = "SIEGE", !.controlAt = at]
  OBVIOUS
<1>12. x = [rows EXCEPT !.war[w] = new]
  <2>1. rows.war[w] = old
    BY <1>2, <1>7
  <2>2. CASE winner = "DEFENDER"
    BY <1>2, <1>4, <1>6, <1>8, <1>9, <1>11, <2>1, <2>2 DEF Decided
  <2>3. CASE winner # "DEFENDER" /\ old.fight.kind = "BREAK"
    <3>1. x = [rows EXCEPT !.war[w].fight = None]
      BY <1>2, <1>4, <1>6, <2>3 DEF Decided
    <3>2. new = [old EXCEPT !.fight = None]
      BY <1>11, <2>3
    <3> QED
      BY <2>1, <3>1, <3>2
  <2>4. CASE winner # "DEFENDER" /\ old.fight.kind # "BREAK"
    <3>1. x = [rows EXCEPT !.war[w] = [old EXCEPT !.fight = None, !.status = "SIEGE", !.controlAt = at]]
      BY <1>2, <1>4, <1>6, <1>8, <2>4 DEF Decided
    <3>2. new = [old EXCEPT !.fight = None, !.status = "SIEGE", !.controlAt = at]
      BY <1>11, <2>4
    <3> QED
      BY <3>1, <3>2
  <2> QED
    BY <2>2, <2>3, <2>4
<1>13. /\ new \in War /\ SameWar(old, new) /\ new.control <= Full /\ new.fight = None
       /\ new.status # "ENDED" /\ (winner # "DEFENDER" => new.status = "SIEGE")
  <2>1. CASE winner = "DEFENDER"
    <3>1. new = [old EXCEPT !.fight = None, !.status = "BETWEEN", !.nextAssaultAt = at + Resiege,
                            !.controlAt = 0, !.control = left]
      BY <1>11, <2>1
    <3>2. at + Resiege \in Nat
      BY <1>3, <1>8, Numerals
    <3> QED
      BY <1>3, <1>10, <2>1, <3>1, <3>2 DEF War, SameWar
  <2>2. CASE winner # "DEFENDER" /\ old.fight.kind = "BREAK"
    <3>1. new = [old EXCEPT !.fight = None]
      BY <1>11, <2>2
    <3> QED
      BY <1>3, <2>2, <3>1 DEF War, SameWar
  <2>3. CASE winner # "DEFENDER" /\ old.fight.kind # "BREAK"
    <3>1. new = [old EXCEPT !.fight = None, !.status = "SIEGE", !.controlAt = at]
      BY <1>11, <2>3
    <3> QED
      BY <1>3, <1>8, <2>3, <3>1 DEF War, SameWar
  <2> QED
    BY <2>1, <2>2, <2>3
<1>14. rows \in Rows
  BY <1>7 DEF Typed
<1>15. JustWar(rows, x, w) /\ x.war[w] = new
  BY <1>12, <1>13, <1>14, SetWar
<1>16. /\ Typed(x) /\ Later(rows, x) /\ Squads(x) = Squads(rows) /\ (Accounts(rows) => Accounts(x))
  BY <1>1, <1>2, <1>7, <1>13, <1>15, WarTyped
<1>17. Later(d, x)
  BY <1>7, <1>16, LaterStill
<1>18. x.block = d.block /\ x.squads = rows.squads /\ \A v \in Wars \ {w} : x.war[v] = d.war[v]
  BY <1>7, <1>15 DEF JustWar
<1>19. new # None
  BY <1>13, NoneIsNone
<1> QED
  BY <1>7, <1>13, <1>15, <1>16, <1>17, <1>18, <1>19 DEF Live, Judged

-----------------------------------------------------------------------------
(* A fight *)

\* How a fight goes: those hurt, and who wins.
LEMMA FoughtBy ==
  ASSUME NEW d, Typed(d), NEW w \in Wars, d.war[w] # None, NEW x \in Fought(d, w)
  PROVE  LET attackers == Fielded(d, On(d, w, "ATTACKER"))
             helpers == Fielded(d, On(d, w, "DEFENDER"))
         IN  \E S \in SUBSET (attackers \cup helpers), winner \in Sides : \E hurt :
               /\ Hurting(d, d.war[w].block, S, hurt)
               /\ x = Decided(Bloodied(d, w, hurt), w, helpers, attackers, winner)
<1> DEFINE attackers == Fielded(d, On(d, w, "ATTACKER"))
           helpers == Fielded(d, On(d, w, "DEFENDER"))
           corner == d.block[d.war[w].block].corner
           met == attackers # {} /\ corner + ThugsIn(d, helpers) > 0
           wounds == IF met THEN Wounds(d, attackers \cup helpers, corner) ELSE {[i \in {0} |-> 0]}
           winners == IF attackers = {} THEN {"DEFENDER"} ELSE IF met THEN Sides ELSE {"ATTACKER"}
<1>1. x \in {Decided(Bloodied(d, w, hurt), w, helpers, attackers, winner) :
                hurt \in wounds, winner \in winners}
  BY DEF Fought, BlockOf
<1>2. corner \in Nat
  <2>1. d.war[w].block \in Blocks /\ d \in Rows
    BY WarIs DEF Typed
  <2> QED
    BY <2>1, BlockIs
<1> HIDE DEF attackers, helpers, corner, met, wounds, winners
<1>3. PICK hurt \in wounds, winner \in winners :
        x = Decided(Bloodied(d, w, hurt), w, helpers, attackers, winner)
  BY <1>1
<1>4. winner \in Sides
  BY DEF Sides, winners
<1>5. CASE met
  <2>1. hurt \in Wounds(d, attackers \cup helpers, corner)
    BY <1>5 DEF wounds
  <2>2. hurt \in [(attackers \cup helpers) \cup {0} -> 0..MaxWounds]
    BY <2>1 DEF Wounds
  <2>3. hurt \in [(attackers \cup helpers) \cup {0} -> Nat]
    BY <2>2, Numerals
  <2>4. (\A i \in attackers \cup helpers : hurt[i] <= d.squads[i].thugs) /\ hurt[0] <= corner
    BY <2>1 DEF Wounds
  <2>5. Hurting(d, d.war[w].block, attackers \cup helpers, hurt)
    BY <2>3, <2>4 DEF Hurting, corner
  <2> QED
    BY <1>3, <1>4, <2>5 DEF attackers, helpers
<1>6. CASE ~met
  <2>1. hurt = [i \in {0} |-> 0]
    BY <1>6 DEF wounds
  <2>2. hurt \in [{} \cup {0} -> Nat] /\ hurt[0] = 0
    BY <2>1
  <2>3. Hurting(d, d.war[w].block, {}, hurt)
    BY <1>2, <2>2 DEF Hurting, corner
  <2>4. {} \in SUBSET (attackers \cup helpers)
    OBVIOUS
  <2> QED
    BY <1>3, <1>4, <2>3, <2>4 DEF attackers, helpers
<1> QED
  BY <1>5, <1>6

\* After a fight nobody but the winning attackers, who besiege the block, is in the war.
AfterFight(d, x, w) ==
  /\ Typed(x) /\ Later(d, x) /\ Squads(x) = Squads(d)
  /\ \A b \in Blocks : x.block[b].holder = d.block[b].holder
  /\ \A v \in Wars \ {w} : x.war[v] = d.war[v]
  /\ Live(x, w) /\ x.war[w].fight = None
  /\ \A i \in Squads(d) \ Active(d, w) : x.squads[i] = d.squads[i]
  /\ \A i \in Active(d, w) :
       x.squads[i].thugs > 0 => x.squads[i].side = "ATTACKER" /\ x.war[w].status = "SIEGE"
  /\ Accounts(d) => Accounts(x)

LEMMA FoughtAs ==
  ASSUME NEW d, Typed(d), NEW w \in Wars, Live(d, w), d.war[w].fight # None,
         NEW attackers, attackers = Fielded(d, On(d, w, "ATTACKER")),
         NEW helpers, helpers = Fielded(d, On(d, w, "DEFENDER")),
         NEW S \in SUBSET (attackers \cup helpers), NEW winner \in Sides,
         NEW hurt, Hurting(d, d.war[w].block, S, hurt),
         NEW x, x = Decided(Bloodied(d, w, hurt), w, helpers, attackers, winner)
  PROVE  AfterFight(d, x, w)
<1>1. d \in Rows /\ d.war[w] # None /\ d.war[w].block \in Blocks
  BY WarIs DEF Typed, Live
<1>4. /\ attackers \subseteq Active(d, w) /\ helpers \subseteq Active(d, w) /\ Active(d, w) \subseteq Squads(d)
      /\ \A i \in attackers : d.squads[i].side = "ATTACKER"
  BY DEF Active, On, Fielded
<1>10. S \subseteq Active(d, w) /\ S \subseteq Squads(d) /\ S \subseteq attackers \cup helpers
  BY <1>4
<1>13. PICK e : e = Bloodied(d, w, hurt)
  OBVIOUS
<1>14. /\ e.war = d.war /\ Squads(e) = Squads(d) /\ Later(d, e) /\ Typed(e)
       /\ \A i \in Squads(d) \ S : e.squads[i] = d.squads[i]
       /\ \A b \in Blocks : e.block[b].holder = d.block[b].holder
       /\ Accounts(d) => Accounts(e)
  <2>1. Bled(d, e, S)
    BY <1>1, <1>10, <1>13, BloodiedIs
  <2> QED
    BY <2>1 DEF Bled
<1>15. Live(e, w) /\ e.war[w].fight # None
  BY <1>14 DEF Live
<1>16. helpers \subseteq Squads(e) /\ attackers \subseteq Squads(e) /\ x = Decided(e, w, helpers, attackers, winner)
  BY <1>4, <1>13, <1>14
<1>17. /\ Typed(x) /\ Later(e, x) /\ Squads(x) = Squads(e) /\ x.block = e.block
       /\ \A v \in Wars \ {w} : x.war[v] = e.war[v]
       /\ Live(x, w) /\ x.war[w].fight = None
       /\ \A i \in helpers : x.squads[i].thugs = 0
       /\ IF winner = "DEFENDER" THEN \A i \in attackers : x.squads[i].thugs = 0
          ELSE x.war[w].status = "SIEGE"
       /\ \A i \in Squads(e) \ (helpers \cup attackers) : x.squads[i] = e.squads[i]
       /\ Accounts(e) => Accounts(x)
  <2>1. Typed(e)
    BY <1>14
  <2>2. Judged(e, x, w, helpers, attackers, winner)
    BY <1>15, <1>16, <2>1, DecidedIs
  <2> QED
    BY <2>2 DEF Judged
<1>18. Later(d, x)
  BY <1>14, <1>17, LaterStill
<1>19. \A i \in Squads(d) \ Active(d, w) : x.squads[i] = d.squads[i]
  BY <1>4, <1>10, <1>14, <1>17
<1>20. ASSUME NEW i \in Active(d, w), x.squads[i].thugs > 0
       PROVE  x.squads[i].side = "ATTACKER" /\ x.war[w].status = "SIEGE"
  <2>1. i \notin helpers
    BY <1>17, <1>20
  <2>2. i \in attackers
    <3>1. SUFFICES ASSUME i \notin attackers PROVE FALSE
      OBVIOUS
    <3>2. x.squads[i] = d.squads[i]
      BY <1>4, <1>10, <1>14, <1>17, <2>1, <3>1
    <3>3. d.squads[i].side \in Sides
      BY <1>1, <1>4, SquadIs
    <3>4. i \in Fielded(d, On(d, w, "ATTACKER")) \/ i \in Fielded(d, On(d, w, "DEFENDER"))
      BY <1>20, <3>2, <3>3 DEF Fielded, On, Sides
    <3> QED
      BY <2>1, <3>1, <3>4
  <2>3. winner # "DEFENDER"
    BY <1>17, <1>20, <2>2
  <2>4. i \in Squads(x) /\ SameSquad(d.squads[i], x.squads[i])
    BY <1>4, <1>14, <1>17, <1>18 DEF Later
  <2> QED
    BY <1>4, <1>17, <2>2, <2>3, <2>4 DEF SameSquad
<1> QED
  BY <1>14, <1>17, <1>18, <1>19, <1>20 DEF AfterFight

LEMMA FoughtIs ==
  ASSUME NEW d, Typed(d), NEW w \in Wars, Live(d, w), d.war[w].fight # None, NEW x \in Fought(d, w)
  PROVE  AfterFight(d, x, w)
<1>1. d.war[w] # None
  BY DEF Live
<1> DEFINE attackers == Fielded(d, On(d, w, "ATTACKER"))
           helpers == Fielded(d, On(d, w, "DEFENDER"))
<1>0. attackers = Fielded(d, On(d, w, "ATTACKER")) /\ helpers = Fielded(d, On(d, w, "DEFENDER"))
  OBVIOUS
<1>2. PICK S \in SUBSET (attackers \cup helpers), winner \in Sides : \E hurt :
        /\ Hurting(d, d.war[w].block, S, hurt)
        /\ x = Decided(Bloodied(d, w, hurt), w, helpers, attackers, winner)
  BY <1>1, FoughtBy
<1>3. PICK hurt :
        /\ Hurting(d, d.war[w].block, S, hurt)
        /\ x = Decided(Bloodied(d, w, hurt), w, helpers, attackers, winner)
  BY <1>2
<1> HIDE DEF attackers, helpers
<1> QED
  BY <1>0, <1>3, FoughtAs

-----------------------------------------------------------------------------
(* The end of a war *)

LEMMA MinMax ==
  ASSUME NEW S, IsFiniteSet(S), \A y \in S : y \in Int, S # {}
  PROVE  Min(S) \in S /\ Max(S) \in S /\ \A y \in S : y <= Max(S)
<1>1. (\E m \in S : \A y \in S : m <= y) /\ (\E m \in S : \A y \in S : m >= y)
  BY Extremes
<1>2. Min(S) \in S
  BY <1>1 DEF Min
<1>3. Max(S) \in S /\ \A y \in S : Max(S) >= y
  BY <1>1 DEF Max
<1> QED
  BY <1>2, <1>3

\* The block is the attacker's, manned by the declarer's squad.
Captured(d, x, w) ==
  /\ Typed(x) /\ Later(d, x) /\ Squads(x) = Squads(d) /\ x.war = d.war
  /\ \A b \in Blocks \ {d.war[w].block} : x.block[b] = d.block[b]
  /\ BlockOf(x, w).holder = d.war[w].attacker
  /\ \A i \in Squads(d) : x.squads[i] = d.squads[i] \/ (i \in Declaring(d, w) /\ ~x.squads[i].active)
  /\ Accounts(d) => Accounts(x)

LEMMA TakenIs ==
  ASSUME NEW d, Typed(d), NEW w \in Wars, d.war[w] # None, NEW at \in Nat, NEW x, x = Taken(d, w, at)
  PROVE  Captured(d, x, w)
<1>1. PICK b : b = d.war[w].block
  OBVIOUS
<1>2. PICK q : q = d.war[w].attacker
  OBVIOUS
<1>3. d \in Rows /\ b \in Blocks /\ q \in Players /\ q # None
  BY <1>1, <1>2, WarIs, NoneIsNone DEF Typed
<1>4. PICK n : n = d.block[b].corner
  OBVIOUS
<1>5. n \in Nat /\ n <= d.block[b].corner
  BY <1>3, <1>4, BlockIs
<1>6. PICK beaten : beaten = CornerHurt(d, b, n)
  OBVIOUS
<1>7. HurtAt(d, beaten, b, n)
  BY <1>3, <1>5, <1>6, CornerHurtIs
<1>8. /\ Typed(beaten) /\ Later(d, beaten) /\ Squads(beaten) = Squads(d)
      /\ (Accounts(d) => Accounts(beaten))
  BY <1>3, <1>5, <1>7, HurtTyped, HurtAccounts
<1>9. /\ beaten \in Rows /\ beaten.war = d.war /\ beaten.squads = d.squads /\ beaten.block[b].corner = 0
      /\ \A c \in Blocks \ {b} : beaten.block[c] = d.block[c]
  BY <1>4, <1>5, <1>7 DEF HurtAt
<1>10. PICK first : first = IF Declaring(d, w) = {} THEN 0 ELSE Min(Declaring(d, w))
  OBVIOUS
<1>11. 0 \notin Numbers /\ Declaring(d, w) \subseteq Squads(d) /\ Squads(d) \subseteq Numbers
  BY ActiveIs DEF Numbers, Squads
<1>12. CASE first = 0
  <2>1. x = [beaten EXCEPT !.block[b] = [holder |-> q, corner |-> 0, shield |-> at + Truce, upkeepAt |-> at]]
    BY <1>1, <1>2, <1>4, <1>6, <1>10, <1>12 DEF Taken, BlockOf
  <2>2. PICK block : block = [holder |-> q, corner |-> 0, shield |-> at + Truce, upkeepAt |-> at]
    OBVIOUS
  <2>3. block \in Block
    BY <1>3, <2>2, Numerals DEF Block
  <2>4. PICK blocks : blocks = [beaten.block EXCEPT ![b] = block]
    OBVIOUS
  <2>5. /\ blocks \in [Blocks -> Block] /\ blocks[b] = block
        /\ \A c \in Blocks \ {b} : blocks[c] = beaten.block[c]
    BY <1>3, <1>9, <2>3, <2>4, RowsParts
  <2>6. x = [beaten EXCEPT !.block = blocks]
    BY <2>1, <2>2, <2>4
  <2>7. /\ x.crew = beaten.crew /\ x.war = beaten.war /\ x.squads = beaten.squads /\ x.block = blocks
        /\ x \in Rows
    BY <1>9, <2>5, <2>6, RowsParts DEF Rows
  <2>8. Squads(x) = Squads(beaten)
    BY <2>7, SameSquads
  <2>9. Later(beaten, x) /\ WarsSound(x)
    BY <1>8, <2>7, <2>8, SameWars DEF Later, SameSquad, SameWar, Typed
  <2>10. \A i \in Squads(x) : SquadSound(x.squads[i])
    BY <1>8, <2>7, <2>8 DEF Typed, SquadsOf
  <2>11. Typed(x)
    BY <1>8, <2>7, <2>9, <2>10, StillTyped
  <2>12. Accounts(beaten) => Accounts(x)
    <3>1. SUFFICES ASSUME Accounts(beaten), NEW p \in Players
          PROVE  /\ x.crew[p].guns + Manned(x, p) + Carried(x, p) = StartCrew[p]
                 /\ x.crew[p].busy = Out(x, p)
                 /\ x.crew[p].posted + LeftPosted(x, p) >= Manned(x, p)
      BY DEF Accounts
    <3>2. /\ Manned(x, p) = Manned(beaten, p) - (IF p = beaten.block[b].holder THEN beaten.block[b].corner ELSE 0)
                                          + (IF p = x.block[b].holder THEN x.block[b].corner ELSE 0)
          /\ Manned(beaten, p) \in Nat
      BY <1>3, <1>9, <2>5, <2>7, MannedMove
    <3>3. Manned(x, p) = Manned(beaten, p)
      BY <1>9, <2>2, <2>5, <2>7, <3>2
    <3>4. SameLedger(beaten, x)
      BY <2>7, <2>8 DEF SameLedger
    <3>5. Carried(x, p) = Carried(beaten, p) /\ Out(x, p) = Out(beaten, p) /\ LeftPosted(x, p) = LeftPosted(beaten, p)
      BY <3>4, SameLedgerSums
    <3> QED
      BY <2>7, <3>1, <3>3, <3>5 DEF Accounts
  <2>13. Later(d, x)
    BY <1>8, <2>9, LaterStill
  <2>14. BlockOf(x, w).holder = q
    BY <1>1, <1>9, <2>2, <2>5, <2>7 DEF BlockOf
  <2> QED
    BY <1>1, <1>2, <1>8, <1>9, <2>5, <2>7, <2>8, <2>11, <2>12, <2>13, <2>14 DEF Captured
<1>13. CASE first # 0
  <2>1. first \in Declaring(d, w)
    <3>1. Declaring(d, w) # {} /\ first = Min(Declaring(d, w))
      BY <1>10, <1>13
    <3>2. IsFiniteSet(Declaring(d, w))
      BY <1>11, SquadsFinite, FS_Subset
    <3>3. \A y \in Declaring(d, w) : y \in Int
      BY <1>11, Numerals DEF Numbers
    <3> QED
      BY <3>1, <3>2, <3>3, MinMax
  <2>2. PICK old : old = d.squads[first]
    OBVIOUS
  <2>3. /\ first \in Numbers /\ first \in Squads(d) /\ old \in Squad /\ SquadSound(old)
        /\ old.active /\ old.role = "DECLARER" /\ old.player = q
        /\ old.sent \in Nat /\ old.thugs \in Nat /\ old.wounded \in Nat /\ old.posted \in Nat
        /\ old.creditedThugs \in Nat /\ old.creditedWounded \in Nat
    BY <1>2, <1>3, <1>11, <2>1, <2>2, SquadIs DEF Declaring, Active, Typed, SquadsOf
  <2>4. old.posted = 0
    BY <2>3 DEF SquadSound
  <2>5. PICK new : new = [old EXCEPT !.posted = old.thugs, !.thugs = 0, !.active = FALSE]
    OBVIOUS
  <2>6. new \in Squad
    BY <2>3, <2>5 DEF Squad
  <2>7. /\ new.active = FALSE /\ new.thugs = 0 /\ new.wounded = old.wounded /\ new.posted = old.thugs
        /\ new.creditedThugs = old.creditedThugs /\ new.creditedWounded = old.creditedWounded
        /\ new.war = old.war /\ new.player = old.player /\ new.side = old.side /\ new.role = old.role
        /\ new.sent = old.sent
    BY <2>3, <2>5 DEF Squad
  <2>8. new # None /\ SquadSound(new)
    BY <2>3, <2>4, <2>6, <2>7, NoneIsNone DEF SquadSound
  <2>9. PICK squads : squads = [d.squads EXCEPT ![first] = new]
    OBVIOUS
  <2>10. /\ squads \in [Numbers -> Squad \cup {None}] /\ squads[first] = new
         /\ \A i \in Numbers \ {first} : squads[i] = d.squads[i]
    BY <1>3, <2>3, <2>6, <2>9, RowsParts
  <2>11. PICK block : block = [holder |-> q, corner |-> old.thugs, shield |-> at + Truce, upkeepAt |-> at]
    OBVIOUS
  <2>12. block \in Block
    BY <1>3, <2>3, <2>11, Numerals DEF Block
  <2>13. PICK blocks : blocks = [beaten.block EXCEPT ![b] = block]
    OBVIOUS
  <2>14. /\ blocks \in [Blocks -> Block] /\ blocks[b] = block
         /\ \A c \in Blocks \ {b} : blocks[c] = beaten.block[c]
    BY <1>3, <1>9, <2>12, <2>13, RowsParts
  <2>15. PICK manned : manned = [beaten EXCEPT !.squads = squads]
    OBVIOUS
  <2>16. /\ manned.crew = beaten.crew /\ manned.war = d.war /\ manned.block = beaten.block
         /\ manned.squads = squads /\ manned \in Rows
    BY <1>9, <2>10, <2>15, RowsParts DEF Rows
  <2>17. x = [manned EXCEPT !.block = blocks]
    <3>1. [beaten EXCEPT !.squads[first] = [@ EXCEPT !.posted = old.thugs, !.thugs = 0, !.active = FALSE]]
          = [beaten EXCEPT !.squads = [beaten.squads EXCEPT ![first] = new]]
      BY <1>9, <2>2, <2>5
    <3>2. manned = [beaten EXCEPT !.squads[first] = [@ EXCEPT !.posted = old.thugs, !.thugs = 0, !.active = FALSE]]
      BY <1>9, <2>9, <2>15, <3>1
    <3>3. x = [manned EXCEPT !.block[b] = [holder |-> q, corner |-> old.thugs, shield |-> at + Truce, upkeepAt |-> at]]
      BY <1>1, <1>2, <1>4, <1>6, <1>10, <1>13, <2>2, <3>2 DEF Taken, BlockOf
    <3> QED
      BY <2>11, <2>13, <2>16, <3>3
  <2>18. /\ x.crew = beaten.crew /\ x.war = d.war /\ x.squads = squads /\ x.block = blocks /\ x \in Rows
    BY <2>14, <2>16, <2>17, RowsParts DEF Rows
  <2>19. Squads(x) = Squads(d) /\ Squads(manned) = Squads(d)
    BY <2>3, <2>8, <2>10, <2>16, <2>18 DEF Squads
  <2>20. Later(d, x) /\ WarsSound(x)
    BY <2>2, <2>7, <2>10, <2>18, <2>19, SameWars, <1>11 DEF Later, SameSquad, SameWar, Typed
  <2>21. \A i \in Squads(x) : SquadSound(x.squads[i])
    BY <1>11, <2>8, <2>10, <2>18, <2>19 DEF Typed, SquadsOf
  <2>22. Typed(x)
    BY <2>18, <2>20, <2>21, StillTyped
  <2>23. Accounts(beaten) => Accounts(x)
    <3>1. SUFFICES ASSUME Accounts(beaten), NEW p \in Players
          PROVE  /\ x.crew[p].guns + Manned(x, p) + Carried(x, p) = StartCrew[p]
                 /\ x.crew[p].busy = Out(x, p)
                 /\ x.crew[p].posted + LeftPosted(x, p) >= Manned(x, p)
      BY DEF Accounts
    <3>2. PICK more : more = IF p = q THEN old.thugs ELSE 0
      OBVIOUS
    <3>3. /\ Carried(manned, p) = Carried(beaten, p) - more
          /\ LeftPosted(manned, p) = LeftPosted(beaten, p) + more
          /\ Out(manned, p) = Out(beaten, p)
      <4>1. /\ first \in Squads(beaten) /\ Squads(manned) = Squads(beaten)
            /\ \A j \in Squads(beaten) \ {first} : manned.squads[j] = beaten.squads[j]
            /\ manned.squads[first].player = beaten.squads[first].player
            /\ manned.squads[first].sent = beaten.squads[first].sent
            /\ manned.squads[first].creditedThugs = beaten.squads[first].creditedThugs
        BY <1>8, <1>9, <1>11, <2>2, <2>3, <2>7, <2>10, <2>16, <2>19
      <4>2. /\ manned.squads[first].posted = old.thugs /\ beaten.squads[first].posted = 0
            /\ beaten.squads[first].player = q
        BY <1>9, <2>2, <2>3, <2>4, <2>7, <2>10, <2>16
      <4>3. PICK m : m = IF p = beaten.squads[first].player
                         THEN manned.squads[first].posted - beaten.squads[first].posted ELSE 0
        OBVIOUS
      <4>4. /\ Carried(manned, p) = Carried(beaten, p) - m
            /\ LeftPosted(manned, p) = LeftPosted(beaten, p) + m
            /\ Out(manned, p) = Out(beaten, p)
        BY <1>9, <2>16, <4>1, <4>3, OwnChange
      <4>5. m = more
        BY <2>3, <3>2, <4>2, <4>3
      <4> QED
        BY <4>4, <4>5
    <3>4. SameLedger(manned, x)
      BY <2>16, <2>18, <2>19 DEF SameLedger
    <3>5. Carried(x, p) = Carried(manned, p) /\ Out(x, p) = Out(manned, p) /\ LeftPosted(x, p) = LeftPosted(manned, p)
      BY <3>4, SameLedgerSums
    <3>6. /\ Manned(x, p) = Manned(beaten, p) - (IF p = beaten.block[b].holder THEN beaten.block[b].corner ELSE 0)
                                          + (IF p = x.block[b].holder THEN x.block[b].corner ELSE 0)
          /\ Manned(beaten, p) \in Nat
      BY <1>3, <1>9, <2>14, <2>18, MannedMove
    <3>7. x.block[b].holder = q /\ x.block[b].corner = old.thugs
      BY <2>11, <2>14, <2>18
    <3>8. Manned(x, p) = Manned(beaten, p) + more
      BY <1>9, <2>3, <3>2, <3>6, <3>7
    <3>9. /\ Carried(beaten, p) \in Int /\ LeftPosted(beaten, p) \in Nat
          /\ beaten.crew[p].guns \in Nat /\ beaten.crew[p].posted \in Nat /\ more \in Nat
      BY <1>9, <2>3, <3>2, OwnSums, CrewIs
    <3>10. /\ beaten.crew[p].guns + Manned(beaten, p) + Carried(beaten, p) = StartCrew[p]
           /\ beaten.crew[p].busy = Out(beaten, p)
           /\ beaten.crew[p].posted + LeftPosted(beaten, p) >= Manned(beaten, p)
      BY <3>1 DEF Accounts
    <3> QED
      BY <2>18, <3>3, <3>5, <3>6, <3>8, <3>9, <3>10
  <2>24. BlockOf(x, w).holder = q
    BY <1>1, <2>11, <2>14, <2>18 DEF BlockOf
  <2>25. \A i \in Squads(d) : x.squads[i] = d.squads[i] \/ (i \in Declaring(d, w) /\ ~x.squads[i].active)
    BY <1>11, <2>1, <2>7, <2>10, <2>18
  <2> QED
    BY <1>1, <1>2, <1>8, <1>9, <2>14, <2>18, <2>19, <2>20, <2>22, <2>23, <2>24, <2>25 DEF Captured
<1> QED
  BY <1>12, <1>13

\* A truce for a block.
LEMMA ShieldIs ==
  ASSUME NEW d, Typed(d), NEW b \in Blocks, NEW n \in Nat, NEW x, x = [d EXCEPT !.block[b].shield = n]
  PROVE  /\ Typed(x) /\ Later(d, x) /\ x.war = d.war /\ x.squads = d.squads
         /\ \A c \in Blocks : x.block[c].holder = d.block[c].holder
         /\ Accounts(d) => Accounts(x)
<1>1. d \in Rows
  BY DEF Typed
<1>2. PICK old : old = d.block[b]
  OBVIOUS
<1>3. PICK new : new = [old EXCEPT !.shield = n]
  OBVIOUS
<1>4. old \in Block
  BY <1>1, <1>2, BlockIs
<1>5. new \in Block /\ new.holder = old.holder /\ new.corner = old.corner
  BY <1>3, <1>4 DEF Block
<1>6. PICK blocks : blocks = [d.block EXCEPT ![b] = new]
  OBVIOUS
<1>7. blocks \in [Blocks -> Block] /\ blocks[b] = new /\ \A c \in Blocks \ {b} : blocks[c] = d.block[c]
  BY <1>1, <1>5, <1>6, RowsParts
<1>8. x = [d EXCEPT !.block = blocks]
  BY <1>2, <1>3, <1>6
<1>9. x.crew = d.crew /\ x.war = d.war /\ x.squads = d.squads /\ x.block = blocks /\ x \in Rows
  BY <1>1, <1>7, <1>8, RowsParts DEF Rows
<1>10. \A c \in Blocks : x.block[c].holder = d.block[c].holder /\ x.block[c].corner = d.block[c].corner
  BY <1>2, <1>5, <1>7, <1>9
<1>11. Squads(x) = Squads(d)
  BY <1>9, SameSquads
<1>12. Later(d, x) /\ WarsSound(x)
  BY <1>9, <1>11, SameWars DEF Later, SameSquad, SameWar, Typed
<1>13. \A i \in Squads(x) : SquadSound(x.squads[i])
  BY <1>9, <1>11 DEF Typed, SquadsOf
<1>14. Typed(x)
  BY <1>9, <1>12, <1>13, StillTyped
<1>15. Accounts(d) => Accounts(x)
  <2>1. SUFFICES ASSUME Accounts(d), NEW p \in Players
        PROVE  /\ x.crew[p].guns + Manned(x, p) + Carried(x, p) = StartCrew[p]
               /\ x.crew[p].busy = Out(x, p)
               /\ x.crew[p].posted + LeftPosted(x, p) >= Manned(x, p)
    BY DEF Accounts
  <2>2. Held(x, p) = Held(d, p) /\ \A c \in Held(d, p) : x.block[c].corner = d.block[c].corner
    BY <1>10 DEF Held
  <2>3. Manned(x, p) = Manned(d, p)
    BY <2>2, SameManned
  <2>4. SameLedger(d, x)
    BY <1>9, <1>11 DEF SameLedger
  <2>5. Carried(x, p) = Carried(d, p) /\ Out(x, p) = Out(d, p) /\ LeftPosted(x, p) = LeftPosted(d, p)
    BY <2>4, SameLedgerSums
  <2> QED
    BY <1>9, <2>1, <2>3, <2>5 DEF Accounts
<1> QED
  BY <1>9, <1>10, <1>12, <1>14, <1>15

Reasons == {"CONTROL", "CONCEDED", "WITHDREW", "TIMEOUT", "ABANDONED", "CUTOFF"}

\* A war is over: who is left in it is the declarer's, and the block was taken in it or not at all.
Closed(d, x, w, at, winner, reason) ==
  /\ Typed(x) /\ Later(d, x) /\ Squads(x) = Squads(d)
  /\ \A v \in Wars \ {w} : x.war[v] = d.war[v]
  /\ x.war[w].status = "ENDED" /\ x.war[w].winner = winner /\ x.war[w].reason = reason
  /\ x.war[w].endedAt = at /\ x.war[w].fight = d.war[w].fight
  /\ \A i \in Squads(d) \ Active(d, w) : x.squads[i] = d.squads[i]
  /\ \A i \in Active(d, w) : x.squads[i].active /\ x.squads[i].thugs > 0 =>
       x.squads[i].role = "DECLARER" /\ x.war[w].goal = "TAKE" /\ winner = "ATTACKER"
  /\ \A b \in Blocks :
       \/ x.block[b].holder = d.block[b].holder
       \/ /\ b = d.war[w].block /\ winner = "ATTACKER" /\ d.war[w].goal = "TAKE"
          /\ x.block[b].holder = d.war[w].attacker
  /\ Accounts(d) => Accounts(x)

LEMMA EndedIs ==
  ASSUME NEW d, Typed(d), NEW w \in Wars, Live(d, w), NEW at \in Nat, NEW winner \in Sides \cup {None},
         NEW reason \in Reasons, NEW x, x = Ended(d, w, at, winner, reason)
  PROVE  Closed(d, x, w, at, winner, reason)
<1>1. d \in Rows /\ d.war[w] # None /\ d.war[w].block \in Blocks
  BY WarIs DEF Typed, Live
<1>2. PICK old : old = d.war[w]
  OBVIOUS
<1>3. PICK taken \in BOOLEAN : taken <=> (winner = "ATTACKER" /\ old.goal = "TAKE")
  OBVIOUS
<1>4. PICK e : e = IF taken THEN Taken(d, w, at)
                   ELSE IF winner = None THEN d
                   ELSE [d EXCEPT !.block[old.block].shield = at + Truce]
  OBVIOUS
<1>5. /\ Typed(e) /\ Later(d, e) /\ Squads(e) = Squads(d) /\ e.war = d.war
      /\ \A i \in Squads(d) : \/ e.squads[i] = d.squads[i]
                              \/ taken /\ i \in Declaring(d, w) /\ ~e.squads[i].active
      /\ \A b \in Blocks :
           \/ e.block[b].holder = d.block[b].holder
           \/ /\ b = d.war[w].block /\ winner = "ATTACKER" /\ d.war[w].goal = "TAKE"
              /\ e.block[b].holder = d.war[w].attacker
      /\ Accounts(d) => Accounts(e)
  <2>1. CASE taken
    <3>1. e = Taken(d, w, at)
      BY <1>4, <2>1
    <3>2. Captured(d, e, w)
      BY <1>1, <3>1, TakenIs
    <3> QED
      BY <1>2, <1>3, <2>1, <3>2 DEF Captured, BlockOf
  <2>2. CASE ~taken /\ winner = None
    <3>1. e = d
      BY <1>4, <2>2
    <3> QED
      BY <3>1, LaterSelf
  <2>3. CASE ~taken /\ winner # None
    <3>1. PICK n : n = at + Truce
      OBVIOUS
    <3>2. n \in Nat
      BY <3>1, Numerals
    <3>3. PICK b : b = d.war[w].block
      OBVIOUS
    <3>4. e = [d EXCEPT !.block[b].shield = n] /\ b \in Blocks
      BY <1>1, <1>2, <1>4, <2>3, <3>1, <3>3
    <3>5. /\ Typed(e) /\ Later(d, e) /\ e.war = d.war /\ e.squads = d.squads
          /\ \A c \in Blocks : e.block[c].holder = d.block[c].holder
          /\ Accounts(d) => Accounts(e)
      BY <3>2, <3>4, ShieldIs
    <3>6. Squads(e) = Squads(d)
      BY <3>5, SameSquads
    <3> QED
      BY <3>5, <3>6
  <2> QED
    BY <2>1, <2>2, <2>3
<1>6. PICK home : home = IF taken THEN Active(e, w) \ Declaring(e, w) ELSE Active(e, w)
  OBVIOUS
<1>7. home \subseteq Squads(e)
  BY <1>6 DEF Active
<1>8. PICK rows : rows = Released(e, home)
  OBVIOUS
<1>9. /\ rows \in Rows /\ rows.block = e.block /\ rows.war = e.war
      /\ Squads(rows) = Squads(e) /\ Later(e, rows) /\ Typed(rows)
      /\ \A i \in Squads(e) \ home : rows.squads[i] = e.squads[i]
      /\ \A i \in home : ~rows.squads[i].active
      /\ Accounts(e) => Accounts(rows)
  BY <1>5, <1>7, <1>8, ReleasedIs
<1>10. PICK new : new = [old EXCEPT !.status = "ENDED", !.winner = winner, !.reason = reason, !.endedAt = at,
                                    !.control = 0, !.controlAt = 0, !.nextAssaultAt = 0,
                                    !.callUntil = [side \in Sides |-> 0]]
  OBVIOUS
<1>11. old \in War
  BY <1>1, <1>2, WarIs
<1>12. new \in War
  BY <1>10, <1>11 DEF War, Reasons
<1>13. /\ SameWar(old, new) /\ new.control = 0 /\ new.status = "ENDED" /\ new.winner = winner
       /\ new.reason = reason /\ new.endedAt = at /\ new.fight = old.fight /\ new.goal = old.goal
  BY <1>10, <1>11 DEF War, SameWar
<1>14. x = [rows EXCEPT !.war[w] = new]
  BY <1>2, <1>3, <1>4, <1>6, <1>8, <1>10 DEF Ended
<1>15. JustWar(rows, x, w) /\ x.war[w] = new
  BY <1>9, <1>12, <1>14, SetWar
<1>16. /\ Typed(x) /\ Later(rows, x) /\ Squads(x) = Squads(rows) /\ (Accounts(rows) => Accounts(x))
  <2>1. 0 <= Full
    BY Numerals
  <2> QED
    BY <1>1, <1>2, <1>5, <1>9, <1>12, <1>13, <1>15, <2>1, WarTyped
<1>17. x.block = rows.block /\ x.squads = rows.squads /\ \A v \in Wars \ {w} : x.war[v] = rows.war[v]
  BY <1>15 DEF JustWar
<1>18. Later(d, x)
  BY <1>5, <1>9, <1>16, LaterStill
<1>19. \A i \in Squads(d) \ Active(d, w) : x.squads[i] = d.squads[i]
  <2>1. SUFFICES ASSUME NEW i \in Squads(d) \ Active(d, w) PROVE x.squads[i] = d.squads[i]
    OBVIOUS
  <2>2. e.squads[i] = d.squads[i]
    BY <1>5 DEF Declaring
  <2>3. i \notin home
    BY <1>5, <1>6, <2>2 DEF Active
  <2> QED
    BY <1>5, <1>9, <1>17, <2>2, <2>3
<1>20. ASSUME NEW i \in Active(d, w), x.squads[i].active
       PROVE  x.squads[i].role = "DECLARER" /\ taken
  <2>1. i \in Squads(d) /\ d.squads[i].war = w /\ d.squads[i].active
    BY DEF Active
  <2>2. i \notin home /\ x.squads[i] = e.squads[i] /\ e.squads[i] = d.squads[i]
    BY <1>5, <1>9, <1>17, <1>20, <2>1
  <2>3. i \in Active(e, w)
    BY <1>5, <2>1, <2>2 DEF Active
  <2> QED
    BY <1>6, <2>2, <2>3 DEF Declaring
<1>21. \A i \in Active(d, w) : x.squads[i].active /\ x.squads[i].thugs > 0 =>
         x.squads[i].role = "DECLARER" /\ x.war[w].goal = "TAKE" /\ winner = "ATTACKER"
  BY <1>3, <1>13, <1>15, <1>20
<1> QED
  BY <1>2, <1>5, <1>9, <1>13, <1>15, <1>16, <1>17, <1>18, <1>19, <1>21 DEF Closed

-----------------------------------------------------------------------------
(* What settling keeps *)

NoneBehind(d) ==
  \A i \in Squads(d) :
    LET squad == d.squads[i]
        war == d.war[squad.war]
    IN  squad.active /\ squad.thugs > 0 =>
          IF Live(d, squad.war)
          THEN war.fight # None \/ (squad.side = "ATTACKER" /\ war.status = "SIEGE")
          ELSE squad.role = "DECLARER" /\ war.goal = "TAKE" /\ war.winner = "ATTACKER"

EndedInTime(d) ==
  \A w \in Wars : d.war[w] # None /\ ~Live(d, w) =>
    /\ d.war[w].endedAt <= d.war[w].endsBy
    /\ d.war[w].reason # "ABANDONED" /\ d.war[w].fight # None => d.war[w].fight.landsAt >= d.war[w].endedAt

\* w was won to take b from its holder.
Lost(d, x, w, b) ==
  /\ Live(d, w) /\ x.war[w].status = "ENDED" /\ x.war[w].winner = "ATTACKER" /\ x.war[w].goal = "TAKE"
  /\ d.war[w].block = b /\ d.war[w].attacker = x.block[b].holder /\ d.war[w].defender = d.block[b].holder

Passed(d, x) ==
  \A b \in Blocks : \/ x.block[b].holder = d.block[b].holder \/ x.block[b].holder = None
                    \/ \E w \in Wars : Lost(d, x, w, b)

\* A war that is over stays as it is, what held holds, and no block is had but by a war.
Settles(d, x) ==
  /\ Typed(x) /\ Later(d, x)
  /\ \A v \in Wars : ~Live(d, v) => x.war[v] = d.war[v]
  /\ Accounts(d) => Accounts(x)
  /\ NoneBehind(d) => NoneBehind(x)
  /\ EndedInTime(d) => EndedInTime(x)
  /\ Passed(d, x)

LEMMA SettlesSelf == ASSUME NEW d, Typed(d) PROVE Settles(d, d)
  BY LaterSelf DEF Settles, Passed

LEMMA LiveBefore ==
  ASSUME NEW d, NEW x, Settles(d, x), NEW w \in Wars, Live(x, w)
  PROVE  Live(d, w)
  BY DEF Settles, Live

LEMMA SettlesOne ==
  ASSUME NEW d, NEW x, Settles(d, x), OneWarEach(d)
  PROVE  OneWarEach(x)
<1>1. SUFFICES ASSUME NEW v \in LiveWars(x), NEW w \in LiveWars(x), x.war[v].block = x.war[w].block
      PROVE  v = w
  BY DEF OneWarEach
<1>2. v \in Wars /\ w \in Wars /\ Live(d, v) /\ Live(d, w)
  BY LiveBefore DEF LiveWars
<1>3. v \in LiveWars(d) /\ w \in LiveWars(d)
  BY <1>2 DEF LiveWars
<1>4. d.war[v].block = x.war[v].block /\ d.war[w].block = x.war[w].block
  BY <1>2 DEF Settles, Later, SameWar, Live
<1> QED
  BY <1>1, <1>3, <1>4 DEF OneWarEach

LEMMA PassedOn ==
  ASSUME NEW d, Typed(d), OneWarEach(d), NEW e, Settles(d, e), NEW x, Settles(e, x)
  PROVE  Passed(d, x)
<1>1. SUFFICES ASSUME NEW b \in Blocks, x.block[b].holder # d.block[b].holder, x.block[b].holder # None
      PROVE  \E w \in Wars : Lost(d, x, w, b)
  BY DEF Passed
<1>2. CASE e.block[b].holder = d.block[b].holder
  <2>1. PICK w \in Wars : Lost(e, x, w, b)
    BY <1>1, <1>2 DEF Settles, Passed
  <2>2. Live(d, w)
    BY <2>1, LiveBefore DEF Lost
  <2>3. d.war[w].block = e.war[w].block /\ d.war[w].attacker = e.war[w].attacker /\ d.war[w].defender = e.war[w].defender
    BY <2>2 DEF Settles, Later, SameWar, Live
  <2> QED
    BY <1>2, <2>1, <2>2, <2>3 DEF Lost
<1>3. CASE e.block[b].holder # d.block[b].holder /\ x.block[b].holder = e.block[b].holder
  <2>1. PICK w \in Wars : Lost(d, e, w, b)
    BY <1>1, <1>3 DEF Settles, Passed
  <2>2. x.war[w] = e.war[w]
    BY <2>1 DEF Lost, Live, Settles
  <2> QED
    BY <1>3, <2>1, <2>2 DEF Lost
<1>4. CASE e.block[b].holder # d.block[b].holder /\ x.block[b].holder # e.block[b].holder
  <2>1. PICK w \in Wars : Lost(e, x, w, b)
    BY <1>1, <1>4 DEF Settles, Passed
  <2>2. Live(d, w) /\ Live(e, w)
    BY <2>1, LiveBefore DEF Lost
  <2>3. d.war[w].block = b /\ e.war[w].defender = e.block[b].holder /\ e.war[w] # None
    BY <2>1, <2>2 DEF Settles, Later, SameWar, Live, Lost
  <2>4. e.block[b].holder # None
    <3>1. e \in Rows
      BY DEF Settles, Typed
    <3>2. e.war[w].defender \in Players
      BY <2>3, <3>1, WarIs
    <3> QED
      BY <2>3, <3>2, NoneIsNone
  <2>5. PICK v \in Wars : Lost(d, e, v, b)
    BY <1>4, <2>4 DEF Settles, Passed
  <2>6. v \in LiveWars(d) /\ w \in LiveWars(d) /\ d.war[v].block = d.war[w].block
    BY <2>2, <2>3, <2>5 DEF Lost, LiveWars
  <2>7. v = w
    BY <2>6 DEF OneWarEach
  <2> QED
    BY <2>2, <2>5, <2>7 DEF Lost, Live
<1> QED
  BY <1>2, <1>3, <1>4

LEMMA SettlesOn ==
  ASSUME NEW d, Typed(d), OneWarEach(d), NEW e, Settles(d, e), NEW x, Settles(e, x)
  PROVE  Settles(d, x)
<1>1. Later(d, x)
  BY LaterStill DEF Settles
<1>2. \A v \in Wars : ~Live(d, v) => x.war[v] = d.war[v]
  BY DEF Settles, Live
<1>3. Passed(d, x)
  BY PassedOn
<1>4. Typed(x) /\ (Accounts(d) => Accounts(x))
  BY DEF Settles
<1>5. (NoneBehind(d) => NoneBehind(x)) /\ (EndedInTime(d) => EndedInTime(x))
  BY DEF Settles
<1> QED
  BY <1>1, <1>2, <1>3, <1>4, <1>5 DEF Settles

\* Rows whose squads stand as they did, and wars as far as this goes.
LEMMA StillBehind ==
  ASSUME NEW d, Typed(d), NEW x, NoneBehind(d), Later(d, x), NEW w \in Wars,
         \A v \in Wars \ {w} : x.war[v] = d.war[v],
         \A i \in Squads(x) : x.squads[i].active /\ x.squads[i].thugs > 0 =>
           IF x.squads[i].war # w THEN x.squads[i] = d.squads[i]
           ELSE IF Live(x, w)
           THEN x.war[w].fight # None \/ (x.squads[i].side = "ATTACKER" /\ x.war[w].status = "SIEGE")
           ELSE x.squads[i].role = "DECLARER" /\ x.war[w].goal = "TAKE" /\ x.war[w].winner = "ATTACKER"
  PROVE  NoneBehind(x)
<1>1. SUFFICES ASSUME NEW i \in Squads(x), x.squads[i].active, x.squads[i].thugs > 0
      PROVE  IF Live(x, x.squads[i].war)
             THEN x.war[x.squads[i].war].fight # None
                  \/ (x.squads[i].side = "ATTACKER" /\ x.war[x.squads[i].war].status = "SIEGE")
             ELSE /\ x.squads[i].role = "DECLARER" /\ x.war[x.squads[i].war].goal = "TAKE"
                  /\ x.war[x.squads[i].war].winner = "ATTACKER"
  BY DEF NoneBehind
<1>2. CASE x.squads[i].war = w
  BY <1>1, <1>2
<1>3. CASE x.squads[i].war # w
  <2>1. i \in Squads(d) /\ x.squads[i] = d.squads[i]
    BY <1>1, <1>3 DEF Later
  <2>2. PICK v : v = d.squads[i].war
    OBVIOUS
  <2>3. v \in Wars \ {w}
    BY <1>3, <2>1, <2>2, SquadIs DEF Typed
  <2>4. x.war[v] = d.war[v] /\ (Live(x, v) <=> Live(d, v))
    BY <2>3 DEF Live
  <2>5. IF Live(d, v)
        THEN d.war[v].fight # None \/ (d.squads[i].side = "ATTACKER" /\ d.war[v].status = "SIEGE")
        ELSE d.squads[i].role = "DECLARER" /\ d.war[v].goal = "TAKE" /\ d.war[v].winner = "ATTACKER"
    BY <1>1, <2>1, <2>2 DEF NoneBehind
  <2> QED
    BY <2>1, <2>2, <2>4, <2>5
<1> QED
  BY <1>2, <1>3

LEMMA ClockedSettles ==
  ASSUME NEW d, Typed(d), NEW w \in Wars, Live(d, w), NEW x, JustWar(d, x, w),
         Clocked(d.war[w], x.war[w]), x.war[w].control <= Full
  PROVE  Settles(d, x)
<1>1. d \in Rows /\ d.war[w] # None
  BY DEF Typed, Live
<1>2. Typed(x) /\ Later(d, x) /\ \A v \in Wars : Live(x, v) <=> Live(d, v)
  BY <1>1, ClockedTyped, LaterClocked
<1>3. \A v \in Wars : ~Live(d, v) => x.war[v] = d.war[v]
  BY DEF JustWar
<1>4. Squads(x) = Squads(d) /\ x.squads = d.squads /\ x.crew = d.crew /\ x.block = d.block
  BY SameSquads DEF JustWar
<1>5. SameLedger(d, x)
  BY <1>4 DEF SameLedger
<1>6. Accounts(d) => Accounts(x)
  BY <1>4, <1>5, AccountsSame
<1>7. ASSUME NoneBehind(d) PROVE NoneBehind(x)
  <2>1. ASSUME NEW i \in Squads(x), x.squads[i].active, x.squads[i].thugs > 0
        PROVE  IF x.squads[i].war # w THEN x.squads[i] = d.squads[i]
               ELSE IF Live(x, w)
               THEN x.war[w].fight # None \/ (x.squads[i].side = "ATTACKER" /\ x.war[w].status = "SIEGE")
               ELSE x.squads[i].role = "DECLARER" /\ x.war[w].goal = "TAKE" /\ x.war[w].winner = "ATTACKER"
    BY <1>2, <1>4, <1>7, <2>1 DEF NoneBehind, Clocked
  <2>2. \A v \in Wars \ {w} : x.war[v] = d.war[v]
    BY DEF JustWar
  <2> QED
    BY <1>2, <1>7, <2>1, <2>2, StillBehind
<1>8. EndedInTime(d) => EndedInTime(x)
  BY <1>2, <1>3 DEF EndedInTime
<1>9. Passed(d, x)
  BY <1>4 DEF Passed
<1> QED
  BY <1>2, <1>3, <1>6, <1>7, <1>8, <1>9 DEF Settles

LEMMA TickedSettles ==
  ASSUME NEW d, Typed(d), NEW w \in Wars, Live(d, w), NEW to \in Nat, NEW x, x = Ticked(d, w, to)
  PROVE  /\ Settles(d, x) /\ Typed(x) /\ Live(x, w) /\ JustWar(d, x, w) /\ Clocked(d.war[w], x.war[w])
<1>1. d.war[w] # None
  BY DEF Live
<1>2. /\ JustWar(d, x, w) /\ Clocked(d.war[w], x.war[w]) /\ x.war[w].control <= Full
      /\ Typed(x) /\ \A v \in Wars : Live(x, v) <=> Live(d, v)
  BY <1>1, TickedWar
<1> QED
  BY <1>2, ClockedSettles

LEMMA FoughtSettles ==
  ASSUME NEW d, Typed(d), NEW w \in Wars, Live(d, w), NEW x, AfterFight(d, x, w)
  PROVE  Settles(d, x)
<1>1. Typed(x) /\ Later(d, x) /\ (Accounts(d) => Accounts(x)) /\ Live(x, w)
  BY DEF AfterFight
<1>2. \A v \in Wars : ~Live(d, v) => x.war[v] = d.war[v]
  BY DEF AfterFight
<1>3. ASSUME NoneBehind(d) PROVE NoneBehind(x)
  <2>1. ASSUME NEW i \in Squads(x), x.squads[i].active, x.squads[i].thugs > 0
        PROVE  IF x.squads[i].war # w THEN x.squads[i] = d.squads[i]
               ELSE IF Live(x, w)
               THEN x.war[w].fight # None \/ (x.squads[i].side = "ATTACKER" /\ x.war[w].status = "SIEGE")
               ELSE x.squads[i].role = "DECLARER" /\ x.war[w].goal = "TAKE" /\ x.war[w].winner = "ATTACKER"
    <3>1. i \in Squads(d) /\ SameSquad(d.squads[i], x.squads[i])
      BY <1>1 DEF Later
    <3>2. CASE i \in Active(d, w)
      <4>1. x.squads[i].side = "ATTACKER" /\ x.war[w].status = "SIEGE"
        BY <2>1, <3>2 DEF AfterFight
      <4>2. x.squads[i].war = w
        BY <3>1, <3>2 DEF Active, SameSquad
      <4> QED
        BY <1>1, <4>1, <4>2
    <3>3. CASE i \notin Active(d, w)
      <4>1. x.squads[i] = d.squads[i]
        BY <3>1, <3>3 DEF AfterFight
      <4>2. x.squads[i].war # w
        BY <2>1, <3>1, <3>3, <4>1 DEF Active
      <4> QED
        BY <4>1, <4>2
    <3> QED
      BY <3>2, <3>3
  <2>2. \A v \in Wars \ {w} : x.war[v] = d.war[v]
    BY DEF AfterFight
  <2> QED
    BY <1>1, <1>3, <2>1, <2>2, StillBehind
<1>4. EndedInTime(d) => EndedInTime(x)
  <2>1. \A v \in Wars \ {w} : x.war[v] = d.war[v]
    BY DEF AfterFight
  <2> QED
    BY <1>1, <2>1 DEF EndedInTime, Live
<1>5. Passed(d, x)
  BY DEF AfterFight, Passed
<1> QED
  BY <1>1, <1>2, <1>3, <1>4, <1>5 DEF Settles

LEMMA ClosedSettles ==
  ASSUME NEW d, Typed(d), NEW w \in Wars, Live(d, w), NEW at \in Nat, NEW winner, NEW reason,
         NEW x, Closed(d, x, w, at, winner, reason), at <= d.war[w].endsBy,
         reason # "ABANDONED" /\ d.war[w].fight # None => d.war[w].fight.landsAt >= at,
         winner = "ATTACKER" => BlockOf(d, w).holder = d.war[w].defender
  PROVE  Settles(d, x) /\ ~Live(x, w)
<1>1. Typed(x) /\ Later(d, x) /\ (Accounts(d) => Accounts(x)) /\ ~Live(x, w)
  BY DEF Closed, Live
<1>2. \A v \in Wars : ~Live(d, v) => x.war[v] = d.war[v]
  BY DEF Closed
<1>3. \A v \in Wars \ {w} : x.war[v] = d.war[v]
  BY DEF Closed
<1>4. ASSUME NoneBehind(d) PROVE NoneBehind(x)
  <2>1. ASSUME NEW i \in Squads(x), x.squads[i].active, x.squads[i].thugs > 0
        PROVE  IF x.squads[i].war # w THEN x.squads[i] = d.squads[i]
               ELSE IF Live(x, w)
               THEN x.war[w].fight # None \/ (x.squads[i].side = "ATTACKER" /\ x.war[w].status = "SIEGE")
               ELSE x.squads[i].role = "DECLARER" /\ x.war[w].goal = "TAKE" /\ x.war[w].winner = "ATTACKER"
    <3>1. i \in Squads(d) /\ SameSquad(d.squads[i], x.squads[i])
      BY <1>1 DEF Later
    <3>2. CASE i \in Active(d, w)
      <4>1. x.squads[i].role = "DECLARER" /\ x.war[w].goal = "TAKE" /\ x.war[w].winner = "ATTACKER"
        BY <2>1, <3>2 DEF Closed
      <4>2. x.squads[i].war = w
        BY <3>1, <3>2 DEF Active, SameSquad
      <4> QED
        BY <1>1, <4>1, <4>2
    <3>3. CASE i \notin Active(d, w)
      <4>1. x.squads[i] = d.squads[i]
        BY <3>1, <3>3 DEF Closed
      <4>2. x.squads[i].war # w
        BY <2>1, <3>1, <3>3, <4>1 DEF Active
      <4> QED
        BY <4>1, <4>2
    <3> QED
      BY <3>2, <3>3
  <2> QED
    BY <1>1, <1>3, <1>4, <2>1, StillBehind
<1>5. d.war[w] # None /\ x.war[w] # None
  BY <1>1 DEF Live, Later
<1>6. x.war[w].endsBy = d.war[w].endsBy /\ x.war[w].goal = d.war[w].goal
  BY <1>1, <1>5 DEF Later, SameWar
<1>7. ASSUME EndedInTime(d) PROVE EndedInTime(x)
  <2>1. x.war[w].endedAt = at /\ x.war[w].fight = d.war[w].fight /\ x.war[w].reason = reason
    BY DEF Closed
  <2>2. SUFFICES ASSUME NEW v \in Wars, x.war[v] # None, ~Live(x, v)
        PROVE /\ x.war[v].endedAt <= x.war[v].endsBy
              /\ x.war[v].reason # "ABANDONED" /\ x.war[v].fight # None =>
                   x.war[v].fight.landsAt >= x.war[v].endedAt
    BY DEF EndedInTime
  <2>3. CASE v = w
    BY <1>6, <2>1, <2>3
  <2>4. CASE v # w
    <3>1. x.war[v] = d.war[v] /\ ~Live(d, v)
      BY <1>3, <2>2, <2>4 DEF Live
    <3> QED
      BY <1>7, <2>2, <3>1 DEF EndedInTime
  <2> QED
    BY <2>3, <2>4
<1>8. Passed(d, x)
  <2>1. SUFFICES ASSUME NEW b \in Blocks, x.block[b].holder # d.block[b].holder
        PROVE  Lost(d, x, w, b)
    BY DEF Passed
  <2>2. /\ b = d.war[w].block /\ winner = "ATTACKER" /\ d.war[w].goal = "TAKE"
        /\ x.block[b].holder = d.war[w].attacker
    BY <2>1 DEF Closed
  <2>3. x.war[w].status = "ENDED" /\ x.war[w].winner = "ATTACKER" /\ x.war[w].goal = "TAKE"
    BY <1>6, <2>2 DEF Closed
  <2>4. d.war[w].defender = d.block[b].holder
    BY <2>2 DEF BlockOf
  <2> QED
    BY <2>2, <2>3, <2>4 DEF Lost
<1> QED
  BY <1>1, <1>2, <1>4, <1>7, <1>8 DEF Settles

-----------------------------------------------------------------------------
(* A war walked forward *)

\* Ending a war after its Control was brought to a time.
LEMMA EndsClocked ==
  ASSUME NEW d, Typed(d), OneWarEach(d), NEW w \in Wars, Live(d, w),
         NEW e, JustWar(d, e, w), Clocked(d.war[w], e.war[w]), e.war[w].control <= Full,
         NEW at \in Nat, at <= d.war[w].endsBy, NEW winner \in Sides \cup {None}, NEW reason \in Reasons,
         reason # "ABANDONED" /\ d.war[w].fight # None => d.war[w].fight.landsAt >= at,
         winner = "ATTACKER" => BlockOf(d, w).holder = d.war[w].defender,
         NEW x, x = Ended(e, w, at, winner, reason)
  PROVE  Settles(d, x) /\ ~Live(x, w)
<1>1. Settles(d, e)
  BY ClockedSettles
<1>2. Typed(e) /\ Live(e, w)
  BY <1>1 DEF Settles, Live, Clocked
<1>3. Closed(e, x, w, at, winner, reason)
  BY <1>2, EndedIs
<1>4. BlockOf(e, w) = BlockOf(d, w)
  BY DEF BlockOf, JustWar, Clocked
<1>5. e.war[w].endsBy = d.war[w].endsBy /\ e.war[w].fight = d.war[w].fight /\ e.war[w].defender = d.war[w].defender
  BY DEF Clocked
<1>6. Settles(e, x) /\ ~Live(x, w)
  BY <1>2, <1>3, <1>4, <1>5, ClosedSettles
<1> QED
  BY <1>1, <1>6, SettlesOn

Endings == {<<"ATTACKER", "CONCEDED">>, <<"DEFENDER", "WITHDREW">>, <<"DEFENDER", "CUTOFF">>}

\* Control is full or the time is up.
RunOut(d, w, now) ==
  \/ d.war[w].endsBy <= now
  \/ d.war[w].status = "SIEGE" /\ FullAt(d, w) <= now /\ FullAt(d, w) <= d.war[w].endsBy

LEMMA FinishedIs ==
  ASSUME NEW d, Typed(d), OneWarEach(d), NEW w \in Wars, Live(d, w),
         BlockOf(d, w).holder = d.war[w].defender, NEW now \in Nat, NEW ending \in Endings \cup {None},
         ~FightNext(d, w, now), NEW x, x = Finished(d, w, now, ending)
  PROVE  Settles(d, x) /\ (RunOut(d, w, now) => ~Live(x, w))
<1>1. /\ d \in Rows /\ d.war[w] # None /\ d.war[w].endsBy \in Nat
      /\ d.war[w].status \in {"OPENING", "BETWEEN", "SIEGE", "ENDED"}
  BY WarIs DEF Typed, Live
<1>2. PICK full : full = FullAt(d, w)
  OBVIOUS
<1>3. full \in Nat
  BY <1>1, <1>2, FullNat
<1>4. d.war[w].fight # None =>
        /\ d.war[w].fight.landsAt \in Nat
        /\ \/ d.war[w].fight.landsAt > now
           \/ d.war[w].fight.landsAt > d.war[w].endsBy
           \/ d.war[w].status = "SIEGE" /\ d.war[w].fight.landsAt >= full
  BY <1>1, <1>2, <1>3, FightIs DEF FightNext
<1>5. CASE d.war[w].status = "SIEGE" /\ full <= now /\ full <= d.war[w].endsBy
  <2>1. PICK t : t = Ticked(d, w, full)
    OBVIOUS
  <2>2. Typed(t) /\ JustWar(d, t, w) /\ Clocked(d.war[w], t.war[w])
    BY <1>3, <2>1, TickedSettles
  <2>3. PICK old : old = t.war[w]
    OBVIOUS
  <2>4. PICK new : new = [old EXCEPT !.control = Full]
    OBVIOUS
  <2>5. old \in War /\ t \in Rows
    BY <2>2, <2>3 DEF Clocked, Typed
  <2>6. new \in War
    BY <2>4, <2>5, Numerals DEF War
  <2>7. Clocked(old, new) /\ new.control = Full
    BY <2>4, <2>5, <2>6, NoneIsNone DEF Clocked, War
  <2>8. PICK e : e = [t EXCEPT !.war[w] = new]
    OBVIOUS
  <2>9. JustWar(t, e, w) /\ e.war[w] = new
    BY <2>5, <2>6, <2>8, SetWar
  <2>10. JustWar(d, e, w) /\ Clocked(d.war[w], e.war[w]) /\ e.war[w].control <= Full
    BY <2>2, <2>3, <2>7, <2>9, Numerals DEF JustWar, Clocked
  <2>11. e = [t EXCEPT !.war[w].control = Full]
    BY <2>3, <2>4, <2>8
  <2>12. x = Ended(e, w, full, "ATTACKER", "CONTROL")
    BY <1>2, <1>5, <2>1, <2>11 DEF Finished
  <2>13. "ATTACKER" \in Sides \cup {None} /\ "CONTROL" \in Reasons
    BY DEF Sides, Reasons
  <2>14. d.war[w].fight # None => d.war[w].fight.landsAt >= full
    BY <1>1, <1>3, <1>4, <1>5
  <2> QED
    BY <1>3, <1>5, <2>10, <2>12, <2>13, <2>14, EndsClocked
<1>6. ASSUME ~(d.war[w].status = "SIEGE" /\ full <= now /\ full <= d.war[w].endsBy), NEW at \in Nat,
             NEW winner \in Sides, NEW reason \in Reasons, x = Ended(Ticked(d, w, at), w, at, winner, reason),
             at <= now, at <= d.war[w].endsBy, at = now \/ at = d.war[w].endsBy
      PROVE  Settles(d, x) /\ ~Live(x, w)
  <2>1. PICK e : e = Ticked(d, w, at)
    OBVIOUS
  <2>2. JustWar(d, e, w) /\ Clocked(d.war[w], e.war[w])
    BY <2>1, TickedSettles
  <2>3. e.war[w].control <= Full
    BY <1>1, <2>1, TickedWar
  <2>4. d.war[w].fight # None => d.war[w].fight.landsAt >= at
    BY <1>1, <1>3, <1>4, <1>6
  <2>5. x = Ended(e, w, at, winner, reason)
    BY <1>6, <2>1
  <2>6. winner \in Sides \cup {None}
    OBVIOUS
  <2> QED
    BY <1>6, <2>2, <2>3, <2>4, <2>5, <2>6, EndsClocked
<1>7. CASE ~(d.war[w].status = "SIEGE" /\ full <= now /\ full <= d.war[w].endsBy) /\ d.war[w].endsBy <= now
  <2>1. x = Ended(Ticked(d, w, d.war[w].endsBy), w, d.war[w].endsBy, "DEFENDER", "TIMEOUT")
    BY <1>2, <1>7 DEF Finished
  <2>2. "DEFENDER" \in Sides /\ "TIMEOUT" \in Reasons
    BY DEF Sides, Reasons
  <2>3. d.war[w].endsBy <= d.war[w].endsBy
    BY <1>1
  <2> QED
    BY <1>1, <1>6, <1>7, <2>1, <2>2, <2>3
<1>8. CASE /\ ~(d.war[w].status = "SIEGE" /\ full <= now /\ full <= d.war[w].endsBy)
           /\ ~(d.war[w].endsBy <= now) /\ ending # None
  <2>1. x = Ended(Ticked(d, w, now), w, now, ending[1], ending[2])
    BY <1>2, <1>8 DEF Finished
  <2>2. ending[1] \in Sides /\ ending[2] \in Reasons
    BY <1>8 DEF Sides, Reasons, Endings
  <2>3. now <= now /\ now <= d.war[w].endsBy
    BY <1>1, <1>8
  <2> QED
    BY <1>6, <1>8, <2>1, <2>2, <2>3
<1>9. CASE /\ ~(d.war[w].status = "SIEGE" /\ full <= now /\ full <= d.war[w].endsBy)
           /\ ~(d.war[w].endsBy <= now) /\ ending = None
  <2>1. x = Ticked(d, w, now)
    BY <1>2, <1>9 DEF Finished
  <2> QED
    BY <1>2, <1>9, <2>1, TickedSettles DEF RunOut
<1> QED
  BY <1>5, <1>7, <1>8, <1>9

LEMMA AdvancedIs ==
  ASSUME NEW d, Typed(d), OneWarEach(d), NEW w \in Wars, NEW now \in Nat,
         NEW ending \in Endings \cup {None}, NEW x \in Advanced(d, w, now, ending)
  PROVE  Settles(d, x) /\ (Live(d, w) /\ d.war[w].endsBy <= now => ~Live(x, w))
<1>1. CASE ~Live(d, w)
  <2>1. x = d
    BY <1>1 DEF Advanced
  <2> QED
    BY <1>1, <2>1, SettlesSelf
<1>2. CASE Live(d, w) /\ BlockOf(d, w).holder # d.war[w].defender
  <2>1. d \in Rows /\ d.war[w] # None /\ d.war[w].endsBy \in Nat
    BY <1>2, WarIs DEF Typed, Live
  <2>2. PICK at : at = AbandonedAt(d, w, now)
    OBVIOUS
  <2>3. at \in Nat /\ at <= d.war[w].endsBy
    BY <2>1, <2>2 DEF AbandonedAt, Least
  <2>4. x = Ended(d, w, at, None, "ABANDONED")
    BY <1>2, <2>2 DEF Advanced
  <2>5. None \in Sides \cup {None} /\ "ABANDONED" \in Reasons
    BY DEF Reasons
  <2>6. Closed(d, x, w, at, None, "ABANDONED")
    BY <1>2, <2>3, <2>4, <2>5, EndedIs
  <2>7. None # "ATTACKER"
    BY NoneIsNone DEF Sides
  <2> QED
    BY <1>2, <2>3, <2>6, <2>7, ClosedSettles
<1>3. CASE Live(d, w) /\ BlockOf(d, w).holder = d.war[w].defender /\ ~FightNext(d, w, now)
  <2>1. x = Finished(d, w, now, ending)
    BY <1>3 DEF Advanced
  <2> QED
    BY <1>3, <2>1, FinishedIs DEF RunOut
<1>4. CASE Live(d, w) /\ BlockOf(d, w).holder = d.war[w].defender /\ FightNext(d, w, now)
  <2>1. d \in Rows /\ d.war[w] # None /\ d.war[w].fight # None /\ d.war[w].fight.landsAt \in Nat
    BY <1>4, FightIs DEF Typed, Live, FightNext
  <2>2. PICK e : e = Ticked(d, w, d.war[w].fight.landsAt)
    OBVIOUS
  <2>3. Settles(d, e) /\ Typed(e) /\ Live(e, w) /\ JustWar(d, e, w) /\ Clocked(d.war[w], e.war[w])
    BY <1>4, <2>1, <2>2, TickedSettles
  <2>4. PICK y \in Fought(e, w) : x = Finished(y, w, now, ending)
    BY <1>4, <2>2 DEF Advanced
  <2>5. e.war[w].fight # None
    BY <2>1, <2>3 DEF Clocked
  <2>6. AfterFight(e, y, w)
    BY <2>3, <2>4, <2>5, FoughtIs
  <2>7. Settles(e, y)
    BY <2>3, <2>6, FoughtSettles
  <2>8. Settles(d, y)
    BY <2>3, <2>7, SettlesOn
  <2>9. Typed(y) /\ OneWarEach(y) /\ Live(y, w) /\ ~FightNext(y, w, now)
    BY <2>6, <2>8, SettlesOne DEF AfterFight, FightNext
  <2>10. y.war[w].block = d.war[w].block /\ y.war[w].defender = d.war[w].defender /\ y.war[w].endsBy = d.war[w].endsBy
    BY <2>1, <2>8 DEF Settles, Later, SameWar
  <2>11. BlockOf(y, w).holder = y.war[w].defender
    <3>1. d.war[w].block \in Blocks
      BY <2>1, WarIs
    <3>2. y.block[d.war[w].block].holder = e.block[d.war[w].block].holder /\ e.block = d.block
      BY <2>3, <2>6, <3>1 DEF AfterFight, JustWar
    <3> QED
      BY <1>4, <2>10, <3>2 DEF BlockOf
  <2>12. Settles(y, x) /\ (y.war[w].endsBy <= now => ~Live(x, w))
    BY <2>4, <2>9, <2>11, FinishedIs DEF RunOut
  <2> QED
    BY <2>8, <2>10, <2>12, SettlesOn
<1> QED
  BY <1>1, <1>2, <1>3, <1>4

-----------------------------------------------------------------------------
(* A player's rows brought up to date *)

\* Nothing about the wars changes.
LEMMA AtHomeSettles ==
  ASSUME NEW d, Typed(d), NEW x \in Rows, x.war = d.war,
         \A i \in Squads(x) : /\ i \in Squads(d) /\ SameSquad(d.squads[i], x.squads[i])
                              /\ x.squads[i].active = d.squads[i].active
                              /\ x.squads[i].thugs = d.squads[i].thugs
                              /\ SquadSound(x.squads[i]),
         \A b \in Blocks : x.block[b].holder = d.block[b].holder \/ x.block[b].holder = None,
         Accounts(d) => Accounts(x)
  PROVE  Settles(d, x)
<1>1. Later(d, x)
  BY DEF Later, SameWar
<1>2. WarsSound(x) /\ \A v : Live(x, v) <=> Live(d, v)
  BY SameWars DEF Typed
<1>3. Typed(x)
  BY <1>1, <1>2, StillTyped
<1>4. NoneBehind(d) => NoneBehind(x)
  <2>1. SUFFICES ASSUME NoneBehind(d), NEW i \in Squads(x), x.squads[i].active, x.squads[i].thugs > 0
        PROVE  IF Live(x, x.squads[i].war)
               THEN x.war[x.squads[i].war].fight # None
                    \/ (x.squads[i].side = "ATTACKER" /\ x.war[x.squads[i].war].status = "SIEGE")
               ELSE /\ x.squads[i].role = "DECLARER" /\ x.war[x.squads[i].war].goal = "TAKE"
                    /\ x.war[x.squads[i].war].winner = "ATTACKER"
    BY DEF NoneBehind
  <2>2. /\ i \in Squads(d) /\ SameSquad(d.squads[i], x.squads[i])
        /\ d.squads[i].active /\ d.squads[i].thugs > 0
    BY <2>1
  <2>3. IF Live(d, d.squads[i].war)
        THEN d.war[d.squads[i].war].fight # None
             \/ (d.squads[i].side = "ATTACKER" /\ d.war[d.squads[i].war].status = "SIEGE")
        ELSE /\ d.squads[i].role = "DECLARER" /\ d.war[d.squads[i].war].goal = "TAKE"
             /\ d.war[d.squads[i].war].winner = "ATTACKER"
    BY <2>1, <2>2 DEF NoneBehind
  <2> QED
    BY <1>2, <2>2, <2>3 DEF SameSquad
<1>5. EndedInTime(d) => EndedInTime(x)
  BY <1>2 DEF EndedInTime
<1>6. Passed(d, x)
  BY DEF Passed
<1> QED
  BY <1>1, <1>3, <1>4, <1>5, <1>6 DEF Settles

LEMMA CreditedIs ==
  ASSUME NEW d, Typed(d), NEW p \in Players, NEW x, x = Credited(d, p)
  PROVE  Settles(d, x) /\ x.war = d.war /\ x.block = d.block
<1>1. d \in Rows /\ SquadsOf(d)
  BY DEF Typed
<1>2. PICK own : own = Own(d, p)
  OBVIOUS
<1>3. PICK done : done = {i \in own : ~d.squads[i].active}
  OBVIOUS
<1>4. own \subseteq Squads(d) /\ done \subseteq own /\ IsFiniteSet(own) /\ IsFiniteSet(done)
  <2>1. own \subseteq Squads(d) /\ done \subseteq own
    BY <1>2, <1>3 DEF Own
  <2> QED
    BY <2>1, SquadsFinite, FS_Subset
<1>5. ASSUME NEW i \in own
      PROVE  LET squad == d.squads[i] IN
             /\ i \in Numbers /\ squad \in Squad /\ squad.player = p /\ SquadSound(squad)
             /\ squad.sent \in Nat /\ squad.thugs \in Nat /\ squad.wounded \in Nat
             /\ squad.posted \in Nat /\ squad.creditedThugs \in Nat /\ squad.creditedWounded \in Nat
             /\ squad.sent - squad.thugs - squad.creditedThugs \in Nat
             /\ squad.wounded - squad.creditedWounded \in Nat
             /\ squad.sent - squad.posted \in Nat /\ squad.sent - squad.thugs \in Nat
             /\ (i \in done => squad.thugs = 0)
  <2>1. i \in Squads(d) /\ d.squads[i].player = p /\ (i \in done => ~d.squads[i].active)
    BY <1>2, <1>3 DEF Own
  <2>2. PICK squad : squad = d.squads[i]
    OBVIOUS
  <2>3. /\ i \in Numbers /\ squad \in Squad /\ SquadSound(squad)
        /\ squad.sent \in Nat /\ squad.thugs \in Nat /\ squad.wounded \in Nat
        /\ squad.posted \in Nat /\ squad.creditedThugs \in Nat /\ squad.creditedWounded \in Nat
    BY <1>1, <2>1, <2>2, SquadIs DEF SquadsOf
  <2>4. /\ squad.sent - squad.thugs - squad.creditedThugs \in Nat
        /\ squad.wounded - squad.creditedWounded \in Nat
        /\ squad.sent - squad.posted \in Nat /\ squad.sent - squad.thugs \in Nat
        /\ (i \in done => squad.thugs = 0)
    BY <2>1, <2>2, <2>3 DEF SquadSound
  <2> QED
    BY <2>1, <2>2, <2>3, <2>4
<1>6. PICK fb : fb = [i \in own |-> d.squads[i].sent - d.squads[i].thugs - d.squads[i].creditedThugs]
  OBVIOUS
<1>7. PICK fh : fh = [i \in own |-> d.squads[i].wounded - d.squads[i].creditedWounded]
  OBVIOUS
<1>8. PICK fp : fp = [i \in done |-> d.squads[i].posted]
  OBVIOUS
<1>9. PICK fg : fg = [i \in done |-> d.squads[i].sent - d.squads[i].posted]
  OBVIOUS
<1>10. PICK back : back = SumFunction(fb)
  OBVIOUS
<1>11. PICK hurt : hurt = SumFunction(fh)
  OBVIOUS
<1>12. PICK posted : posted = SumFunction(fp)
  OBVIOUS
<1>13. PICK guns : guns = SumFunction(fg)
  OBVIOUS
<1>14. back = Sum(fb, own) /\ hurt = Sum(fh, own) /\ posted = Sum(fp, done) /\ guns = Sum(fg, done)
  BY <1>6, <1>7, <1>8, <1>9, <1>10, <1>11, <1>12, <1>13, SumOver
<1>15. Nats(fb, own) /\ Nats(fh, own) /\ Nats(fp, done) /\ Nats(fg, done)
  BY <1>4, <1>5, <1>6, <1>7, <1>8, <1>9 DEF Nats
<1>16. back \in Nat /\ hurt \in Nat /\ posted \in Nat /\ guns \in Nat
  BY <1>4, <1>14, <1>15, SumNat
<1>17. PICK old : old = d.crew[p]
  OBVIOUS
<1>18. /\ old \in Crew /\ old.thugs \in Nat /\ old.hurt \in Nat /\ old.busy \in Nat /\ old.posted \in Nat
       /\ old.guns \in Nat
  BY <1>1, <1>17, CrewIs
<1>19. PICK crew : crew = [old EXCEPT !.busy = AtLeastZero(@ - back), !.hurt = @ + hurt,
                                      !.posted = @ + posted, !.guns = @ + guns]
  OBVIOUS
<1>20. AtLeastZero(old.busy - back) \in Nat
  BY <1>16, <1>18 DEF AtLeastZero
<1>21. /\ crew \in Crew /\ crew.busy = AtLeastZero(old.busy - back) /\ crew.posted = old.posted + posted
       /\ crew.guns = old.guns + guns
  <2>1. old.hurt + hurt \in Nat /\ old.posted + posted \in Nat /\ old.guns + guns \in Nat
    BY <1>16, <1>18
  <2> QED
    BY <1>18, <1>19, <1>20, <2>1 DEF Crew
<1>22. PICK squads : squads = [i \in Numbers |->
          IF i \in done THEN None
          ELSE IF i \in own THEN [d.squads[i] EXCEPT !.creditedThugs = d.squads[i].sent - d.squads[i].thugs,
                                                     !.creditedWounded = d.squads[i].wounded]
          ELSE d.squads[i]]
  OBVIOUS
<1>23. PICK crews : crews = [d.crew EXCEPT ![p] = crew]
  OBVIOUS
<1>24. x = [d EXCEPT !.crew = crews, !.squads = squads]
  BY <1>2, <1>3, <1>6, <1>7, <1>8, <1>9, <1>10, <1>11, <1>12, <1>13, <1>17, <1>19, <1>22, <1>23
  DEF Credited, Away
<1>25. ASSUME NEW i \in own \ done
       PROVE  /\ squads[i] \in Squad /\ squads[i] # None /\ SameSquad(d.squads[i], squads[i])
              /\ squads[i].active = d.squads[i].active /\ squads[i].thugs = d.squads[i].thugs
              /\ squads[i].posted = d.squads[i].posted /\ SquadSound(squads[i])
              /\ squads[i].creditedThugs = d.squads[i].sent - d.squads[i].thugs
  <2>1. PICK squad : squad = d.squads[i]
    OBVIOUS
  <2>2. /\ i \in Numbers /\ squad \in Squad /\ SquadSound(squad)
        /\ squad.sent \in Nat /\ squad.thugs \in Nat /\ squad.wounded \in Nat
        /\ squad.posted \in Nat /\ squad.sent - squad.thugs \in Nat
    BY <1>5, <2>1
  <2>3. PICK new : new = [squad EXCEPT !.creditedThugs = squad.sent - squad.thugs, !.creditedWounded = squad.wounded]
    OBVIOUS
  <2>4. squads[i] = new
    BY <1>22, <2>1, <2>2, <2>3
  <2>5. new \in Squad
    BY <2>2, <2>3 DEF Squad
  <2>6. /\ new.active = squad.active /\ new.thugs = squad.thugs /\ new.wounded = squad.wounded
        /\ new.posted = squad.posted /\ new.creditedThugs = squad.sent - squad.thugs
        /\ new.creditedWounded = squad.wounded
        /\ new.war = squad.war /\ new.player = squad.player /\ new.side = squad.side /\ new.role = squad.role
        /\ new.sent = squad.sent
    BY <2>2, <2>3 DEF Squad
  <2>7. SquadSound(new)
    BY <2>2, <2>6 DEF SquadSound
  <2>8. new # None
    BY <2>5, NoneIsNone
  <2> QED
    BY <2>1, <2>4, <2>5, <2>6, <2>7, <2>8 DEF SameSquad
<1>26. (\A i \in done : squads[i] = None) /\ \A i \in Numbers \ own : squads[i] = d.squads[i]
  BY <1>4, <1>5, <1>22
<1>27. squads \in [Numbers -> Squad \cup {None}]
  <2>1. \A i \in Numbers : squads[i] \in Squad \cup {None}
    BY <1>1, <1>25, <1>26, RowsParts
  <2> QED
    BY <1>22, <2>1
<1>28. crews \in [Players -> Crew] /\ crews[p] = crew /\ \A q \in Players \ {p} : crews[q] = d.crew[q]
  BY <1>1, <1>21, <1>23, RowsParts
<1>29. /\ x.crew = crews /\ x.squads = squads /\ x.war = d.war /\ x.block = d.block /\ x \in Rows
  BY <1>1, <1>24, <1>27, <1>28, RowsParts DEF Rows
<1>30. Squads(x) = Squads(d) \ done
  BY <1>4, <1>25, <1>26, <1>29 DEF Squads
<1>31. \A i \in Squads(x) : /\ i \in Squads(d) /\ SameSquad(d.squads[i], x.squads[i])
                            /\ x.squads[i].active = d.squads[i].active
                            /\ x.squads[i].thugs = d.squads[i].thugs
                            /\ SquadSound(x.squads[i])
  <2>1. SUFFICES ASSUME NEW i \in Squads(x)
        PROVE /\ i \in Squads(d) /\ SameSquad(d.squads[i], x.squads[i])
              /\ x.squads[i].active = d.squads[i].active
              /\ x.squads[i].thugs = d.squads[i].thugs
              /\ SquadSound(x.squads[i])
    OBVIOUS
  <2>2. i \in Squads(d) /\ i \notin done /\ i \in Numbers
    BY <1>30 DEF Squads
  <2>3. CASE i \in own
    BY <1>25, <1>29, <2>2, <2>3
  <2>4. CASE i \notin own
    BY <1>1, <1>26, <1>29, <2>2, <2>4 DEF SameSquad, SquadsOf
  <2> QED
    BY <2>3, <2>4
<1>32. \A q \in Players \ {p} : /\ Own(x, q) = Own(d, q)
                                /\ \A i \in Own(d, q) : x.squads[i] = d.squads[i]
  <2>1. SUFFICES ASSUME NEW q \in Players \ {p}
        PROVE  Own(x, q) = Own(d, q) /\ \A i \in Own(d, q) : x.squads[i] = d.squads[i]
    OBVIOUS
  <2>2. \A i \in Own(d, q) : i \in Numbers \ own /\ i \in Squads(d)
    BY <1>2 DEF Own, Squads
  <2>3. \A i \in Own(d, q) : x.squads[i] = d.squads[i] /\ i \in Squads(x)
    BY <1>4, <1>26, <1>29, <1>30, <2>2
  <2>4. \A i \in Own(x, q) : i \in Squads(d) /\ d.squads[i].player = q
    BY <1>31 DEF Own, SameSquad
  <2> QED
    BY <2>3, <2>4 DEF Own
<1>33. Own(x, p) = own \ done
  <2>1. \A i \in Own(x, p) : i \in own \ done
    BY <1>2, <1>30, <1>31 DEF Own, SameSquad
  <2>2. \A i \in own \ done : i \in Own(x, p)
    BY <1>4, <1>5, <1>25, <1>29, <1>30 DEF Own, SameSquad
  <2> QED
    BY <2>1, <2>2
<1>34. ASSUME Accounts(d) PROVE Accounts(x)
  <2>1. SUFFICES ASSUME NEW q \in Players
        PROVE  /\ x.crew[q].guns + Manned(x, q) + Carried(x, q) = StartCrew[q]
               /\ x.crew[q].busy = Out(x, q)
               /\ x.crew[q].posted + LeftPosted(x, q) >= Manned(x, q)
    BY DEF Accounts
  <2>2. Held(x, q) = Held(d, q)
    BY <1>29 DEF Held
  <2>3. Manned(x, q) = Manned(d, q) /\ Manned(d, q) \in Nat
    BY <1>1, <1>29, <2>2, SameManned, HeldSums
  <2>4. /\ d.crew[q].guns + Manned(d, q) + Carried(d, q) = StartCrew[q]
        /\ d.crew[q].busy = Out(d, q)
        /\ d.crew[q].posted + LeftPosted(d, q) >= Manned(d, q)
    BY <1>34 DEF Accounts
  <2>5. CASE q # p
    <3>1. /\ [i \in Own(x, q) |-> x.squads[i].sent - x.squads[i].posted]
             = [i \in Own(d, q) |-> d.squads[i].sent - d.squads[i].posted]
          /\ [i \in Own(x, q) |-> x.squads[i].sent - x.squads[i].creditedThugs]
             = [i \in Own(d, q) |-> d.squads[i].sent - d.squads[i].creditedThugs]
          /\ [i \in Own(x, q) |-> x.squads[i].posted] = [i \in Own(d, q) |-> d.squads[i].posted]
      BY <1>32, <2>5
    <3>2. Carried(x, q) = Carried(d, q) /\ Out(x, q) = Out(d, q) /\ LeftPosted(x, q) = LeftPosted(d, q)
      BY <3>1 DEF Carried, Out, LeftPosted
    <3>3. x.crew[q] = d.crew[q]
      BY <1>28, <1>29, <2>5
    <3> QED
      BY <2>3, <2>4, <3>2, <3>3
  <2>6. CASE q = p
    <3>1. PICK rest : rest = own \ done
      OBVIOUS
    <3>2. PICK carried : carried = [i \in own |-> d.squads[i].sent - d.squads[i].posted]
      OBVIOUS
    <3>3. PICK out : out = [i \in own |-> d.squads[i].sent - d.squads[i].creditedThugs]
      OBVIOUS
    <3>4. PICK left : left = [i \in own |-> d.squads[i].posted]
      OBVIOUS
    <3>5. PICK thugs : thugs = [i \in own |-> d.squads[i].thugs]
      OBVIOUS
    <3>6. /\ Ints(carried, own) /\ Ints(out, own) /\ Ints(left, own) /\ Ints(thugs, own) /\ Ints(fb, own)
          /\ Nats(thugs, own)
      <4>1. ASSUME NEW i \in own
            PROVE  carried[i] \in Int /\ out[i] \in Int /\ left[i] \in Int /\ thugs[i] \in Nat /\ fb[i] \in Int
        BY <1>5, <1>6, <3>2, <3>3, <3>4, <3>5
      <4> QED
        BY <4>1 DEF Ints, Nats
    <3>7. Carried(d, p) = Sum(carried, own) /\ Out(d, p) = Sum(out, own) /\ LeftPosted(d, p) = Sum(left, own)
      BY <1>2, <3>2, <3>3, <3>4, SumOver DEF Carried, Out, LeftPosted
    <3>8. Sum(carried, own) = Sum(carried, done) + Sum(carried, rest)
      BY <1>4, <3>1, <3>6, SumSplit
    <3>9. Sum(left, own) = Sum(left, done) + Sum(left, rest)
      BY <1>4, <3>1, <3>6, SumSplit
    <3>10. Sum(thugs, own) = Sum(thugs, done) + Sum(thugs, rest)
      BY <1>4, <3>1, <3>6, SumSplit
    <3>11. Sum(carried, done) = guns
      <4>1. \A i \in done : carried[i] = fg[i]
        BY <1>4, <1>9, <3>2
      <4> QED
        BY <1>4, <1>14, <4>1, SumSame
    <3>12. Sum(left, done) = posted
      <4>1. \A i \in done : left[i] = fp[i]
        BY <1>4, <1>8, <3>4
      <4> QED
        BY <1>4, <1>14, <4>1, SumSame
    <3>13. Sum(thugs, done) = 0
      <4>1. \A i \in done : thugs[i] = 0
        BY <1>4, <1>5, <3>5
      <4> QED
        BY <1>4, <4>1, SumZero
    <3>14. Sum(out, own) = back + Sum(thugs, own)
      <4>1. \A i \in own : out[i] = fb[i] + thugs[i]
        BY <1>5, <1>6, <3>3, <3>5
      <4> QED
        BY <1>4, <1>14, <3>6, <4>1, SumPlus
    <3>15. IsFiniteSet(rest) /\ rest \subseteq own
      BY <1>4, <3>1, FS_Subset
    <3>16. Sum(thugs, own) \in Nat /\ Sum(carried, rest) \in Int /\ Sum(left, rest) \in Int
      <4>1. Ints(carried, rest) /\ Ints(left, rest)
        BY <3>6, <3>15 DEF Ints
      <4> QED
        BY <1>4, <3>6, <3>15, <4>1, SumNat, SumInt
    <3>17. Carried(x, p) = Sum(carried, rest)
      <4>1. PICK f : f = [i \in Own(x, p) |-> x.squads[i].sent - x.squads[i].posted]
        OBVIOUS
      <4>2. \A i \in rest : f[i] = carried[i]
        BY <1>25, <1>29, <1>33, <3>1, <3>2, <4>1 DEF SameSquad
      <4>3. Carried(x, p) = Sum(f, rest)
        BY <1>33, <3>1, <4>1, SumOver DEF Carried
      <4> QED
        BY <3>15, <4>2, <4>3, SumSame
    <3>18. LeftPosted(x, p) = Sum(left, rest)
      <4>1. PICK f : f = [i \in Own(x, p) |-> x.squads[i].posted]
        OBVIOUS
      <4>2. \A i \in rest : f[i] = left[i]
        BY <1>25, <1>29, <1>33, <3>1, <3>4, <4>1
      <4>3. LeftPosted(x, p) = Sum(f, rest)
        BY <1>33, <3>1, <4>1, SumOver DEF LeftPosted
      <4> QED
        BY <3>15, <4>2, <4>3, SumSame
    <3>19. Out(x, p) = Sum(thugs, rest)
      <4>1. PICK f : f = [i \in Own(x, p) |-> x.squads[i].sent - x.squads[i].creditedThugs]
        OBVIOUS
      <4>2. \A i \in rest : f[i] = thugs[i]
        <5>1. SUFFICES ASSUME NEW i \in rest PROVE f[i] = thugs[i]
          OBVIOUS
        <5>2. /\ x.squads[i].sent = d.squads[i].sent
              /\ x.squads[i].creditedThugs = d.squads[i].sent - d.squads[i].thugs
          BY <1>25, <1>29, <3>1 DEF SameSquad
        <5>3. d.squads[i].sent \in Nat /\ d.squads[i].thugs \in Nat
          BY <1>5, <3>1
        <5> QED
          BY <1>33, <3>1, <3>5, <4>1, <5>2, <5>3
      <4>3. Out(x, p) = Sum(f, rest)
        BY <1>33, <3>1, <4>1, SumOver DEF Out
      <4> QED
        BY <3>15, <4>2, <4>3, SumSame
    <3>20. x.crew[p] = crew
      BY <1>28, <1>29
    <3>21. old.busy = Out(d, p)
      BY <1>17, <2>4, <2>6
    <3>22. crew.busy = Sum(thugs, own)
      BY <1>16, <1>21, <3>7, <3>14, <3>16, <3>21 DEF AtLeastZero
    <3>23. Sum(thugs, rest) \in Int
      <4>1. Ints(thugs, rest)
        BY <3>6, <3>15 DEF Ints
      <4> QED
        BY <3>15, <4>1, SumInt
    <3>24. crew.busy = Out(x, p)
      BY <3>10, <3>13, <3>19, <3>22, <3>23
    <3>25. crew.guns + Manned(x, p) + Carried(x, p) = StartCrew[p]
      <4>1. old.guns + Manned(d, p) + Carried(d, p) = StartCrew[p]
        BY <1>17, <2>4, <2>6
      <4> QED
        BY <1>16, <1>18, <1>21, <2>3, <2>6, <3>7, <3>8, <3>11, <3>16, <3>17, <4>1
    <3>26. crew.posted + LeftPosted(x, p) >= Manned(x, p)
      <4>1. old.posted + LeftPosted(d, p) >= Manned(d, p)
        BY <1>17, <2>4, <2>6
      <4> QED
        BY <1>16, <1>18, <1>21, <2>3, <2>6, <3>7, <3>9, <3>12, <3>16, <3>18, <4>1
    <3> QED
      BY <2>6, <3>20, <3>24, <3>25, <3>26
  <2> QED
    BY <2>5, <2>6
<1> QED
  BY <1>29, <1>31, <1>34, AtHomeSettles

LEMMA WalkedOutIs ==
  ASSUME NEW d, Typed(d), NEW p \in Players, NEW now \in Nat, NEW x \in WalkedOut(d, p, now)
  PROVE  /\ Settles(d, x) /\ x.war = d.war
         /\ \A b \in Blocks : x.block[b].holder = d.block[b].holder
                             \/ (x.block[b].holder = None /\ d.block[b].holder = p)
<1>1. d \in Rows
  BY DEF Typed
<1> DEFINE held == Held(d, p)
           due == {b \in held : d.block[b].upkeepAt < now /\ d.block[b].corner > 0}
           most == SumFunction([b \in due |-> d.block[b].corner])
           crew0 == d.crew[p]
           losses == {g \in [due -> 0..most] : \A b \in due : g[b] <= d.block[b].corner}
<1>2. held = Held(d, p)
  OBVIOUS
<1>3. due = {b \in held : d.block[b].upkeepAt < now /\ d.block[b].corner > 0}
  OBVIOUS
<1>4. due \subseteq held /\ held \subseteq Blocks /\ IsFiniteSet(held) /\ IsFiniteSet(due)
  <2>1. due \subseteq held /\ held \subseteq Blocks /\ IsFiniteSet(held)
    BY <1>1, HeldSums
  <2> QED
    BY <2>1, FS_Subset
<1>5. losses = {g \in [due -> 0..most] : \A b \in due : g[b] <= d.block[b].corner}
  OBVIOUS
<1>6. crew0 = d.crew[p]
  OBVIOUS
<1>7. PICK f \in losses :
        x = [d EXCEPT !.crew[p] = [crew0 EXCEPT !.thugs = AtLeastZero(@ - SumFunction(f)),
                                                !.guns = @ + SumFunction(f),
                                                !.posted = AtLeastZero(@ - SumFunction(f))],
                      !.block = [b \in Blocks |-> IF b \in due THEN Left(@[b], f[b], now) ELSE @[b]]]
  BY DEF WalkedOut
<1> HIDE DEF held, due, most, crew0, losses
<1>8. PICK t : t = SumFunction(f)
  OBVIOUS
<1>9. \A b \in due : f[b] \in Nat /\ f[b] <= d.block[b].corner
  <2>1. f \in [due -> 0..most] /\ \A b \in due : f[b] <= d.block[b].corner
    BY <1>5
  <2>2. \A b \in due : f[b] \in 0..most
    BY <2>1
  <2> QED
    BY <2>1, <2>2
<1>10. DOMAIN f = due /\ t = Sum(f, due) /\ Nats(f, due) /\ t \in Nat
  <2>1. DOMAIN f = due
    BY <1>5
  <2>2. Nats(f, due)
    BY <1>9 DEF Nats
  <2>3. t = Sum(f, due)
    BY <1>8, <2>1, SumOver
  <2> QED
    BY <1>4, <2>1, <2>2, <2>3, SumNat
<1>11. /\ crew0 \in Crew /\ crew0.thugs \in Nat /\ crew0.hurt \in Nat /\ crew0.busy \in Nat
       /\ crew0.posted \in Nat /\ crew0.guns \in Nat
  BY <1>1, <1>6, CrewIs
<1>12. PICK crew : crew = [crew0 EXCEPT !.thugs = AtLeastZero(@ - t), !.guns = @ + t, !.posted = AtLeastZero(@ - t)]
  OBVIOUS
<1>13. /\ AtLeastZero(crew0.thugs - t) \in Nat /\ AtLeastZero(crew0.posted - t) \in Nat
       /\ AtLeastZero(crew0.posted - t) >= crew0.posted - t
  BY <1>10, <1>11 DEF AtLeastZero
<1>14. /\ crew \in Crew /\ crew.guns = crew0.guns + t /\ crew.busy = crew0.busy
       /\ crew.posted = AtLeastZero(crew0.posted - t)
  <2>1. crew0.guns + t \in Nat
    BY <1>10, <1>11
  <2> QED
    BY <1>11, <1>12, <1>13, <2>1 DEF Crew
<1>15. PICK crews : crews = [d.crew EXCEPT ![p] = crew]
  OBVIOUS
<1>16. crews \in [Players -> Crew] /\ crews[p] = crew /\ \A q \in Players \ {p} : crews[q] = d.crew[q]
  BY <1>1, <1>14, <1>15, RowsParts
<1>17. PICK blocks : blocks = [b \in Blocks |-> IF b \in due THEN Left(d.block[b], f[b], now) ELSE d.block[b]]
  OBVIOUS
<1>18. x = [d EXCEPT !.crew = crews, !.block = blocks]
  BY <1>6, <1>7, <1>8, <1>12, <1>15, <1>17
<1>19. ASSUME NEW b \in due
       PROVE  /\ blocks[b] \in Block
              /\ IF blocks[b].holder = None THEN d.block[b].corner - f[b] = 0
                 ELSE blocks[b].holder = p /\ blocks[b].corner = d.block[b].corner - f[b]
  <2>1. PICK old : old = d.block[b]
    OBVIOUS
  <2>2. b \in Blocks /\ old \in Block /\ old.corner \in Nat /\ old.holder = p /\ p # None
    BY <1>1, <1>2, <1>4, <2>1, BlockIs, NoneIsNone DEF Held
  <2>3. PICK n : n = f[b]
    OBVIOUS
  <2>4. n \in Nat /\ old.corner - n \in Nat
    BY <1>9, <2>1, <2>2, <2>3
  <2>5. blocks[b] = Left(old, n, now)
    BY <1>17, <2>1, <2>2, <2>3
  <2>6. CASE old.corner = n
    <3>1. PICK new : new = [old EXCEPT !.holder = None, !.corner = 0, !.shield = 0, !.upkeepAt = now]
      OBVIOUS
    <3>2. blocks[b] = new
      BY <2>5, <2>6, <3>1 DEF Left
    <3>3. new \in Block /\ new.holder = None
      BY <2>2, <3>1 DEF Block
    <3> QED
      BY <2>1, <2>2, <2>3, <2>6, <3>2, <3>3
  <2>7. CASE old.corner # n
    <3>1. PICK new : new = [old EXCEPT !.corner = @ - n, !.upkeepAt = now]
      OBVIOUS
    <3>2. blocks[b] = new
      BY <2>5, <2>7, <3>1 DEF Left
    <3>3. new \in Block /\ new.holder = p /\ new.corner = old.corner - n
      BY <2>2, <2>4, <3>1 DEF Block
    <3> QED
      BY <2>1, <2>2, <2>3, <3>2, <3>3
  <2> QED
    BY <2>6, <2>7
<1>20. \A b \in Blocks \ due : blocks[b] = d.block[b]
  BY <1>17
<1>21. blocks \in [Blocks -> Block]
  <2>1. \A b \in Blocks : blocks[b] \in Block
    BY <1>1, <1>19, <1>20, RowsParts
  <2> QED
    BY <1>17, <2>1
<1>22. /\ x.crew = crews /\ x.block = blocks /\ x.war = d.war /\ x.squads = d.squads /\ x \in Rows
  BY <1>1, <1>16, <1>18, <1>21, RowsParts DEF Rows
<1>23. Squads(x) = Squads(d)
  BY <1>22, SameSquads
<1>24. \A b \in Blocks : x.block[b].holder = d.block[b].holder
                         \/ (x.block[b].holder = None /\ d.block[b].holder = p)
  BY <1>2, <1>4, <1>19, <1>20, <1>22 DEF Held
<1>25. \A i \in Squads(x) : /\ i \in Squads(d) /\ SameSquad(d.squads[i], x.squads[i])
                            /\ x.squads[i].active = d.squads[i].active
                            /\ x.squads[i].thugs = d.squads[i].thugs
                            /\ SquadSound(x.squads[i])
  BY <1>22, <1>23 DEF SameSquad, Typed, SquadsOf
<1>26. \A q \in Players \ {p} : Manned(x, q) = Manned(d, q)
  <2>1. SUFFICES ASSUME NEW q \in Players \ {p} PROVE Manned(x, q) = Manned(d, q)
    OBVIOUS
  <2>2. q # None
    BY NoneIsNone
  <2>3. \A b \in Blocks : x.block[b].holder = q <=> d.block[b].holder = q
    BY <1>2, <1>4, <1>19, <1>20, <1>22, <2>2 DEF Held
  <2>4. Held(x, q) = Held(d, q)
    BY <2>3 DEF Held
  <2>5. \A b \in Held(d, q) : b \in Blocks \ due
    BY <1>2, <1>4 DEF Held
  <2>6. \A b \in Held(d, q) : x.block[b].corner = d.block[b].corner
    BY <1>20, <1>22, <2>5
  <2> QED
    BY <2>4, <2>6, SameManned
<1>27. Manned(x, p) = Manned(d, p) - t /\ Manned(d, p) \in Nat /\ Manned(x, p) \in Nat
  <2>1. PICK corner : corner = [b \in held |-> d.block[b].corner]
    OBVIOUS
  <2>2. PICK gone : gone = [b \in held |-> IF b \in due THEN f[b] ELSE 0]
    OBVIOUS
  <2>3. PICK stay : stay = [b \in held |-> corner[b] - gone[b]]
    OBVIOUS
  <2>4. ASSUME NEW b \in held
        PROVE  /\ corner[b] \in Int /\ gone[b] \in Int /\ stay[b] \in Int
               /\ corner[b] = stay[b] + gone[b]
    <3>1. corner[b] \in Nat
      BY <1>1, <1>4, <2>1, BlockIs
    <3>2. gone[b] \in Nat
      BY <1>9, <2>2
    <3> QED
      BY <2>3, <3>1, <3>2
  <2>5. Ints(corner, held) /\ Ints(gone, held) /\ Ints(stay, held)
    BY <2>4 DEF Ints
  <2>6. Manned(d, p) = Sum(corner, held) /\ Manned(d, p) \in Nat
    BY <1>1, <1>2, <2>1, SumOver, HeldSums DEF Manned
  <2>7. Sum(corner, held) = Sum(stay, held) + Sum(gone, held)
    BY <1>4, <2>4, <2>5, SumPlus
  <2>8. Sum(gone, held) = t
    <3>1. Sum(gone, held) = Sum(gone, due) + Sum(gone, held \ due)
      BY <1>4, <2>5, SumSplit
    <3>2. Sum(gone, due) = t
      <4>1. \A b \in due : gone[b] = f[b]
        BY <1>4, <2>2
      <4> QED
        BY <1>4, <1>10, <4>1, SumSame
    <3>3. Sum(gone, held \ due) = 0
      <4>1. \A b \in held \ due : gone[b] = 0
        BY <2>2
      <4>2. IsFiniteSet(held \ due)
        BY <1>4, FS_Subset
      <4> QED
        BY <4>1, <4>2, SumZero
    <3> QED
      BY <1>10, <3>1, <3>2, <3>3
  <2>9. PICK kept : kept = Held(x, p)
    OBVIOUS
  <2>10. kept \subseteq held
    <3>1. p # None
      BY NoneIsNone
    <3> QED
      BY <1>2, <1>4, <1>19, <1>20, <1>22, <2>9, <3>1 DEF Held
  <2>11. \A b \in held \ kept : stay[b] = 0
    <3>1. SUFFICES ASSUME NEW b \in held \ kept PROVE stay[b] = 0
      OBVIOUS
    <3>2. b \in Blocks /\ x.block[b].holder # p /\ d.block[b].holder = p
      BY <1>2, <1>4, <2>9 DEF Held
    <3>3. b \in due
      BY <1>20, <1>22, <3>2
    <3>4. d.block[b].corner - f[b] = 0
      BY <1>19, <1>22, <3>2, <3>3
    <3> QED
      BY <2>1, <2>2, <2>3, <3>3, <3>4
  <2>12. \A b \in kept : x.block[b].corner = stay[b]
    <3>1. SUFFICES ASSUME NEW b \in kept PROVE x.block[b].corner = stay[b]
      OBVIOUS
    <3>2. b \in held /\ b \in Blocks /\ x.block[b].holder = p /\ p # None
      BY <1>4, <2>9, <2>10, NoneIsNone DEF Held
    <3>3. CASE b \in due
      BY <1>19, <1>22, <2>1, <2>2, <2>3, <3>2, <3>3
    <3>4. CASE b \notin due
      <4>1. d.block[b].corner \in Nat
        BY <1>1, <3>2, BlockIs
      <4> QED
        BY <1>20, <1>22, <2>1, <2>2, <2>3, <3>2, <3>4, <4>1
    <3> QED
      BY <3>3, <3>4
  <2>13. IsFiniteSet(kept) /\ IsFiniteSet(held \ kept)
    BY <1>4, <2>10, FS_Subset
  <2>14. Sum(stay, held) = Sum(stay, kept) + Sum(stay, held \ kept)
    BY <1>4, <2>5, <2>10, SumSplit
  <2>15. Sum(stay, held \ kept) = 0
    BY <2>11, <2>13, SumZero
  <2>16. Manned(x, p) = Sum(stay, kept)
    <3>1. PICK g : g = [b \in Held(x, p) |-> x.block[b].corner]
      OBVIOUS
    <3>2. \A b \in kept : g[b] = stay[b]
      BY <2>9, <2>12, <3>1
    <3>3. Manned(x, p) = Sum(g, kept)
      BY <2>9, <3>1, SumOver DEF Manned
    <3> QED
      BY <2>13, <3>2, <3>3, SumSame
  <2>17. Manned(x, p) \in Nat
    BY <1>22, HeldSums
  <2> QED
    BY <1>10, <2>6, <2>7, <2>8, <2>14, <2>15, <2>16, <2>17
<1>28. ASSUME Accounts(d) PROVE Accounts(x)
  <2>1. SUFFICES ASSUME NEW q \in Players
        PROVE  /\ x.crew[q].guns + Manned(x, q) + Carried(x, q) = StartCrew[q]
               /\ x.crew[q].busy = Out(x, q)
               /\ x.crew[q].posted + LeftPosted(x, q) >= Manned(x, q)
    BY DEF Accounts
  <2>2. SameLedger(d, x)
    BY <1>22, <1>23 DEF SameLedger
  <2>3. Carried(x, q) = Carried(d, q) /\ Out(x, q) = Out(d, q) /\ LeftPosted(x, q) = LeftPosted(d, q)
    BY <2>2, SameLedgerSums
  <2>4. /\ d.crew[q].guns + Manned(d, q) + Carried(d, q) = StartCrew[q]
        /\ d.crew[q].busy = Out(d, q)
        /\ d.crew[q].posted + LeftPosted(d, q) >= Manned(d, q)
    BY <1>28 DEF Accounts
  <2>5. CASE q # p
    <3>1. x.crew[q] = d.crew[q]
      BY <1>16, <1>22, <2>5
    <3> QED
      BY <1>26, <2>3, <2>4, <2>5, <3>1
  <2>6. CASE q = p
    <3>1. x.crew[p] = crew
      BY <1>16, <1>22
    <3>2. Carried(d, p) \in Int /\ LeftPosted(d, p) \in Nat
      BY <1>1, OwnSums
    <3>3. /\ crew0.guns + Manned(d, p) + Carried(d, p) = StartCrew[p]
          /\ crew0.busy = Out(d, p)
          /\ crew0.posted + LeftPosted(d, p) >= Manned(d, p)
      BY <1>6, <2>4, <2>6
    <3>4. crew.guns + Manned(x, p) + Carried(x, p) = StartCrew[p]
      BY <1>10, <1>11, <1>14, <1>27, <2>3, <2>6, <3>2, <3>3
    <3>5. crew.posted + LeftPosted(x, p) >= Manned(x, p)
      BY <1>10, <1>11, <1>13, <1>14, <1>27, <2>3, <2>6, <3>2, <3>3
    <3>6. crew.busy = Out(x, p)
      BY <1>14, <2>3, <2>6, <3>3
    <3> QED
      BY <2>6, <3>1, <3>4, <3>5, <3>6
  <2> QED
    BY <2>5, <2>6
<1> QED
  BY <1>22, <1>24, <1>25, <1>28, AtHomeSettles

LEMMA HealedIs ==
  ASSUME NEW d, Typed(d), NEW p \in Players, NEW x \in Healed(d, p)
  PROVE  Settles(d, x) /\ x.war = d.war /\ x.block = d.block
<1>1. d \in Rows
  BY DEF Typed
<1>2. PICK n \in 0..d.crew[p].hurt : x = [d EXCEPT !.crew[p].hurt = n]
  BY DEF Healed
<1>3. PICK old : old = d.crew[p]
  OBVIOUS
<1>4. PICK new : new = [old EXCEPT !.hurt = n]
  OBVIOUS
<1>5. old \in Crew /\ n \in Nat
  BY <1>1, <1>3, CrewIs
<1>6. new \in Crew /\ new.guns = old.guns /\ new.busy = old.busy /\ new.posted = old.posted
  BY <1>4, <1>5 DEF Crew
<1>7. PICK crews : crews = [d.crew EXCEPT ![p] = new]
  OBVIOUS
<1>8. /\ crews \in [Players -> Crew]
      /\ \A q \in Players : /\ crews[q].guns = d.crew[q].guns /\ crews[q].busy = d.crew[q].busy
                            /\ crews[q].posted = d.crew[q].posted
  BY <1>1, <1>3, <1>6, <1>7, RowsParts
<1>9. x = [d EXCEPT !.crew = crews]
  BY <1>2, <1>3, <1>4, <1>7
<1>10. x.crew = crews /\ x.block = d.block /\ x.war = d.war /\ x.squads = d.squads /\ x \in Rows
  BY <1>1, <1>8, <1>9, RowsParts DEF Rows
<1>11. Squads(x) = Squads(d)
  BY <1>10, SameSquads
<1>12. \A i \in Squads(x) : /\ i \in Squads(d) /\ SameSquad(d.squads[i], x.squads[i])
                            /\ x.squads[i].active = d.squads[i].active
                            /\ x.squads[i].thugs = d.squads[i].thugs
                            /\ SquadSound(x.squads[i])
  BY <1>10, <1>11 DEF SameSquad, Typed, SquadsOf
<1>13. ASSUME Accounts(d) PROVE Accounts(x)
  <2>1. SUFFICES ASSUME NEW q \in Players
        PROVE  /\ x.crew[q].guns + Manned(x, q) + Carried(x, q) = StartCrew[q]
               /\ x.crew[q].busy = Out(x, q)
               /\ x.crew[q].posted + LeftPosted(x, q) >= Manned(x, q)
    BY DEF Accounts
  <2>2. SameLedger(d, x)
    BY <1>10, <1>11 DEF SameLedger
  <2>3. Carried(x, q) = Carried(d, q) /\ Out(x, q) = Out(d, q) /\ LeftPosted(x, q) = LeftPosted(d, q)
    BY <2>2, SameLedgerSums
  <2>4. Held(x, q) = Held(d, q)
    BY <1>10 DEF Held
  <2>5. Manned(x, q) = Manned(d, q)
    BY <1>10, <2>4, SameManned
  <2> QED
    BY <1>8, <1>10, <1>13, <2>3, <2>5 DEF Accounts
<1> QED
  BY <1>10, <1>12, <1>13, AtHomeSettles

LEMMA EnteredIs ==
  ASSUME NEW d, Typed(d), OneWarEach(d), NEW p \in Players, NEW now \in Nat, NEW x \in Entered(d, p, now)
  PROVE  /\ Settles(d, x) /\ x.war = d.war
         /\ \A b \in Blocks : x.block[b].holder = d.block[b].holder
                             \/ (x.block[b].holder = None /\ d.block[b].holder = p)
<1>1. PICK c : c = Credited(d, p)
  OBVIOUS
<1>2. PICK y \in WalkedOut(c, p, now) : x \in Healed(y, p)
  BY <1>1 DEF Entered
<1>3. Settles(d, c) /\ Typed(c) /\ c.war = d.war /\ c.block = d.block
  BY <1>1, CreditedIs DEF Settles
<1>4. /\ Settles(c, y) /\ Typed(y) /\ y.war = c.war
      /\ \A b \in Blocks : y.block[b].holder = c.block[b].holder
                          \/ (y.block[b].holder = None /\ c.block[b].holder = p)
  BY <1>2, <1>3, WalkedOutIs DEF Settles
<1>5. Settles(y, x) /\ x.war = y.war /\ x.block = y.block
  BY <1>2, <1>4, HealedIs
<1>6. Settles(d, y)
  BY <1>3, <1>4, SettlesOn
<1>7. Settles(d, x)
  BY <1>5, <1>6, SettlesOn
<1> QED
  BY <1>3, <1>4, <1>5, <1>7

-----------------------------------------------------------------------------
(* What players do *)

\* What a player's own act keeps: it ends no war, and takes no block but a free one.
Acts(d, x, p) ==
  /\ Typed(x)
  /\ OneWarEach(d) => OneWarEach(x)
  /\ Accounts(d) => Accounts(x)
  /\ NoneBehind(d) => NoneBehind(x)
  /\ EndedInTime(d) => EndedInTime(x)
  /\ \A v \in Wars : d.war[v] # None => x.war[v] # None
  /\ \A v \in Wars : Live(d, v) => Live(x, v)
  /\ \A b \in Blocks : \/ x.block[b].holder = d.block[b].holder \/ x.block[b].holder = None
                       \/ (d.block[b].holder = None /\ x.block[b].holder = p)

LEMMA ActsSelf == ASSUME NEW d, Typed(d), NEW p PROVE Acts(d, d, p)
  BY DEF Acts

\* Settling in which the wars stay as they are.
LEMMA SettlesActs ==
  ASSUME NEW d, Typed(d), NEW x, Settles(d, x), x.war = d.war,
         \A b \in Blocks : x.block[b].holder = d.block[b].holder \/ x.block[b].holder = None, NEW p
  PROVE  Acts(d, x, p)
<1>1. \A v \in Wars : Live(x, v) <=> Live(d, v)
  BY SameWars
<1> QED
  BY <1>1, SettlesOne DEF Acts, Settles

\* Wars as they are, other changes accounted for.
LEMMA SameWarsActs ==
  ASSUME NEW d, Typed(d), NEW x, Typed(x), x.war = d.war, Accounts(d) => Accounts(x),
         NoneBehind(d) => NoneBehind(x), NEW p,
         \A b \in Blocks : \/ x.block[b].holder = d.block[b].holder \/ x.block[b].holder = None
                           \/ (d.block[b].holder = None /\ x.block[b].holder = p)
  PROVE  Acts(d, x, p)
<1>1. /\ \A v \in Wars : Live(x, v) <=> Live(d, v)
      /\ LiveWars(x) = LiveWars(d)
  BY SameWars
<1>2. OneWarEach(d) => OneWarEach(x)
  BY <1>1 DEF OneWarEach
<1>3. EndedInTime(d) => EndedInTime(x)
  BY <1>1 DEF EndedInTime
<1> QED
  BY <1>1, <1>2, <1>3 DEF Acts

LEMMA ActsOn ==
  ASSUME NEW d, NEW e, NEW p, Acts(d, e, p), NEW x, Acts(e, x, p), e.block = d.block
  PROVE  Acts(d, x, p)
<1>1. \A b \in Blocks : \/ x.block[b].holder = d.block[b].holder \/ x.block[b].holder = None
                        \/ (d.block[b].holder = None /\ x.block[b].holder = p)
  BY DEF Acts
<1>2. /\ \A v \in Wars : d.war[v] # None => x.war[v] # None
      /\ \A v \in Wars : Live(d, v) => Live(x, v)
  BY DEF Acts
<1> QED
  BY <1>1, <1>2 DEF Acts

LEMMA NextSquadIs ==
  ASSUME NEW d, NextSquad(d) <= MaxSquads
  PROVE  NextSquad(d) \in Numbers /\ NextSquad(d) \notin Squads(d)
<1>1. PICK S : S = {0} \cup Squads(d)
  OBVIOUS
<1>2. Squads(d) \subseteq Numbers /\ IsFiniteSet(Squads(d))
  BY SquadsFinite DEF Squads
<1>3. IsFiniteSet(S)
  <2>1. S = Squads(d) \cup {0}
    BY <1>1
  <2> QED
    BY <1>2, <2>1, FS_AddElement
<1>4. \A y \in S : y \in Nat
  BY <1>1, <1>2, Numerals DEF Numbers
<1>5. (\A y \in S : y \in Int) /\ S # {}
  BY <1>1, <1>4
<1>6. PICK m : m = Max(S)
  OBVIOUS
<1>7. m \in S /\ \A y \in S : y <= m
  BY <1>3, <1>5, <1>6, MinMax
<1>8. m \in Nat /\ NextSquad(d) = 1 + m
  BY <1>1, <1>4, <1>6, <1>7 DEF NextSquad
<1>9. 1 + m \in Numbers
  BY <1>8, Numerals DEF Numbers
<1>10. 1 + m \notin Squads(d)
  BY <1>1, <1>7, <1>8
<1> QED
  BY <1>8, <1>9, <1>10

LEMMA SentIs ==
  ASSUME NEW d, Typed(d), NEW p \in Players, NEW w \in Wars, Live(d, w), NEW side \in Sides,
         NEW role \in {"DECLARER", "HOLDER", "ALLY"}, NextSquad(d) <= MaxSquads,
         NEW n \in Nat, n <= d.crew[p].guns,
         role = "DECLARER" => p = d.war[w].attacker /\ side = "ATTACKER",
         d.war[w].fight # None \/ (side = "ATTACKER" /\ d.war[w].status = "SIEGE"),
         NEW x, x = Sent(d, p, w, side, role, n)
  PROVE  Acts(d, x, p)
<1>1. d \in Rows /\ SquadsOf(d) /\ d.war[w] # None
  BY DEF Typed, Live
<1>2. PICK i : i = NextSquad(d)
  OBVIOUS
<1>3. i \in Numbers /\ i \notin Squads(d)
  BY <1>2, NextSquadIs
<1>4. PICK new : new = [war |-> w, player |-> p, side |-> side, role |-> role,
                        sent |-> n, thugs |-> n, wounded |-> 0, posted |-> 0,
                        active |-> TRUE, creditedThugs |-> 0, creditedWounded |-> 0]
  OBVIOUS
<1>5. new \in Squad
  BY <1>4 DEF Squad
<1>6. /\ new.war = w /\ new.player = p /\ new.side = side /\ new.role = role /\ new.sent = n /\ new.thugs = n
      /\ new.wounded = 0 /\ new.posted = 0 /\ new.active = TRUE /\ new.creditedThugs = 0
      /\ new.creditedWounded = 0
  BY <1>4
<1>7. new # None /\ SquadSound(new)
  BY <1>5, <1>6, NoneIsNone DEF SquadSound
<1>8. PICK squads : squads = [d.squads EXCEPT ![i] = new]
  OBVIOUS
<1>9. /\ squads \in [Numbers -> Squad \cup {None}] /\ squads[i] = new
      /\ \A j \in Numbers \ {i} : squads[j] = d.squads[j]
  BY <1>1, <1>3, <1>5, <1>8, RowsParts
<1>10. PICK old : old = d.crew[p]
  OBVIOUS
<1>11. PICK crew : crew = [old EXCEPT !.busy = @ + n, !.guns = @ - n]
  OBVIOUS
<1>12. /\ old \in Crew /\ old.busy \in Nat /\ old.guns \in Nat /\ old.posted \in Nat
  BY <1>1, <1>10, CrewIs
<1>13. crew \in Crew /\ crew.busy = old.busy + n /\ crew.guns = old.guns - n /\ crew.posted = old.posted
  <2>1. old.busy + n \in Nat /\ old.guns - n \in Nat
    BY <1>10, <1>12
  <2> QED
    BY <1>11, <1>12, <2>1 DEF Crew
<1>14. PICK crews : crews = [d.crew EXCEPT ![p] = crew]
  OBVIOUS
<1>15. crews \in [Players -> Crew] /\ crews[p] = crew /\ \A q \in Players \ {p} : crews[q] = d.crew[q]
  BY <1>1, <1>13, <1>14, RowsParts
<1>16. x = [d EXCEPT !.crew = crews, !.squads = squads]
  BY <1>2, <1>4, <1>8, <1>10, <1>11, <1>14 DEF Sent
<1>17. /\ x.crew = crews /\ x.squads = squads /\ x.war = d.war /\ x.block = d.block /\ x \in Rows
  BY <1>1, <1>9, <1>15, <1>16, RowsParts DEF Rows
<1>18. Squads(x) = Squads(d) \cup {i} /\ \A j \in Squads(d) : x.squads[j] = d.squads[j]
  BY <1>3, <1>7, <1>9, <1>17 DEF Squads
<1>19. x.squads[i] = new
  BY <1>9, <1>17
<1>20. Typed(x)
  <2>1. WarsSound(x)
    BY <1>17, SameWars DEF Typed
  <2>2. SquadsOf(x)
    <3>1. SUFFICES ASSUME NEW j \in Squads(x) PROVE
           /\ SquadSound(x.squads[j]) /\ x.war[x.squads[j].war] # None
           /\ x.squads[j].role = "DECLARER" =>
                x.squads[j].player = x.war[x.squads[j].war].attacker /\ x.squads[j].side = "ATTACKER"
      BY DEF SquadsOf
    <3>2. CASE j = i
      BY <1>1, <1>6, <1>7, <1>17, <1>19, <3>2
    <3>3. CASE j # i
      <4>1. j \in Squads(d) /\ x.squads[j] = d.squads[j]
        BY <1>18, <3>3
      <4> QED
        BY <1>1, <1>17, <4>1 DEF SquadsOf
    <3> QED
      BY <3>2, <3>3
  <2> QED
    BY <1>17, <2>1, <2>2 DEF Typed
<1>21. NoneBehind(d) => NoneBehind(x)
  <2>1. SUFFICES ASSUME NoneBehind(d), NEW j \in Squads(x), x.squads[j].active, x.squads[j].thugs > 0
        PROVE  IF Live(x, x.squads[j].war)
               THEN x.war[x.squads[j].war].fight # None
                    \/ (x.squads[j].side = "ATTACKER" /\ x.war[x.squads[j].war].status = "SIEGE")
               ELSE /\ x.squads[j].role = "DECLARER" /\ x.war[x.squads[j].war].goal = "TAKE"
                    /\ x.war[x.squads[j].war].winner = "ATTACKER"
    BY DEF NoneBehind
  <2>2. CASE j = i
    <3>1. Live(x, w)
      BY <1>17 DEF Live
    <3> QED
      BY <1>6, <1>17, <1>19, <2>2, <3>1
  <2>3. CASE j # i
    <3>1. j \in Squads(d) /\ x.squads[j] = d.squads[j]
      BY <1>18, <2>3
    <3>2. IF Live(d, d.squads[j].war)
          THEN d.war[d.squads[j].war].fight # None
               \/ (d.squads[j].side = "ATTACKER" /\ d.war[d.squads[j].war].status = "SIEGE")
          ELSE /\ d.squads[j].role = "DECLARER" /\ d.war[d.squads[j].war].goal = "TAKE"
               /\ d.war[d.squads[j].war].winner = "ATTACKER"
      BY <2>1, <3>1 DEF NoneBehind
    <3>3. \A v : Live(x, v) <=> Live(d, v)
      BY <1>17, SameWars
    <3> QED
      BY <1>17, <3>1, <3>2, <3>3
  <2> QED
    BY <2>2, <2>3
<1>22. \A q \in Players \ {p} : Own(x, q) = Own(d, q)
  BY <1>6, <1>18, <1>19 DEF Own
<1>23. Own(x, p) = Own(d, p) \cup {i} /\ i \notin Own(d, p)
  BY <1>3, <1>6, <1>18, <1>19 DEF Own
<1>24. \A q : Own(d, q) \subseteq Squads(d)
  BY DEF Own
<1>25. ASSUME Accounts(d) PROVE Accounts(x)
  <2>1. SUFFICES ASSUME NEW q \in Players
        PROVE  /\ x.crew[q].guns + Manned(x, q) + Carried(x, q) = StartCrew[q]
               /\ x.crew[q].busy = Out(x, q)
               /\ x.crew[q].posted + LeftPosted(x, q) >= Manned(x, q)
    BY DEF Accounts
  <2>2. Held(x, q) = Held(d, q)
    BY <1>17 DEF Held
  <2>3. Manned(x, q) = Manned(d, q) /\ Manned(d, q) \in Nat
    BY <1>1, <1>17, <2>2, SameManned, HeldSums
  <2>4. /\ d.crew[q].guns + Manned(d, q) + Carried(d, q) = StartCrew[q]
        /\ d.crew[q].busy = Out(d, q)
        /\ d.crew[q].posted + LeftPosted(d, q) >= Manned(d, q)
    BY <1>25 DEF Accounts
  <2>5. CASE q # p
    <3>1. \A j \in Own(d, q) : x.squads[j] = d.squads[j]
      BY <1>18, <1>24
    <3>2. /\ [j \in Own(x, q) |-> x.squads[j].sent - x.squads[j].posted]
             = [j \in Own(d, q) |-> d.squads[j].sent - d.squads[j].posted]
          /\ [j \in Own(x, q) |-> x.squads[j].sent - x.squads[j].creditedThugs]
             = [j \in Own(d, q) |-> d.squads[j].sent - d.squads[j].creditedThugs]
          /\ [j \in Own(x, q) |-> x.squads[j].posted] = [j \in Own(d, q) |-> d.squads[j].posted]
      BY <1>22, <2>5, <3>1
    <3>3. Carried(x, q) = Carried(d, q) /\ Out(x, q) = Out(d, q) /\ LeftPosted(x, q) = LeftPosted(d, q)
      BY <3>2 DEF Carried, Out, LeftPosted
    <3>4. x.crew[q] = d.crew[q]
      BY <1>15, <1>17, <2>5
    <3> QED
      BY <2>3, <2>4, <3>3, <3>4
  <2>6. CASE q = p
    <3>1. PICK own : own = Own(d, p)
      OBVIOUS
    <3>2. IsFiniteSet(own) /\ own \subseteq Squads(d) /\ i \notin own /\ Own(x, p) = own \cup {i}
      BY <1>1, <1>23, <1>24, <3>1, OwnSums
    <3>3. PICK carried : carried = [j \in own \cup {i} |-> x.squads[j].sent - x.squads[j].posted]
      OBVIOUS
    <3>4. PICK out : out = [j \in own \cup {i} |-> x.squads[j].sent - x.squads[j].creditedThugs]
      OBVIOUS
    <3>5. PICK left : left = [j \in own \cup {i} |-> x.squads[j].posted]
      OBVIOUS
    <3>6. Ints(carried, own \cup {i}) /\ Ints(out, own \cup {i}) /\ Ints(left, own \cup {i})
      <4>1. ASSUME NEW j \in own \cup {i} PROVE carried[j] \in Int /\ out[j] \in Int /\ left[j] \in Int
        <5>1. j \in Squads(x)
          BY <1>18, <3>2
        <5>2. /\ x.squads[j].sent \in Nat /\ x.squads[j].posted \in Nat
              /\ x.squads[j].creditedThugs \in Nat
          BY <1>17, <5>1, SquadIs
        <5> QED
          BY <3>3, <3>4, <3>5, <5>2
      <4> QED
        BY <4>1 DEF Ints
    <3>7. carried[i] = n /\ out[i] = n /\ left[i] = 0
      BY <1>6, <1>19, <3>3, <3>4, <3>5
    <3>8. /\ Carried(x, p) = Sum(carried, own \cup {i}) /\ Out(x, p) = Sum(out, own \cup {i})
          /\ LeftPosted(x, p) = Sum(left, own \cup {i})
      BY <3>2, <3>3, <3>4, <3>5, SumOver DEF Carried, Out, LeftPosted
    <3>9. Sum(carried, own \cup {i}) = n + Sum(carried, own)
      BY <3>2, <3>6, <3>7, SumAdd
    <3>10. Sum(out, own \cup {i}) = n + Sum(out, own)
      BY <3>2, <3>6, <3>7, SumAdd
    <3>11. Sum(left, own \cup {i}) = 0 + Sum(left, own)
      BY <3>2, <3>6, <3>7, SumAdd
    <3>12. \A j \in own : x.squads[j] = d.squads[j]
      BY <1>18, <3>2
    <3>13. Sum(carried, own) = Carried(d, p)
      <4>1. PICK f : f = [j \in Own(d, p) |-> d.squads[j].sent - d.squads[j].posted]
        OBVIOUS
      <4>2. \A j \in own : carried[j] = f[j]
        BY <3>1, <3>3, <3>12, <4>1
      <4>3. Carried(d, p) = Sum(f, own)
        BY <3>1, <4>1, SumOver DEF Carried
      <4> QED
        BY <3>2, <4>2, <4>3, SumSame
    <3>14. Sum(out, own) = Out(d, p)
      <4>1. PICK f : f = [j \in Own(d, p) |-> d.squads[j].sent - d.squads[j].creditedThugs]
        OBVIOUS
      <4>2. \A j \in own : out[j] = f[j]
        BY <3>1, <3>4, <3>12, <4>1
      <4>3. Out(d, p) = Sum(f, own)
        BY <3>1, <4>1, SumOver DEF Out
      <4> QED
        BY <3>2, <4>2, <4>3, SumSame
    <3>15. Sum(left, own) = LeftPosted(d, p)
      <4>1. PICK f : f = [j \in Own(d, p) |-> d.squads[j].posted]
        OBVIOUS
      <4>2. \A j \in own : left[j] = f[j]
        BY <3>1, <3>5, <3>12, <4>1
      <4>3. LeftPosted(d, p) = Sum(f, own)
        BY <3>1, <4>1, SumOver DEF LeftPosted
      <4> QED
        BY <3>2, <4>2, <4>3, SumSame
    <3>16. Carried(d, p) \in Int /\ Out(d, p) \in Int /\ LeftPosted(d, p) \in Nat
      BY <1>1, OwnSums
    <3>17. x.crew[p] = crew
      BY <1>15, <1>17
    <3> QED
      BY <1>10, <1>12, <1>13, <2>3, <2>4, <2>6, <3>8, <3>9, <3>10, <3>11, <3>13, <3>14, <3>15, <3>16, <3>17
  <2> QED
    BY <2>5, <2>6
<1> QED
  BY <1>17, <1>20, <1>21, <1>25, SameWarsActs

\* A war that goes on, changed but for who fights whom over what.
LEMMA WarActs ==
  ASSUME NEW d, Typed(d), NEW w \in Wars, Live(d, w), NEW new \in War, SameWar(d.war[w], new),
         new.control = d.war[w].control, new.status = d.war[w].status,
         new.fight = d.war[w].fight \/ (new.fight # None /\ d.war[w].fight = None
                                        /\ (new.fight.kind = "BREAK" => d.war[w].status = "SIEGE")),
         NEW x, JustWar(d, x, w), x.war[w] = new, NEW p
  PROVE  /\ Acts(d, x, p) /\ Live(x, w) /\ x.war[w] = new /\ x.crew = d.crew /\ x.block = d.block
         /\ x.squads = d.squads
<1>1. d \in Rows /\ d.war[w] # None
  BY DEF Typed, Live
<1>2. JustWar(d, x, w) /\ x.war[w] = new
  OBVIOUS
<1>3. new # None
  BY NoneIsNone
<1>4. x.crew = d.crew /\ x.block = d.block /\ x.squads = d.squads /\ \A v \in Wars \ {w} : x.war[v] = d.war[v]
  BY <1>2 DEF JustWar
<1>5. Live(x, w) /\ \A v \in Wars : Live(x, v) <=> Live(d, v)
  BY <1>2, <1>3, <1>4 DEF Live
<1>6. d.war[w].control <= Full /\ (d.war[w].fight # None /\ d.war[w].fight.kind = "BREAK" => d.war[w].status = "SIEGE")
  BY <1>1 DEF Typed, WarsSound
<1>7. Typed(x) /\ Later(d, x) /\ (Accounts(d) => Accounts(x))
  <2>1. x.war[w].status # "ENDED" /\ x.war[w].fight # None /\ x.war[w].fight.kind = "BREAK" =>
          x.war[w].status = "SIEGE"
    BY <1>2, <1>6
  <2>2. x.war[w] \in War /\ SameWar(d.war[w], x.war[w]) /\ x.war[w].control <= Full
    BY <1>2, <1>6
  <2>3. /\ Typed(x) /\ Later(d, x) /\ Squads(x) = Squads(d)
        /\ \A v \in Wars \ {w} : Live(x, v) <=> Live(d, v)
        /\ Accounts(d) => Accounts(x)
    <3>1. d.war[w] # None /\ JustWar(d, x, w)
      BY <1>1, <1>2
    <3> QED
      BY <2>1, <2>2, <3>1, WarTyped
  <2> QED
    BY <2>3
<1>8. ASSUME NoneBehind(d) PROVE NoneBehind(x)
  <2>1. ASSUME NEW i \in Squads(x), x.squads[i].active, x.squads[i].thugs > 0
        PROVE  IF x.squads[i].war # w THEN x.squads[i] = d.squads[i]
               ELSE IF Live(x, w)
               THEN x.war[w].fight # None \/ (x.squads[i].side = "ATTACKER" /\ x.war[w].status = "SIEGE")
               ELSE x.squads[i].role = "DECLARER" /\ x.war[w].goal = "TAKE" /\ x.war[w].winner = "ATTACKER"
    <3>1. i \in Squads(d)
      BY <1>4, SameSquads
    <3>2. d.squads[i].war = w =>
            d.war[w].fight # None \/ (d.squads[i].side = "ATTACKER" /\ d.war[w].status = "SIEGE")
      BY <1>4, <1>8, <2>1, <3>1 DEF NoneBehind
    <3> QED
      BY <1>2, <1>4, <1>5, <3>2
  <2> QED
    BY <1>4, <1>7, <1>8, <2>1, StillBehind
<1>9. EndedInTime(d) => EndedInTime(x)
  <2>1. SUFFICES ASSUME EndedInTime(d), NEW v \in Wars, x.war[v] # None, ~Live(x, v)
        PROVE /\ x.war[v].endedAt <= x.war[v].endsBy
              /\ x.war[v].reason # "ABANDONED" /\ x.war[v].fight # None =>
                   x.war[v].fight.landsAt >= x.war[v].endedAt
    BY DEF EndedInTime
  <2>2. x.war[v] = d.war[v] /\ ~Live(d, v)
    BY <1>4, <1>5, <2>1
  <2> QED
    BY <2>1, <2>2 DEF EndedInTime
<1>10. OneWarEach(d) => OneWarEach(x)
  <2>1. SUFFICES ASSUME OneWarEach(d), NEW u \in LiveWars(x), NEW v \in LiveWars(x),
                        x.war[u].block = x.war[v].block
        PROVE  u = v
    BY DEF OneWarEach
  <2>2. u \in LiveWars(d) /\ v \in LiveWars(d)
    BY <1>5 DEF LiveWars
  <2>3. x.war[u].block = d.war[u].block /\ x.war[v].block = d.war[v].block
    BY <1>2, <1>4 DEF SameWar, LiveWars
  <2> QED
    BY <2>1, <2>2, <2>3 DEF OneWarEach
<1> QED
  BY <1>1, <1>2, <1>3, <1>4, <1>5, <1>7, <1>8, <1>9, <1>10 DEF Acts, Live

LEMMA SizesNat ==
  ASSUME NEW d, NEW p, NEW n \in Sizes(d, p)
  PROVE  n \in Nat /\ n <= d.crew[p].guns
  BY Numerals DEF Sizes

LEMMA SendsActs ==
  ASSUME NEW d, NEW e, Typed(e), NEW p \in Players, Acts(d, e, p), e.block = d.block, e.crew = d.crew,
         NEW w \in Wars, Live(e, w), NEW side \in Sides, NEW role \in {"DECLARER", "HOLDER", "ALLY"},
         role = "DECLARER" => p = e.war[w].attacker /\ side = "ATTACKER",
         e.war[w].fight # None \/ (side = "ATTACKER" /\ e.war[w].status = "SIEGE"),
         NEW S, S \subseteq Sizes(d, p), NEW x \in Sends(e, p, w, side, role, S)
  PROVE  Acts(d, x, p)
<1>1. NextSquad(e) <= MaxSquads
  <2>1. ~(NextSquad(e) > MaxSquads)
    BY DEF Sends
  <2>2. PICK m : m = Max({0} \cup Squads(e))
    OBVIOUS
  <2>3. m \in Int
    <3>1. PICK T : T = {0} \cup Squads(e)
      OBVIOUS
    <3>2. IsFiniteSet(T)
      <4>1. T = Squads(e) \cup {0}
        BY <3>1
      <4> QED
        BY <4>1, SquadsFinite, FS_AddElement
    <3>3. (\A y \in T : y \in Int) /\ T # {}
      BY <3>1, Numerals DEF Squads, Numbers
    <3>4. Max(T) \in T
      BY <3>2, <3>3, MinMax
    <3> QED
      BY <2>2, <3>1, <3>3, <3>4
  <2>4. NextSquad(e) = 1 + m
    BY <2>2 DEF NextSquad
  <2> QED
    BY <2>1, <2>3, <2>4, Numerals
<1>2. PICK n \in S : x = Sent(e, p, w, side, role, n)
  BY DEF Sends
<1>3. n \in Nat /\ n <= e.crew[p].guns
  BY SizesNat
<1>4. Acts(e, x, p)
  BY <1>1, <1>2, <1>3, SentIs
<1> QED
  BY <1>4, ActsOn

LEMMA DefendActs ==
  ASSUME NEW d, Typed(d), NEW p \in Players, NEW w \in Wars, Live(d, w), NEW now \in Nat,
         NEW x \in Defend(d, p, w, now)
  PROVE  Acts(d, x, p)
<1>1. d.war[w].fight # None
  BY DEF Defend, Coming
<1>2. x \in Sends(d, p, w, "DEFENDER", "HOLDER", Sizes(d, p))
  BY DEF Defend
<1>3. Acts(d, d, p)
  BY ActsSelf
<1>4. "DEFENDER" \in Sides
  BY DEF Sides
<1>5. PICK S : S = Sizes(d, p)
  OBVIOUS
<1>6. PICK role \in {"DECLARER", "HOLDER", "ALLY"} : role = "HOLDER"
  OBVIOUS
<1>7. x \in Sends(d, p, w, "DEFENDER", role, S) /\ S \subseteq Sizes(d, p) /\ role # "DECLARER"
  BY <1>2, <1>5, <1>6
<1> QED
  BY <1>1, <1>3, <1>4, <1>7, SendsActs

\* A fight is mustered where none is pending.
LEMMA MusteredActs ==
  ASSUME NEW d, Typed(d), NEW p, NEW w \in Wars, Live(d, w), NEW now \in Nat,
         d.war[w].fight = None, NEW kind \in {"ASSAULT", "BREAK"},
         kind = "BREAK" => d.war[w].status = "SIEGE", NEW x, x = Mustered(d, w, kind, now)
  PROVE  /\ Acts(d, x, p) /\ Typed(x) /\ Live(x, w) /\ x.war[w].fight # None /\ x.crew = d.crew /\ x.block = d.block
         /\ x.war[w].attacker = d.war[w].attacker
<1>1. d \in Rows /\ d.war[w] # None /\ d.war[w] \in War
  BY WarIs DEF Typed, Live
<1>2. PICK at : at = now + Muster
  OBVIOUS
<1>3. PICK fight : fight = NewFight(kind, at)
  OBVIOUS
<1>4. at \in Nat
  BY <1>2, Numerals
<1>5. fight \in Fight /\ fight.kind = kind
  BY <1>3, <1>4 DEF NewFight, Fight
<1>6. fight # None
  BY <1>5, NoneIsNone
<1>7. PICK old : old = d.war[w]
  OBVIOUS
<1>8. PICK new : new = [old EXCEPT !.fight = fight]
  OBVIOUS
<1>9. new \in War /\ SameWar(old, new) /\ new.control = old.control /\ new.status = old.status /\ new.fight = fight
  BY <1>1, <1>5, <1>7, <1>8 DEF War, SameWar
<1>10. x = [d EXCEPT !.war[w] = new]
  BY <1>2, <1>3, <1>7, <1>8 DEF Mustered
<1>11. JustWar(d, x, w) /\ x.war[w] = new
  BY <1>1, <1>9, <1>10, SetWar
<1>12. Acts(d, x, p) /\ Live(x, w) /\ x.war[w] = new /\ x.crew = d.crew /\ x.block = d.block /\ x.squads = d.squads
  <2>1. /\ SameWar(d.war[w], new) /\ new.control = d.war[w].control /\ new.status = d.war[w].status
        /\ new.fight = d.war[w].fight \/ (new.fight # None /\ d.war[w].fight = None
                                          /\ (new.fight.kind = "BREAK" => d.war[w].status = "SIEGE"))
    BY <1>5, <1>6, <1>7, <1>9
  <2> HIDE <1>10
  <2> QED
    BY <1>9, <1>11, <2>1, WarActs
<1>13. x.war[w].fight # None /\ x.war[w].attacker = d.war[w].attacker
  BY <1>6, <1>7, <1>9, <1>11 DEF SameWar
<1> QED
  BY <1>12, <1>13 DEF Acts

LEMMA BreakActs ==
  ASSUME NEW d, Typed(d), NEW p \in Players, NEW w \in Wars, Live(d, w), NEW now \in Nat,
         NEW x \in BreakSiege(d, p, w, now)
  PROVE  Acts(d, x, p)
<1>1. d.war[w].status = "SIEGE" /\ d.war[w].fight = None
  BY DEF BreakSiege
<1>2. PICK e : e = Mustered(d, w, "BREAK", now)
  OBVIOUS
<1>3. /\ Acts(d, e, p) /\ Typed(e) /\ Live(e, w) /\ e.war[w].fight # None /\ e.crew = d.crew /\ e.block = d.block
      /\ e.war[w].attacker = d.war[w].attacker
  BY <1>1, <1>2, MusteredActs
<1>4. x \in Sends(e, p, w, "DEFENDER", "HOLDER", Sizes(d, p))
  BY <1>2 DEF BreakSiege
<1>5. "DEFENDER" \in Sides
  BY DEF Sides
<1>6. PICK S : S = Sizes(d, p)
  OBVIOUS
<1>7. PICK role \in {"DECLARER", "HOLDER", "ALLY"} : role = "HOLDER"
  OBVIOUS
<1>8. x \in Sends(e, p, w, "DEFENDER", role, S) /\ S \subseteq Sizes(d, p) /\ role # "DECLARER"
  BY <1>4, <1>6, <1>7
<1> QED
  BY <1>3, <1>5, <1>8, SendsActs

LEMMA AssaultActs ==
  ASSUME NEW d, Typed(d), NEW p \in Players, NEW w \in Wars, Live(d, w), NEW now \in Nat,
         NEW x \in Assault(d, p, w, now)
  PROVE  Acts(d, x, p)
<1>1. d.war[w].attacker = p /\ d.war[w].fight = None
  BY DEF Assault
<1>2. PICK e : e = Mustered(d, w, "ASSAULT", now)
  OBVIOUS
<1>3. /\ Acts(d, e, p) /\ Typed(e) /\ Live(e, w) /\ e.war[w].fight # None /\ e.crew = d.crew /\ e.block = d.block
      /\ e.war[w].attacker = d.war[w].attacker
  BY <1>1, <1>2, MusteredActs
<1>4. x \in Sends(e, p, w, "ATTACKER", "DECLARER", Sizes(d, p))
  BY <1>2 DEF Assault
<1>5. "ATTACKER" \in Sides
  BY DEF Sides
<1>6. PICK S : S = Sizes(d, p)
  OBVIOUS
<1>7. PICK role \in {"DECLARER", "HOLDER", "ALLY"} : role = "DECLARER"
  OBVIOUS
<1>8. x \in Sends(e, p, w, "ATTACKER", role, S) /\ S \subseteq Sizes(d, p) /\ p = e.war[w].attacker
  BY <1>1, <1>3, <1>4, <1>6, <1>7
<1> QED
  BY <1>3, <1>5, <1>8, SendsActs

LEMMA CallActs ==
  ASSUME NEW d, Typed(d), NEW p, NEW w \in Wars, Live(d, w), NEW now \in Nat, NEW x \in CallAlly(d, p, w, now)
  PROVE  Acts(d, x, p)
<1>1. d \in Rows /\ d.war[w] # None /\ d.war[w] \in War /\ d.war[w].callUntil \in [Sides -> Nat]
  BY WarIs DEF Typed, Live
<1>2. PICK side \in Sides : x = [d EXCEPT !.war[w].callUntil[side] =
        IF Joinable(d, w, side, now) THEN d.war[w].fight.landsAt ELSE now + SiegeCall]
  BY DEF CallAlly
<1>3. PICK until : until = IF Joinable(d, w, side, now) THEN d.war[w].fight.landsAt ELSE now + SiegeCall
  OBVIOUS
<1>4. until \in Nat
  <2>1. CASE Joinable(d, w, side, now)
    <3>1. d.war[w].fight # None
      BY <2>1 DEF Joinable, Coming
    <3> QED
      BY <1>1, <1>3, <2>1, <3>1, FightIs
  <2>2. CASE ~Joinable(d, w, side, now)
    BY <1>3, <2>2, Numerals
  <2> QED
    BY <2>1, <2>2
<1>5. PICK old : old = d.war[w]
  OBVIOUS
<1>6. PICK calls : calls = [old.callUntil EXCEPT ![side] = until]
  OBVIOUS
<1>7. calls \in [Sides -> Nat]
  BY <1>1, <1>4, <1>5, <1>6
<1>8. PICK new : new = [old EXCEPT !.callUntil = calls]
  OBVIOUS
<1>9. new \in War /\ SameWar(old, new) /\ new.control = old.control /\ new.status = old.status /\ new.fight = old.fight
  BY <1>1, <1>5, <1>7, <1>8 DEF War, SameWar
<1>10. [d EXCEPT !.war[w].callUntil[side] = until] = [d EXCEPT !.war[w] = new]
  BY <1>5, <1>6, <1>8
<1>11. JustWar(d, x, w) /\ x.war[w] = new
  <2>1. x = [d EXCEPT !.war[w] = new]
    BY <1>2, <1>3, <1>10
  <2> QED
    BY <1>1, <1>9, <2>1, SetWar
<1>12. /\ SameWar(d.war[w], new) /\ new.control = d.war[w].control /\ new.status = d.war[w].status
       /\ new.fight = d.war[w].fight
  BY <1>5, <1>9
<1> QED
  BY <1>9, <1>11, <1>12, WarActs

LEMMA AnswerActs ==
  ASSUME NEW d, Typed(d), NEW p \in Players, NEW w \in Wars, Live(d, w), NEW now \in Nat,
         NEW x \in Answer(d, p, w, now)
  PROVE  Acts(d, x, p)
<1>1. d \in Rows /\ d.war[w] # None /\ d.war[w] \in War /\ d.war[w].ally \in [Sides -> Players \cup {None}]
  BY WarIs DEF Typed, Live
<1> DEFINE room == ThugsIn(d, Declaring(d, w)) - ThugsIn(d, Active(d, w) \cap Own(d, p))
           S == {n \in Sizes(d, p) : n <= room}
<1>2. PICK side \in {s \in Sides : MayAnswer(d, p, w, s, now)} :
        x \in Sends([d EXCEPT !.war[w].ally[side] = p], p, w, side, "ALLY", S)
  BY DEF Answer
<1>3. S \subseteq Sizes(d, p)
  OBVIOUS
<1> HIDE DEF room, S
<1>4. side \in Sides /\ MayAnswer(d, p, w, side, now)
  OBVIOUS
<1>5. d.war[w].fight # None \/ (side = "ATTACKER" /\ d.war[w].status = "SIEGE")
  BY <1>4 DEF MayAnswer, Joinable, Coming
<1>6. PICK old : old = d.war[w]
  OBVIOUS
<1>7. PICK allies : allies = [old.ally EXCEPT ![side] = p]
  OBVIOUS
<1>8. allies \in [Sides -> Players \cup {None}]
  BY <1>1, <1>4, <1>6, <1>7
<1>9. PICK new : new = [old EXCEPT !.ally = allies]
  OBVIOUS
<1>10. new \in War /\ SameWar(old, new) /\ new.control = old.control /\ new.status = old.status /\ new.fight = old.fight
  BY <1>1, <1>6, <1>8, <1>9 DEF War, SameWar
<1>11. PICK e : e = [d EXCEPT !.war[w].ally[side] = p]
  OBVIOUS
<1>12. JustWar(d, e, w) /\ e.war[w] = new
  <2>1. e = [d EXCEPT !.war[w] = new]
    BY <1>6, <1>7, <1>9, <1>11
  <2> QED
    BY <1>1, <1>10, <2>1, SetWar
<1>13. /\ SameWar(d.war[w], new) /\ new.control = d.war[w].control /\ new.status = d.war[w].status
       /\ new.fight = d.war[w].fight
  BY <1>6, <1>10
<1>14. Acts(d, e, p) /\ Live(e, w) /\ e.war[w] = new /\ e.crew = d.crew /\ e.block = d.block /\ e.squads = d.squads
  BY <1>10, <1>12, <1>13, WarActs
<1>15. e.war[w].fight # None \/ (side = "ATTACKER" /\ e.war[w].status = "SIEGE")
  BY <1>5, <1>13, <1>14
<1>16. PICK role \in {"DECLARER", "HOLDER", "ALLY"} : role = "ALLY"
  OBVIOUS
<1>17. x \in Sends(e, p, w, side, role, S) /\ role # "DECLARER" /\ Typed(e)
  BY <1>2, <1>11, <1>14, <1>16 DEF Acts
<1> QED
  BY <1>3, <1>4, <1>14, <1>15, <1>17, SendsActs

LEMMA MayDeclareIs ==
  ASSUME NEW d \in Rows, NEW p \in Players, NEW b \in Blocks, NEW now, MayDeclare(d, p, b, now)
  PROVE  /\ d.block[b].holder \in Players /\ d.block[b].holder # p
         /\ \A w \in LiveWars(d) : d.war[w].block # b
<1>1. d.block[b].holder \notin {None, p} /\ \A w \in LiveWars(d) : d.war[w].block # b
  BY DEF MayDeclare
<1>2. d.block[b].holder \in Players \cup {None}
  BY BlockIs
<1> QED
  BY <1>1, <1>2

LEMMA NewWarIs ==
  ASSUME NEW p \in Players, NEW q \in Players, NEW b \in Blocks, NEW goal \in {"TAKE", "SACK"}, NEW now \in Nat,
         NEW new, new = NewWar(p, q, b, goal, now)
  PROVE  /\ new \in War /\ new # None /\ new.block = b /\ new.attacker = p /\ new.status = "OPENING"
         /\ new.control = 0 /\ new.fight # None /\ new.fight.kind = "OPENING"
<1>1. PICK fight : fight = NewFight("OPENING", now + Warning)
  OBVIOUS
<1>2. now + Warning \in Nat /\ now + WarLength \in Nat
  BY Numerals
<1>3. fight \in Fight /\ fight.kind = "OPENING" /\ fight # None
  <2>1. fight \in Fight /\ fight.kind = "OPENING"
    BY <1>1, <1>2 DEF NewFight, Fight
  <2> QED
    BY <2>1, NoneIsNone
<1>4. PICK allies : allies = [side \in Sides |-> None]
  OBVIOUS
<1>5. PICK calls : calls = [side \in Sides |-> 0]
  OBVIOUS
<1>6. allies \in [Sides -> Players \cup {None}] /\ calls \in [Sides -> Nat]
  BY <1>4, <1>5
<1>7. PICK until : until = now + WarLength
  OBVIOUS
<1>8. new = [block |-> b, attacker |-> p, defender |-> q, goal |-> goal, status |-> "OPENING",
             endsBy |-> until, control |-> 0, controlAt |-> 0, nextAssaultAt |-> 0,
             fight |-> fight, ally |-> allies,
             callUntil |-> calls, winner |-> None, reason |-> "", endedAt |-> 0]
  BY <1>1, <1>4, <1>5, <1>7 DEF NewWar
<1>9. PICK why : why = ""
  OBVIOUS
<1>10. PICK reasons : reasons = {"", "CONTROL", "CONCEDED", "WITHDREW", "TIMEOUT", "ABANDONED", "CUTOFF"}
  OBVIOUS
<1>11. why \in reasons
  BY <1>9, <1>10, Zenon
<1>12. new = [block |-> b, attacker |-> p, defender |-> q, goal |-> goal, status |-> "OPENING",
             endsBy |-> until, control |-> 0, controlAt |-> 0, nextAssaultAt |-> 0,
             fight |-> fight, ally |-> allies,
             callUntil |-> calls, winner |-> None, reason |-> why, endedAt |-> 0]
  BY <1>8, <1>9, Zenon
<1>13. War = [block: Blocks, attacker: Players, defender: Players, goal: {"TAKE", "SACK"},
        status: {"OPENING", "BETWEEN", "SIEGE", "ENDED"}, endsBy: Nat,
        control: Nat, controlAt: Nat, nextAssaultAt: Nat, fight: Fight \cup {None},
        ally: [Sides -> Players \cup {None}], callUntil: [Sides -> Nat],
        winner: Sides \cup {None}, reason: reasons, endedAt: Nat]
  BY <1>10, Zenon DEF War
<1>14. new \in War
  BY <1>2, <1>3, <1>6, <1>7, <1>11, <1>12, <1>13, SMT
<1> QED
  BY <1>3, <1>12, <1>14, NoneIsNone

\* A war is begun where none was, for a block no other is about.
LEMMA BegunActs ==
  ASSUME NEW d, Typed(d), NEW w \in Wars, d.war[w] = None, NEW new \in War, new # None,
         \A v \in LiveWars(d) : d.war[v].block # new.block, new.status = "OPENING",
         new.control = 0, new.fight # None, new.fight.kind = "OPENING",
         NEW x, JustWar(d, x, w), x.war[w] = new, NEW p
  PROVE  Acts(d, x, p) /\ Typed(x) /\ Live(x, w)
<1>1. d \in Rows /\ SquadsOf(d) /\ WarsSound(d)
  BY DEF Typed
<1>2. /\ x \in Rows /\ x.crew = d.crew /\ x.block = d.block /\ x.squads = d.squads
      /\ \A v \in Wars \ {w} : x.war[v] = d.war[v]
  BY DEF JustWar
<1>3. Squads(x) = Squads(d)
  BY <1>2, SameSquads
<1>4. ASSUME NEW i \in Squads(d)
      PROVE  /\ d.squads[i].war \in Wars /\ d.squads[i].war # w /\ x.war[d.squads[i].war] = d.war[d.squads[i].war]
             /\ x.squads[i] = d.squads[i]
  <2>1. d.squads[i].war \in Wars /\ d.war[d.squads[i].war] # None
    BY <1>1, SquadIs DEF SquadsOf
  <2> QED
    BY <1>2, <2>1
<1>5. /\ Live(x, w) /\ ~Live(d, w) /\ \A v \in Wars \ {w} : Live(x, v) <=> Live(d, v)
  BY <1>2 DEF Live
<1>6. SquadsOf(x)
  BY <1>1, <1>3, <1>4 DEF SquadsOf
<1>7. WarsSound(x)
  <2>1. SUFFICES ASSUME NEW v \in Wars, x.war[v] # None
        PROVE  /\ x.war[v].control <= Full
               /\ Live(x, v) /\ x.war[v].fight # None /\ x.war[v].fight.kind = "BREAK" => x.war[v].status = "SIEGE"
    BY DEF WarsSound
  <2>2. CASE v = w
    BY <2>2, Numerals
  <2>3. CASE v # w
    BY <1>1, <1>2, <1>5, <2>1, <2>3 DEF WarsSound
  <2> QED
    BY <2>2, <2>3
<1>8. Typed(x)
  BY <1>2, <1>6, <1>7 DEF Typed
<1>9. OneWarEach(d) => OneWarEach(x)
  <2>1. SUFFICES ASSUME OneWarEach(d), NEW u \in LiveWars(x), NEW v \in LiveWars(x), x.war[u].block = x.war[v].block
        PROVE  u = v
    BY DEF OneWarEach
  <2>2. u \in Wars /\ v \in Wars /\ Live(x, u) /\ Live(x, v)
    BY DEF LiveWars
  <2>3. u # w => u \in LiveWars(d) /\ d.war[u] = x.war[u]
    BY <1>2, <1>5, <2>2 DEF LiveWars
  <2>4. v # w => v \in LiveWars(d) /\ d.war[v] = x.war[v]
    BY <1>2, <1>5, <2>2 DEF LiveWars
  <2> QED
    BY <2>1, <2>3, <2>4 DEF OneWarEach
<1>10. Accounts(d) => Accounts(x)
  <2>1. SameLedger(d, x)
    BY <1>2, <1>3 DEF SameLedger
  <2> QED
    BY <1>2, <2>1, AccountsSame
<1>11. NoneBehind(d) => NoneBehind(x)
  <2>1. ASSUME NEW i \in Squads(d) PROVE Live(x, d.squads[i].war) <=> Live(d, d.squads[i].war)
    BY <1>4, <1>5
  <2>2. SUFFICES ASSUME NoneBehind(d), NEW i \in Squads(d), x.squads[i].active, x.squads[i].thugs > 0
        PROVE  IF Live(x, x.squads[i].war)
               THEN x.war[x.squads[i].war].fight # None
                    \/ (x.squads[i].side = "ATTACKER" /\ x.war[x.squads[i].war].status = "SIEGE")
               ELSE /\ x.squads[i].role = "DECLARER" /\ x.war[x.squads[i].war].goal = "TAKE"
                    /\ x.war[x.squads[i].war].winner = "ATTACKER"
    BY <1>3 DEF NoneBehind
  <2>3. x.squads[i] = d.squads[i] /\ x.war[d.squads[i].war] = d.war[d.squads[i].war]
    BY <1>4
  <2>4. IF Live(d, d.squads[i].war)
        THEN d.war[d.squads[i].war].fight # None
             \/ (d.squads[i].side = "ATTACKER" /\ d.war[d.squads[i].war].status = "SIEGE")
        ELSE /\ d.squads[i].role = "DECLARER" /\ d.war[d.squads[i].war].goal = "TAKE"
             /\ d.war[d.squads[i].war].winner = "ATTACKER"
    BY <2>2, <2>3 DEF NoneBehind
  <2> QED
    BY <2>1, <2>3, <2>4
<1>12. EndedInTime(d) => EndedInTime(x)
  BY <1>2, <1>5 DEF EndedInTime
<1>13. \A v \in Wars : d.war[v] # None => x.war[v] # None
  BY <1>2
<1> QED
  BY <1>2, <1>5, <1>8, <1>9, <1>10, <1>11, <1>12, <1>13 DEF Acts

LEMMA DeclareActs ==
  ASSUME NEW d, Typed(d), NEW p \in Players, NEW b \in Blocks, NEW goal \in {"TAKE", "SACK"}, NEW now \in Nat,
         NEW x \in Declare(d, p, b, goal, now)
  PROVE  Acts(d, x, p)
<1>1. PICK free : free = {w \in Wars : d.war[w] = None}
  OBVIOUS
<1>2. free # {} /\ MayDeclare(d, p, b, now)
  BY <1>1 DEF Declare
<1>3. PICK w : w = Min(free)
  OBVIOUS
<1>4. w \in Wars /\ d.war[w] = None
  <2>1. IsFiniteSet(free)
    BY <1>1, WarAssumption, FS_Subset
  <2>2. \A y \in free : y \in Int
    BY <1>1, WarAssumption
  <2>3. w \in free
    BY <1>2, <1>3, <2>1, <2>2, MinMax
  <2> QED
    BY <1>1, <2>3
<1>5. PICK new : new = NewWar(p, d.block[b].holder, b, goal, now)
  OBVIOUS
<1>6. PICK S : S = {n \in Sizes(d, p) : n >= CornerMin}
  OBVIOUS
<1>7. PICK e : e = [d EXCEPT !.war[w] = new]
  OBVIOUS
<1>8. x \in Sends(e, p, w, "ATTACKER", "DECLARER", S)
  BY <1>1, <1>2, <1>3, <1>5, <1>6, <1>7 DEF Declare
<1>9. d \in Rows
  BY DEF Typed
<1>10. d.block[b].holder \in Players /\ \A v \in LiveWars(d) : d.war[v].block # b
  BY <1>2, <1>9, MayDeclareIs
<1>11. /\ new \in War /\ new # None /\ new.block = b /\ new.attacker = p /\ new.status = "OPENING"
       /\ new.control = 0 /\ new.fight # None /\ new.fight.kind = "OPENING"
  BY <1>5, <1>10, NewWarIs
<1>12. JustWar(d, e, w) /\ e.war[w] = new
  BY <1>4, <1>7, <1>9, <1>11, SetWar
<1>13. \A v \in LiveWars(d) : d.war[v].block # new.block
  BY <1>10, <1>11
<1>14. Acts(d, e, p) /\ Typed(e) /\ Live(e, w)
  BY <1>4, <1>11, <1>12, <1>13, BegunActs
<1>15. e.block = d.block /\ e.crew = d.crew
  BY <1>12 DEF JustWar
<1>16. "ATTACKER" \in Sides
  BY DEF Sides
<1>17. PICK role \in {"DECLARER", "HOLDER", "ALLY"} : role = "DECLARER"
  OBVIOUS
<1>18. x \in Sends(e, p, w, "ATTACKER", role, S) /\ S \subseteq Sizes(d, p)
  BY <1>6, <1>8, <1>17
<1>19. p = e.war[w].attacker /\ e.war[w].fight # None
  BY <1>11, <1>12
<1> QED
  BY <1>4, <1>14, <1>15, <1>16, <1>18, <1>19, SendsActs

-----------------------------------------------------------------------------
(* Corners manned and left *)

\* One block and one crew change.
Garrisoned(d, x, p, b, block, crew) ==
  /\ x \in Rows /\ x.war = d.war /\ x.squads = d.squads
  /\ x.block[b] = block /\ \A c \in Blocks \ {b} : x.block[c] = d.block[c]
  /\ x.crew[p] = crew /\ \A q \in Players \ {p} : x.crew[q] = d.crew[q]

LEMMA GarrisonedIs ==
  ASSUME NEW d \in Rows, NEW p \in Players, NEW b \in Blocks, NEW block \in Block, NEW crew \in Crew,
         NEW x, x = [d EXCEPT !.block[b] = block, !.crew[p] = crew]
  PROVE  Garrisoned(d, x, p, b, block, crew)
<1>1. PICK blocks : blocks = [d.block EXCEPT ![b] = block]
  OBVIOUS
<1>2. PICK crews : crews = [d.crew EXCEPT ![p] = crew]
  OBVIOUS
<1>3. blocks \in [Blocks -> Block] /\ blocks[b] = block /\ \A c \in Blocks \ {b} : blocks[c] = d.block[c]
  BY <1>1, RowsParts
<1>4. crews \in [Players -> Crew] /\ crews[p] = crew /\ \A q \in Players \ {p} : crews[q] = d.crew[q]
  BY <1>2, RowsParts
<1>5. x = [d EXCEPT !.block = blocks, !.crew = crews]
  BY <1>1, <1>2
<1>6. x.block = blocks /\ x.crew = crews /\ x.war = d.war /\ x.squads = d.squads /\ x \in Rows
  BY <1>3, <1>4, <1>5, RowsParts DEF Rows
<1> QED
  BY <1>3, <1>4, <1>6 DEF Garrisoned

\* A player moves k people between his home and a block of his, or of nobody's.
LEMMA GarrisonActs ==
  ASSUME NEW d, Typed(d), NEW p \in Players, NEW b \in Blocks, NEW block \in Block, NEW crew \in Crew,
         NEW k \in Int, crew.guns = d.crew[p].guns - k, crew.busy = d.crew[p].busy,
         crew.posted >= d.crew[p].posted + k,
         (IF block.holder = p THEN block.corner ELSE 0)
           = (IF d.block[b].holder = p THEN d.block[b].corner ELSE 0) + k,
         d.block[b].holder \in {p, None}, block.holder \in {p, None},
         NEW x, Garrisoned(d, x, p, b, block, crew)
  PROVE  Acts(d, x, p)
<1>1. d \in Rows
  BY DEF Typed
<1>2. x.block[b] = block /\ \A c \in Blocks \ {b} : x.block[c] = d.block[c]
  BY DEF Garrisoned
<1>3. x.crew[p] = crew /\ \A q \in Players \ {p} : x.crew[q] = d.crew[q]
  BY DEF Garrisoned
<1>4. x.war = d.war /\ x.squads = d.squads /\ x \in Rows
  BY DEF Garrisoned
<1>5. Squads(x) = Squads(d)
  BY <1>4, SameSquads
<1>6. Typed(x)
  <2>1. Later(d, x)
    BY <1>4, <1>5 DEF Later, SameSquad, SameWar
  <2>2. WarsSound(x)
    BY <1>4, SameWars DEF Typed
  <2>3. \A i \in Squads(x) : SquadSound(x.squads[i])
    BY <1>4, <1>5 DEF Typed, SquadsOf
  <2> QED
    BY <1>4, <2>1, <2>2, <2>3, StillTyped
<1>7. ASSUME Accounts(d) PROVE Accounts(x)
  <2>1. SUFFICES ASSUME NEW q \in Players
        PROVE  /\ x.crew[q].guns + Manned(x, q) + Carried(x, q) = StartCrew[q]
               /\ x.crew[q].busy = Out(x, q)
               /\ x.crew[q].posted + LeftPosted(x, q) >= Manned(x, q)
    BY DEF Accounts
  <2>2. SameLedger(d, x)
    BY <1>4, <1>5 DEF SameLedger
  <2>3. Carried(x, q) = Carried(d, q) /\ Out(x, q) = Out(d, q) /\ LeftPosted(x, q) = LeftPosted(d, q)
    BY <2>2, SameLedgerSums
  <2>4. /\ d.crew[q].guns + Manned(d, q) + Carried(d, q) = StartCrew[q]
        /\ d.crew[q].busy = Out(d, q)
        /\ d.crew[q].posted + LeftPosted(d, q) >= Manned(d, q)
    BY <1>7 DEF Accounts
  <2>5. /\ Manned(x, q) = Manned(d, q) - (IF q = d.block[b].holder THEN d.block[b].corner ELSE 0)
                                       + (IF q = block.holder THEN block.corner ELSE 0)
        /\ Manned(d, q) \in Nat /\ Manned(x, q) \in Nat
    <3>1. /\ Manned(x, q) = Manned(d, q) - (IF q = d.block[b].holder THEN d.block[b].corner ELSE 0)
                                         + (IF q = x.block[b].holder THEN x.block[b].corner ELSE 0)
          /\ Manned(d, q) \in Nat /\ Manned(x, q) \in Nat
      <4>1. \A c \in Blocks \ {b} : x.block[c] = d.block[c]
        BY <1>2, <1>4
      <4> QED
        BY <1>1, <1>4, <4>1, MannedMove
    <3>2. x.block[b] = block
      BY <1>2, <1>4
    <3> QED
      BY <3>1, <3>2
  <2>6. CASE q # p
    <3>1. q # None /\ q # d.block[b].holder /\ q # block.holder
      BY <2>6, NoneIsNone
    <3>2. Manned(x, q) = Manned(d, q)
      BY <2>5, <3>1
    <3>3. x.crew[q] = d.crew[q]
      BY <1>3, <1>4, <2>6
    <3> QED
      BY <2>3, <2>4, <3>2, <3>3
  <2>7. CASE q = p
    <3>1. /\ d.block[b].corner \in Nat /\ block.corner \in Nat
      BY <1>1, BlockIs DEF Block
    <3>2. Manned(x, p) = Manned(d, p) + k
      BY <2>5, <2>7, <3>1
    <3>3. /\ d.crew[p].guns \in Nat /\ d.crew[p].busy \in Nat /\ d.crew[p].posted \in Nat
          /\ crew.guns \in Nat /\ crew.posted \in Nat
      BY <1>1, CrewIs DEF Crew
    <3>4. x.crew[p] = crew
      BY <1>3, <1>4
    <3>5. Carried(d, p) \in Int /\ Out(d, p) \in Int /\ LeftPosted(d, p) \in Nat
      BY <1>1, OwnSums
    <3> QED
      BY <2>3, <2>4, <2>5, <2>7, <3>2, <3>3, <3>4, <3>5
  <2> QED
    BY <2>6, <2>7
<1>8. NoneBehind(d) => NoneBehind(x)
  <2>1. \A v : Live(x, v) <=> Live(d, v)
    BY <1>4 DEF Live
  <2> QED
    BY <1>4, <1>5, <2>1 DEF NoneBehind
<1>9. \A c \in Blocks : \/ x.block[c].holder = d.block[c].holder \/ x.block[c].holder = None
                         \/ (d.block[c].holder = None /\ x.block[c].holder = p)
  BY <1>2, <1>4
<1> QED
  BY <1>4, <1>6, <1>7, <1>8, <1>9, SameWarsActs

\* A crew with other counts of posted people and home guns.
Shifted(old, posted, guns) == [old EXCEPT !.posted = posted, !.guns = guns]

LEMMA ShiftedIs ==
  ASSUME NEW d \in Rows, NEW p \in Players, NEW posted \in Nat, NEW guns \in Nat,
         NEW crew, crew = Shifted(d.crew[p], posted, guns)
  PROVE  crew \in Crew /\ crew.posted = posted /\ crew.guns = guns /\ crew.busy = d.crew[p].busy
<1>1. PICK old : old = d.crew[p]
  OBVIOUS
<1>2. old \in Crew
  BY <1>1, CrewIs
<1>3. crew = [old EXCEPT !.posted = posted, !.guns = guns]
  BY <1>1 DEF Shifted
<1>4. crew \in Crew /\ crew.posted = posted /\ crew.guns = guns /\ crew.busy = old.busy
  BY <1>2, <1>3 DEF Crew
<1> QED
  BY <1>1, <1>4

LEMMA ClaimActs ==
  ASSUME NEW d, Typed(d), NEW p \in Players, NEW b \in Blocks, NEW now \in Nat, NEW x \in Claim(d, p, b, now)
  PROVE  Acts(d, x, p)
<1>1. CASE x = d
  BY <1>1, ActsSelf
<1>2. CASE x # d
  <2>1. d.block[b].holder = None
    BY DEF Claim
  <2>2. PICK n \in Sizes(d, p) :
          x = [d EXCEPT !.block[b] = [holder |-> p, corner |-> n, shield |-> 0, upkeepAt |-> now],
                        !.crew[p] = [d.crew[p] EXCEPT !.posted = @ + n, !.guns = @ - n]]
    BY <1>2 DEF Claim
  <2>3. d \in Rows /\ n \in Nat /\ n <= d.crew[p].guns
    BY SizesNat DEF Typed
  <2>4. d.crew[p].posted \in Nat /\ d.crew[p].guns \in Nat
    BY <2>3, CrewIs
  <2>5. PICK block : block = [holder |-> p, corner |-> n, shield |-> 0, upkeepAt |-> now]
    OBVIOUS
  <2>6. block \in Block /\ block.holder = p /\ block.corner = n
    BY <2>3, <2>5 DEF Block
  <2>7. PICK posted : posted = d.crew[p].posted + n
    OBVIOUS
  <2>8. PICK guns : guns = d.crew[p].guns - n
    OBVIOUS
  <2>9. posted \in Nat /\ guns \in Nat
    BY <2>3, <2>4, <2>7, <2>8
  <2>10. PICK crew : crew = Shifted(d.crew[p], posted, guns)
    OBVIOUS
  <2>11. crew \in Crew /\ crew.posted = posted /\ crew.guns = guns /\ crew.busy = d.crew[p].busy
    BY <2>3, <2>9, <2>10, ShiftedIs
  <2>12. crew = [d.crew[p] EXCEPT !.posted = @ + n, !.guns = @ - n]
    BY <2>7, <2>8, <2>10 DEF Shifted
  <2>13. x = [d EXCEPT !.block[b] = block, !.crew[p] = crew]
    BY <2>2, <2>5, <2>12
  <2>14. (IF block.holder = p THEN block.corner ELSE 0)
           = (IF d.block[b].holder = p THEN d.block[b].corner ELSE 0) + n
    BY <2>1, <2>3, <2>6, NoneIsNone
  <2>15. crew.posted >= d.crew[p].posted + n /\ n \in Int
    BY <2>3, <2>4, <2>7, <2>11
  <2>16. Garrisoned(d, x, p, b, block, crew)
    BY <2>3, <2>6, <2>11, <2>13, GarrisonedIs
  <2> HIDE <2>13
  <2> QED
    BY <2>1, <2>6, <2>8, <2>11, <2>16, <2>14, <2>15, GarrisonActs
<1> QED
  BY <1>1, <1>2

LEMMA PostActs ==
  ASSUME NEW d, Typed(d), NEW p \in Players, NEW b \in Blocks, NEW now \in Nat, NEW x \in Post(d, p, b, now)
  PROVE  Acts(d, x, p)
<1>1. d.block[b].holder = p
  BY DEF Post
<1>2. PICK n \in Sizes(d, p) :
        x = [d EXCEPT !.block[b] = [d.block[b] EXCEPT !.corner = @ + n, !.upkeepAt = now],
                      !.crew[p] = [d.crew[p] EXCEPT !.posted = @ + n, !.guns = @ - n]]
  BY <1>1 DEF Post
<1>3. d \in Rows /\ n \in Nat /\ n <= d.crew[p].guns
  BY SizesNat DEF Typed
<1>4. d.crew[p].posted \in Nat /\ d.crew[p].guns \in Nat
  BY <1>3, CrewIs
<1>5. PICK old : old = d.block[b]
  OBVIOUS
<1>6. old \in Block /\ old.holder = p /\ old.corner \in Nat
  BY <1>1, <1>3, <1>5, BlockIs
<1>7. PICK block : block = [old EXCEPT !.corner = @ + n, !.upkeepAt = now]
  OBVIOUS
<1>8. block \in Block /\ block.holder = p /\ block.corner = old.corner + n
  <2>1. old.corner + n \in Nat
    BY <1>3, <1>6
  <2> QED
    BY <1>6, <1>7, <2>1 DEF Block
<1>9. PICK posted : posted = d.crew[p].posted + n
  OBVIOUS
<1>10. PICK guns : guns = d.crew[p].guns - n
  OBVIOUS
<1>11. posted \in Nat /\ guns \in Nat
  BY <1>3, <1>4, <1>9, <1>10
<1>12. PICK crew : crew = Shifted(d.crew[p], posted, guns)
  OBVIOUS
<1>13. crew \in Crew /\ crew.posted = posted /\ crew.guns = guns /\ crew.busy = d.crew[p].busy
  BY <1>3, <1>11, <1>12, ShiftedIs
<1>14. crew = [d.crew[p] EXCEPT !.posted = @ + n, !.guns = @ - n]
  BY <1>9, <1>10, <1>12 DEF Shifted
<1>15. x = [d EXCEPT !.block[b] = block, !.crew[p] = crew]
  BY <1>2, <1>5, <1>7, <1>14
<1>16. (IF block.holder = p THEN block.corner ELSE 0)
         = (IF d.block[b].holder = p THEN d.block[b].corner ELSE 0) + n
  BY <1>1, <1>5, <1>8
<1>17. crew.posted >= d.crew[p].posted + n /\ n \in Int
  BY <1>3, <1>4, <1>9, <1>13
<1>18. Garrisoned(d, x, p, b, block, crew)
  BY <1>3, <1>8, <1>13, <1>15, GarrisonedIs
<1> HIDE <1>15
<1> QED
  BY <1>1, <1>8, <1>10, <1>13, <1>18, <1>16, <1>17, GarrisonActs

\* The corner with n fewer people, or nobody's.
LEMMA LeftIs ==
  ASSUME NEW old \in Block, NEW n \in Nat, n <= old.corner, NEW now \in Nat
  PROVE  /\ Left(old, n, now) \in Block
         /\ IF Left(old, n, now).holder = None THEN old.holder = None \/ old.corner = n
            ELSE Left(old, n, now).holder = old.holder /\ Left(old, n, now).corner = old.corner - n
<1>1. old.corner \in Nat
  BY DEF Block
<1>2. CASE old.corner = n
  <2>1. PICK new : new = [old EXCEPT !.holder = None, !.corner = 0, !.shield = 0, !.upkeepAt = now]
    OBVIOUS
  <2>2. Left(old, n, now) = new
    BY <1>2, <2>1 DEF Left
  <2>3. new \in Block /\ new.holder = None
    BY <2>1 DEF Block
  <2> QED
    BY <1>2, <2>2, <2>3
<1>3. CASE old.corner # n
  <2>1. PICK new : new = [old EXCEPT !.corner = @ - n, !.upkeepAt = now]
    OBVIOUS
  <2>2. Left(old, n, now) = new
    BY <1>3, <2>1 DEF Left
  <2>3. old.corner - n \in Nat
    BY <1>1
  <2>4. new \in Block /\ new.holder = old.holder /\ new.corner = old.corner - n
    BY <2>1, <2>3 DEF Block
  <2> QED
    BY <2>2, <2>4
<1> QED
  BY <1>2, <1>3

LEMMA PullActs ==
  ASSUME NEW d, Typed(d), NEW p \in Players, NEW b \in Blocks, NEW now \in Nat, NEW x \in Pull(d, p, b, now)
  PROVE  Acts(d, x, p)
<1>1. d.block[b].holder = p
  BY DEF Pull
<1>2. PICK n \in 1..d.block[b].corner :
        x = [d EXCEPT !.block[b] = Left(d.block[b], n, now),
                      !.crew[p] = [d.crew[p] EXCEPT !.posted = AtLeastZero(@ - n), !.guns = @ + n]]
  BY <1>1 DEF Pull
<1>3. d \in Rows
  BY DEF Typed
<1>4. d.crew[p].posted \in Nat /\ d.crew[p].guns \in Nat
  BY <1>3, CrewIs
<1>5. PICK old : old = d.block[b]
  OBVIOUS
<1>6. old \in Block /\ old.holder = p /\ old.corner \in Nat /\ p # None
  BY <1>1, <1>3, <1>5, BlockIs, NoneIsNone
<1>7. n \in Nat /\ n <= old.corner
  BY <1>5, <1>6
<1>8. PICK block : block = Left(old, n, now)
  OBVIOUS
<1>9. /\ block \in Block
      /\ IF block.holder = None THEN old.corner = n ELSE block.holder = p /\ block.corner = old.corner - n
  BY <1>6, <1>7, <1>8, LeftIs
<1>10. PICK posted : posted = AtLeastZero(d.crew[p].posted - n)
  OBVIOUS
<1>11. PICK guns : guns = d.crew[p].guns + n
  OBVIOUS
<1>12. posted \in Nat /\ guns \in Nat /\ posted >= d.crew[p].posted - n
  BY <1>4, <1>7, <1>10, <1>11 DEF AtLeastZero
<1>13. PICK crew : crew = Shifted(d.crew[p], posted, guns)
  OBVIOUS
<1>14. crew \in Crew /\ crew.posted = posted /\ crew.guns = guns /\ crew.busy = d.crew[p].busy
  BY <1>3, <1>12, <1>13, ShiftedIs
<1>15. crew = [d.crew[p] EXCEPT !.posted = AtLeastZero(@ - n), !.guns = @ + n]
  BY <1>10, <1>11, <1>13 DEF Shifted
<1>16. x = [d EXCEPT !.block[b] = block, !.crew[p] = crew]
  BY <1>2, <1>5, <1>8, <1>15
<1>17. PICK k : k = 0 - n
  OBVIOUS
<1>18. (IF block.holder = p THEN block.corner ELSE 0)
         = (IF d.block[b].holder = p THEN d.block[b].corner ELSE 0) + k
  BY <1>1, <1>5, <1>6, <1>7, <1>9, <1>17
<1>19. k \in Int /\ crew.posted >= d.crew[p].posted + k /\ crew.guns = d.crew[p].guns - k
  BY <1>4, <1>7, <1>11, <1>12, <1>14, <1>17
<1>20. block.holder \in {p, None}
  BY <1>9
<1>21. Garrisoned(d, x, p, b, block, crew)
  BY <1>3, <1>9, <1>14, <1>16, GarrisonedIs
<1> HIDE <1>16
<1> QED
  BY <1>1, <1>9, <1>14, <1>21, <1>18, <1>19, <1>20, GarrisonActs

LEMMA ScoutActs ==
  ASSUME NEW d, Typed(d), NEW p \in Players, NEW b \in Blocks, NEW now \in Nat, NEW x \in Scout(d, p, b, now)
  PROVE  Acts(d, x, p)
<1>1. CASE x = d
  BY <1>1, ActsSelf
<1>2. CASE x # d
  <2>1. PICK q : q = d.block[b].holder
    OBVIOUS
  <2>2. q \notin {None, p} /\ x \in WalkedOut(d, q, now)
    BY <1>2, <2>1 DEF Scout
  <2>3. q \in Players
    <3>1. q \in Players \cup {None}
      BY <2>1, BlockIs DEF Typed
    <3> QED
      BY <2>2, <3>1
  <2>4. /\ Settles(d, x) /\ x.war = d.war
        /\ \A c \in Blocks : x.block[c].holder = d.block[c].holder
                             \/ (x.block[c].holder = None /\ d.block[c].holder = q)
    BY <2>2, <2>3, WalkedOutIs
  <2> QED
    BY <2>4, SettlesActs
<1> QED
  BY <1>1, <1>2

-----------------------------------------------------------------------------
(* A request's own transaction *)

\* What a request is about.
Asked(r) ==
  /\ r.op \in OnWars => r.war \in Wars
  /\ r.op \in OnBlocks => r.block \in Blocks
  /\ r.step # "settle" => r.war \in Wars

LEMMA RequestIs ==
  ASSUME NEW r \in Request
  PROVE  /\ r # None /\ r.op \in Ops /\ r.war \in Wars \cup {None} /\ r.block \in Blocks \cup {None}
         /\ r.now \in Nat /\ r.due \in SUBSET Wars /\ r.step \in {"check", "end", "settle"}
<1>1. r # None
  BY NoneIsNone
<1> QED
  BY <1>1 DEF Request

LEMMA BodyActs ==
  ASSUME NEW d, Typed(d), NEW p \in Players, NEW r \in Request, Asked(r), NEW x \in Body(d, p, r)
  PROVE  Acts(d, x, p)
<1>1. r.op \in Ops /\ r.now \in Nat
  BY RequestIs
<1>2. r.op \in OnWars \ {"concede", "withdraw"} => Live(d, r.war) /\ r.war \in Wars
  BY DEF Body, Asked
<1>3. r.op \in OnBlocks => r.block \in Blocks
  BY DEF Asked
<1>4. CASE r.op \in {"take", "sack"}
  <2>1. PICK goal \in {"TAKE", "SACK"} : x \in Declare(d, p, r.block, goal, r.now)
    BY <1>2, <1>4 DEF Body, OnWars
  <2>2. r.block \in Blocks
    BY <1>3, <1>4 DEF OnBlocks
  <2> QED
    BY <1>1, <2>1, <2>2, DeclareActs
<1>5. CASE r.op = "defend"
  <2>1. x \in Defend(d, p, r.war, r.now)
    BY <1>2, <1>5 DEF Body, OnWars
  <2> QED
    BY <1>1, <1>2, <1>5, <2>1, DefendActs DEF OnWars
<1>6. CASE r.op = "break"
  <2>1. x \in BreakSiege(d, p, r.war, r.now)
    BY <1>2, <1>6 DEF Body, OnWars
  <2> QED
    BY <1>1, <1>2, <1>6, <2>1, BreakActs DEF OnWars
<1>7. CASE r.op = "assault"
  <2>1. x \in Assault(d, p, r.war, r.now)
    BY <1>2, <1>7 DEF Body, OnWars
  <2> QED
    BY <1>1, <1>2, <1>7, <2>1, AssaultActs DEF OnWars
<1>8. CASE r.op = "call"
  <2>1. x \in CallAlly(d, p, r.war, r.now)
    BY <1>2, <1>8 DEF Body, OnWars
  <2> QED
    BY <1>1, <1>2, <1>8, <2>1, CallActs DEF OnWars
<1>9. CASE r.op = "answer"
  <2>1. x \in Answer(d, p, r.war, r.now)
    BY <1>2, <1>9 DEF Body, OnWars
  <2> QED
    BY <1>1, <1>2, <1>9, <2>1, AnswerActs DEF OnWars
<1>10. CASE r.op = "claim"
  <2>1. x \in Claim(d, p, r.block, r.now)
    BY <1>10 DEF Body, OnWars
  <2> QED
    BY <1>1, <1>3, <1>10, <2>1, ClaimActs DEF OnBlocks
<1>11. CASE r.op = "post"
  <2>1. x \in Post(d, p, r.block, r.now)
    BY <1>11 DEF Body, OnWars
  <2> QED
    BY <1>1, <1>3, <1>11, <2>1, PostActs DEF OnBlocks
<1>12. CASE r.op = "pull"
  <2>1. x \in Pull(d, p, r.block, r.now)
    BY <1>12 DEF Body, OnWars
  <2> QED
    BY <1>1, <1>3, <1>12, <2>1, PullActs DEF OnBlocks
<1>13. CASE r.op = "scout"
  <2>1. x \in Scout(d, p, r.block, r.now)
    BY <1>13 DEF Body, OnWars
  <2> QED
    BY <1>1, <1>3, <1>13, <2>1, ScoutActs DEF OnBlocks
<1>14. CASE r.op \in {"concede", "withdraw", "visit"}
  <2>1. x = d
    BY <1>14 DEF Body, OnWars
  <2> QED
    BY <2>1, ActsSelf
<1> QED
  BY <1>1, <1>4, <1>5, <1>6, <1>7, <1>8, <1>9, <1>10, <1>11, <1>12, <1>13, <1>14 DEF Ops, OnWars, OnBlocks

\* A player who lost a block by settling may claim it back, and no other block he may not.
LEMMA EnteredActs ==
  ASSUME NEW d, Typed(d), OneWarEach(d), NEW p \in Players, NEW now \in Nat, NEW y \in Entered(d, p, now),
         NEW x, Acts(y, x, p)
  PROVE  Acts(d, x, p)
<1>1. /\ Settles(d, y) /\ y.war = d.war
      /\ \A b \in Blocks : y.block[b].holder = d.block[b].holder
                          \/ (y.block[b].holder = None /\ d.block[b].holder = p)
  BY EnteredIs
<1>2. \A v \in Wars : Live(y, v) <=> Live(d, v)
  BY <1>1 DEF Live
<1>3. OneWarEach(y)
  BY <1>1, SettlesOne
<1>4. \A b \in Blocks : \/ x.block[b].holder = d.block[b].holder \/ x.block[b].holder = None
                        \/ (d.block[b].holder = None /\ x.block[b].holder = p)
  BY <1>1 DEF Acts
<1> QED
  BY <1>1, <1>2, <1>3, <1>4 DEF Acts, Settles

LEMMA OutcomesIs ==
  ASSUME NEW d, Typed(d), OneWarEach(d), NEW p \in Players, NEW r \in Request, Asked(r),
         NEW x \in {d} \cup Outcomes(d, p, r)
  PROVE  Acts(d, x, p)
<1>1. r.now \in Nat
  BY RequestIs
<1>2. CASE x = d
  BY <1>2, ActsSelf
<1>3. CASE x # d /\ r.op = "visit"
  <2>1. x \in Entered(d, p, r.now)
    BY <1>3 DEF Outcomes
  <2>2. Typed(x)
    BY <1>1, <2>1, EnteredIs DEF Settles
  <2> QED
    BY <1>1, <2>1, <2>2, ActsSelf, EnteredActs
<1>4. CASE x # d /\ r.op # "visit"
  <2>1. PICK y \in Entered(d, p, r.now) : x \in Body(y, p, r)
    BY <1>4 DEF Outcomes
  <2>2. Typed(y)
    BY <1>1, <2>1, EnteredIs DEF Settles
  <2> QED
    BY <1>1, <2>1, <2>2, BodyActs, EnteredActs
<1> QED
  BY <1>2, <1>3, <1>4

-----------------------------------------------------------------------------
(* The end of the round: everything settled one after another *)

LEMMA ClosingIs ==
  ASSUME NEW d, Typed(d), OneWarEach(d), NEW t \in Wars \cup Players, NEW x \in Closing(d, t)
  PROVE  Settles(d, x)
<1>1. RoundEnd \in Nat /\ <<"DEFENDER", "CUTOFF">> \in Endings
  BY Numerals DEF Endings
<1>2. CASE t \in Wars
  <2>1. PICK y \in Advanced(d, t, RoundEnd, None) : x \in Advanced(y, t, RoundEnd, <<"DEFENDER", "CUTOFF">>)
    BY <1>2 DEF Closing
  <2>2. Settles(d, y)
    BY <1>1, <1>2, <2>1, AdvancedIs
  <2>3. Typed(y) /\ OneWarEach(y)
    BY <2>2, SettlesOne DEF Settles
  <2>4. Settles(y, x)
    BY <1>1, <1>2, <2>1, <2>3, AdvancedIs
  <2> QED
    BY <2>2, <2>4, SettlesOn
<1>3. CASE t \notin Wars
  <2>1. x \in Entered(d, t, RoundEnd)
    BY <1>3 DEF Closing
  <2> QED
    BY <1>1, <1>3, <2>1, EnteredIs
<1> QED
  BY <1>2, <1>3

Closings(D, t) == UNION {Closing(d, t) : d \in D}

\* g takes every subset of T to the rows its members may leave.
Reaches(D, g, T) ==
  g = [S \in SUBSET T |-> IF S = {} THEN D ELSE Closings(g[S \ {First(S)}], First(S))]

LEMMA ReachesOne ==
  ASSUME NEW D, NEW g, NEW T, Reaches(D, g, T), NEW S, S \subseteq T
  PROVE  g[S] = IF S = {} THEN D ELSE Closings(g[S \ {First(S)}], First(S))
  BY DEF Reaches

LEMMA ReachesUnique ==
  ASSUME NEW D, NEW g, NEW h, NEW S, NEW T, Reaches(D, g, S), Reaches(D, h, T),
         NEW U, U \subseteq S, U \subseteq T, IsFiniteSet(U)
  PROVE  g[U] = h[U]
<1> DEFINE bad == {s \in SUBSET U : g[s] # h[s]}
<1>1. SUFFICES ASSUME bad # {} PROVE FALSE
  OBVIOUS
<1>2. PICK x \in bad : \A y \in bad : y \subseteq x => y = x
  <2>1. bad \subseteq SUBSET U
    OBVIOUS
  <2> HIDE DEF bad
  <2> QED
    BY <1>1, <2>1, Smallest
<1>3. x \subseteq S /\ x \subseteq T /\ x \subseteq U /\ g[x] # h[x]
  OBVIOUS
<1>4. /\ g[x] = IF x = {} THEN D ELSE Closings(g[x \ {First(x)}], First(x))
      /\ h[x] = IF x = {} THEN D ELSE Closings(h[x \ {First(x)}], First(x))
  BY <1>3, ReachesOne
<1>5. x # {}
  BY <1>3, <1>4
<1>6. First(x) \in x
  BY <1>5, FirstIn
<1>7. x \ {First(x)} \in SUBSET U /\ x \ {First(x)} \subseteq x /\ x \ {First(x)} # x
  BY <1>3, <1>6
<1>8. g[x \ {First(x)}] = h[x \ {First(x)}]
  BY <1>2, <1>7
<1> QED
  BY <1>3, <1>4, <1>5, <1>8

LEMMA ReachesExists ==
  ASSUME NEW D, NEW T, IsFiniteSet(T)
  PROVE  \E g : Reaches(D, g, T)
<1> DEFINE bad == {s \in SUBSET T : ~ \E g : Reaches(D, g, s)}
<1>1. SUFFICES ASSUME bad # {} PROVE FALSE
  OBVIOUS
<1>2. PICK x \in bad : \A y \in bad : y \subseteq x => y = x
  <2>1. bad \subseteq SUBSET T
    OBVIOUS
  <2> HIDE DEF bad
  <2> QED
    BY <1>1, <2>1, Smallest
<1> DEFINE h(s) == CHOOSE g : Reaches(D, g, s)
           rest == x \ {First(x)}
           whole == IF x = {} THEN D ELSE Closings(h(rest)[rest], First(x))
           reach == [s \in SUBSET x |-> IF s = x THEN whole ELSE h(s)[s]]
<1>3. ASSUME NEW s, s \subseteq x, s # x PROVE Reaches(D, h(s), s)
  <2>1. s \notin bad /\ s \in SUBSET T
    BY <1>2, <1>3
  <2>2. \E g : Reaches(D, g, s)
    BY <2>1
  <2> QED
    BY <2>2
<1>4. IsFiniteSet(x)
  BY FS_Subset
<1>5. ASSUME NEW s \in SUBSET x
      PROVE  reach[s] = IF s = {} THEN D ELSE Closings(reach[s \ {First(s)}], First(s))
  <2>1. CASE s = x /\ x = {}
    BY <2>1
  <2>2. CASE s = x /\ x # {}
    <3>1. rest \in SUBSET x /\ rest # x
      BY <2>2, FirstIn
    <3>2. reach[rest] = h(rest)[rest]
      BY <3>1
    <3>3. reach[x] = Closings(h(rest)[rest], First(x))
      BY <2>2
    <3> QED
      BY <2>2, <3>2, <3>3
  <2>3. CASE s # x
    <3> DEFINE less == s \ {First(s)}
    <3>1. Reaches(D, h(s), s)
      BY <1>3, <2>3
    <3>2. reach[s] = h(s)[s]
      BY <2>3
    <3>3. h(s)[s] = IF s = {} THEN D ELSE Closings(h(s)[less], First(s))
      <4> HIDE DEF h
      <4> QED
        BY <3>1, ReachesOne
    <3>4. CASE s # {}
      <4>1. less \subseteq x /\ less # x /\ less \subseteq s /\ less \in SUBSET x
        BY <2>3
      <4>2. Reaches(D, h(less), less)
        BY <1>3, <4>1
      <4>3. h(s)[less] = h(less)[less]
        <5>1. IsFiniteSet(less)
          BY <1>4, <4>1, FS_Subset
        <5> HIDE DEF h, less
        <5> QED
          BY <3>1, <4>1, <4>2, <5>1, ReachesUnique
      <4>4. reach[less] = h(less)[less]
        BY <4>1
      <4> QED
        BY <3>2, <3>3, <3>4, <4>3, <4>4
    <3> QED
      BY <3>2, <3>3, <3>4
  <2> QED
    BY <2>1, <2>2, <2>3
<1>6. reach = [s \in SUBSET x |-> IF s = {} THEN D ELSE Closings(reach[s \ {First(s)}], First(s))]
  <2>1. reach = [s \in SUBSET x |-> reach[s]]
    OBVIOUS
  <2> HIDE DEF reach
  <2> QED
    BY <1>5, <2>1
<1>7. Reaches(D, reach, x)
  BY <1>6 DEF Reaches
<1> QED
  BY <1>7

LEMMA InTurnReaches ==
  ASSUME NEW D, NEW T, IsFiniteSet(T)
  PROVE  \E g : Reaches(D, g, T) /\ InTurn(D, T) = g[T]
<1>1. InTurn(D, T) = (CHOOSE g : Reaches(D, g, T))[T]
  BY DEF InTurn, Reaches, Closings, First
<1>2. Reaches(D, CHOOSE g : Reaches(D, g, T), T)
  BY ReachesExists
<1> QED
  BY <1>1, <1>2

LEMMA InTurnIs ==
  ASSUME NEW D, \A d \in D : Typed(d) /\ OneWarEach(d), NEW T, IsFiniteSet(T), T \subseteq Wars \cup Players,
         NEW x \in InTurn(D, T)
  PROVE  \E d \in D : Settles(d, x)
<1>1. PICK g : Reaches(D, g, T) /\ InTurn(D, T) = g[T]
  BY InTurnReaches
<1> DEFINE bad == {S \in SUBSET T : \E y \in g[S] : ~ \E d \in D : Settles(d, y)}
<1>2. SUFFICES ASSUME bad # {} PROVE FALSE
  <2>1. T \in SUBSET T
    OBVIOUS
  <2>2. T \notin bad => \A y \in g[T] : \E d \in D : Settles(d, y)
    BY <2>1
  <2> HIDE DEF bad
  <2> QED
    BY <1>1, <2>2
<1>3. PICK S \in bad : \A y \in bad : y \subseteq S => y = S
  <2>1. bad \subseteq SUBSET T
    OBVIOUS
  <2> HIDE DEF bad
  <2> QED
    BY <1>2, <2>1, Smallest
<1>4. S \subseteq T
  OBVIOUS
<1>5. PICK y \in g[S] : ~ \E d \in D : Settles(d, y)
  OBVIOUS
<1>6. g[S] = IF S = {} THEN D ELSE Closings(g[S \ {First(S)}], First(S))
  BY <1>1, <1>4, ReachesOne
<1>7. CASE S = {}
  BY <1>5, <1>6, <1>7, SettlesSelf
<1>8. CASE S # {}
  <2>1. First(S) \in S /\ First(S) \in Wars \cup Players
    BY <1>4, <1>8, FirstIn
  <2>2. PICK rest : rest = S \ {First(S)}
    OBVIOUS
  <2>3. rest \in SUBSET T /\ rest \subseteq S /\ rest # S
    BY <1>4, <2>1, <2>2
  <2>4. rest \notin bad
    BY <1>3, <2>3
  <2>5. \A z \in g[rest] : \E d \in D : Settles(d, z)
    BY <2>3, <2>4
  <2>6. PICK z \in g[rest] : y \in Closing(z, First(S))
    <3>1. y \in Closings(g[rest], First(S))
      BY <1>5, <1>6, <1>8, <2>2
    <3> QED
      BY <3>1 DEF Closings
  <2>7. PICK d \in D : Settles(d, z)
    BY <2>5
  <2>8. Typed(d) /\ OneWarEach(d)
    OBVIOUS
  <2>9. Typed(z) /\ OneWarEach(z)
    BY <2>7, <2>8, SettlesOne DEF Settles
  <2>10. Settles(z, y)
    BY <2>1, <2>6, <2>9, ClosingIs
  <2>11. Settles(d, y)
    BY <2>7, <2>8, <2>10, SettlesOn
  <2> QED
    BY <1>5, <2>11
<1> QED
  BY <1>7, <1>8

-----------------------------------------------------------------------------
(* The invariant *)

\* Rows as they should be.
Rightful(d) == Typed(d) /\ OneWarEach(d) /\ Accounts(d) /\ NoneBehind(d) /\ EndedInTime(d)

\* The rows are right, and every request is about something.
Inv ==
  /\ TypeOK
  /\ Rightful(db)
  /\ \A p \in Players : req[p] # None => Asked(req[p])

\* What a step does to the rows.
Moved == Settles(db, db') \/ \E p \in Players : Acts(db, db', p)

LEMMA MovedRightful == ASSUME Rightful(db), Moved PROVE Rightful(db')
<1>1. CASE Settles(db, db')
  BY <1>1, SettlesOne DEF Rightful, Settles
<1>2. CASE \E p \in Players : Acts(db, db', p)
  BY <1>2 DEF Rightful, Acts
<1> QED
  BY <1>1, <1>2 DEF Moved

LEMMA StartPostedNat == ASSUME NEW p \in Players PROVE StartPosted(p) \in Nat
<1>1. PICK B : B = {x \in Blocks : StartHolder[x] = p}
  OBVIOUS
<1>2. PICK f : f = [b \in B |-> StartCorner[b]]
  OBVIOUS
<1>3. IsFiniteSet(B)
  BY <1>1, WarAssumption, FS_Subset
<1>4. \A b \in B : f[b] \in Nat
  BY <1>1, <1>2, WarAssumption
<1>5. Nats(f, B) /\ DOMAIN f = B
  BY <1>2, <1>4 DEF Nats
<1>6. Sum(f, B) \in Nat
  BY <1>3, <1>5, SumNat
<1>7. StartPosted(p) = Sum(f, B)
  BY <1>1, <1>2, <1>5, SumOver DEF StartPosted
<1> QED
  BY <1>6, <1>7

LEMMA InitInv == Init => Inv
<1> SUFFICES ASSUME Init PROVE Inv
  OBVIOUS
<1> DEFINE crew == [p \in Players |-> [thugs |-> StartCrew[p], hurt |-> 0, busy |-> 0, posted |-> StartPosted(p),
                                       guns |-> StartCrew[p] - StartPosted(p)]]
           block == [b \in Blocks |-> [holder |-> StartHolder[b], corner |-> StartCorner[b],
                                       shield |-> 0, upkeepAt |-> 1]]
           war == [w \in Wars |-> None]
           squads == [i \in Numbers |-> None]
<1>1. db.crew = crew /\ db.block = block /\ db.war = war /\ db.squads = squads
      /\ db = [crew |-> crew, block |-> block, war |-> war, squads |-> squads]
  BY DEF Init
<1>2. ASSUME NEW p \in Players
      PROVE  /\ crew[p] \in Crew /\ crew[p].guns = StartCrew[p] - StartPosted(p) /\ crew[p].busy = 0
             /\ crew[p].posted = StartPosted(p) /\ StartCrew[p] \in Nat /\ StartPosted(p) \in Nat
  <2>1. StartCrew[p] \in Nat /\ StartPosted(p) \in Nat /\ StartPosted(p) <= StartCrew[p]
    BY StartPostedNat, WarAssumption
  <2>2. StartCrew[p] - StartPosted(p) \in Nat
    BY <2>1
  <2> QED
    BY <2>1, <2>2 DEF Crew
<1>3. \A b \in Blocks : block[b] \in Block /\ block[b].holder = StartHolder[b] /\ block[b].corner = StartCorner[b]
  BY WarAssumption DEF Block
<1>4. db \in Rows
  <2>1. crew \in [Players -> Crew]
    BY <1>2
  <2>2. block \in [Blocks -> Block]
    BY <1>3
  <2>3. war \in [Wars -> War \cup {None}] /\ squads \in [Numbers -> Squad \cup {None}]
    OBVIOUS
  <2> HIDE DEF crew, block, war, squads
  <2> QED
    BY <1>1, <2>1, <2>2, <2>3 DEF Rows
<1>5. Squads(db) = {} /\ \A w \in Wars : db.war[w] = None
  BY <1>1 DEF Squads
<1>6. Typed(db) /\ OneWarEach(db) /\ NoneBehind(db) /\ EndedInTime(db)
  BY <1>4, <1>5 DEF Typed, SquadsOf, WarsSound, OneWarEach, LiveWars, Live, NoneBehind, EndedInTime
<1>7. Accounts(db)
  <2>1. SUFFICES ASSUME NEW p \in Players
        PROVE  /\ db.crew[p].guns + Manned(db, p) + Carried(db, p) = StartCrew[p]
               /\ db.crew[p].busy = Out(db, p)
               /\ db.crew[p].posted + LeftPosted(db, p) >= Manned(db, p)
    BY DEF Accounts
  <2>2. Own(db, p) = {}
    BY <1>5 DEF Own
  <2>3. Carried(db, p) = 0 /\ Out(db, p) = 0 /\ LeftPosted(db, p) = 0
    <3>1. \A f : DOMAIN f = {} => SumFunction(f) = 0
      BY SumOver, SumEmpty
    <3> QED
      BY <2>2, <3>1 DEF Carried, Out, LeftPosted
  <2>4. Manned(db, p) = StartPosted(p)
    <3>1. Held(db, p) = {x \in Blocks : StartHolder[x] = p}
      BY <1>1, <1>3 DEF Held
    <3>2. \A b \in Held(db, p) : db.block[b].corner = StartCorner[b]
      BY <1>1, <1>3, <3>1
    <3>3. [b \in Held(db, p) |-> db.block[b].corner] = [b \in {x \in Blocks : StartHolder[x] = p} |-> StartCorner[b]]
      BY <3>1, <3>2
    <3> QED
      BY <3>3 DEF Manned, StartPosted
  <2> HIDE DEF crew
  <2> QED
    BY <1>1, <1>2, <2>3, <2>4
<1>8. TypeOK
  <2>1. cast \in Casts /\ over \in BOOLEAN /\ req \in [Players -> Request \cup {None}]
    BY DEF Init
  <2>2. clock \in 1..Horizon
    BY WarAssumption DEF Init
  <2> QED
    BY <1>4, <2>1, <2>2 DEF TypeOK
<1>9. \A p \in Players : req[p] = None
  BY DEF Init
<1> QED
  BY <1>6, <1>7, <1>8, <1>9 DEF Inv, Rightful

-----------------------------------------------------------------------------
(* One step *)

LEMMA NowNat ==
  ASSUME Inv
  PROVE  /\ clock \in Nat
         /\ \A p \in Players : req[p] # None => req[p] \in Request /\ Asked(req[p]) /\ req[p].now \in Nat
<1>1. clock \in Nat
  BY Numerals DEF Inv, TypeOK
<1>2. ASSUME NEW p \in Players, req[p] # None PROVE req[p] \in Request /\ Asked(req[p]) /\ req[p].now \in Nat
  <2>1. req[p] \in Request /\ Asked(req[p])
    BY <1>2 DEF Inv, TypeOK
  <2> QED
    BY <2>1, RequestIs
<1> QED
  BY <1>1, <1>2

LEMMA EndingIs == \A op : Ending(op) \in Endings
  BY DEF Ending, Endings

LEMMA AskWarMoved == ASSUME Inv, NEW p \in Players, NEW op \in OnWars, AskWar(p, op) PROVE Settles(db, db')
<1>1. PICK w \in LiveWars(db) : db' \in Advanced(db, w, clock, None)
  BY DEF AskWar
<1>2. w \in Wars /\ clock \in Nat /\ Typed(db) /\ OneWarEach(db)
  BY NowNat DEF LiveWars, Inv, Rightful
<1> QED
  BY <1>1, <1>2, AdvancedIs

LEMMA EndMoved == ASSUME Inv, NEW p \in Players, End(p) PROVE Settles(db, db')
<1>1. req[p] # None /\ req[p].step = "end" /\ db' \in Advanced(db, req[p].war, req[p].now, Ending(req[p].op))
  BY DEF End, At
<1>2. req[p].war \in Wars /\ req[p].now \in Nat /\ Typed(db) /\ OneWarEach(db)
  BY <1>1, NowNat DEF Asked, Inv, Rightful
<1>3. PICK ending \in Endings \cup {None} : ending = Ending(req[p].op)
  BY EndingIs
<1> QED
  BY <1>1, <1>2, <1>3, AdvancedIs

LEMMA SettleOneMoved == ASSUME Inv, NEW p \in Players, SettleOne(p) PROVE Settles(db, db')
<1>1. PICK w \in req[p].due : req[p] # None /\ db' \in Advanced(db, w, req[p].now, None)
  BY DEF SettleOne, At
<1>2. req[p] \in Request /\ req[p].now \in Nat /\ Typed(db) /\ OneWarEach(db)
  BY <1>1, NowNat DEF Inv, Rightful
<1>3. w \in Wars
  BY <1>2, RequestIs
<1> QED
  BY <1>1, <1>2, <1>3, AdvancedIs

LEMMA RunMoved == ASSUME Inv, NEW p \in Players, Run(p) PROVE Acts(db, db', p)
<1>1. req[p] # None /\ db' \in {db} \cup Outcomes(db, p, req[p])
  BY DEF Run, At
<1>2. req[p] \in Request /\ Asked(req[p]) /\ Typed(db) /\ OneWarEach(db)
  BY <1>1, NowNat DEF Inv, Rightful
<1> QED
  BY <1>1, <1>2, OutcomesIs

LEMMA SweepMoved == ASSUME Inv, NEW w \in Wars, Sweep(w) PROVE Settles(db, db')
<1>1. db' \in Advanced(db, w, clock, None)
  BY DEF Sweep
<1>2. clock \in Nat /\ Typed(db) /\ OneWarEach(db)
  BY NowNat DEF Inv, Rightful
<1> QED
  BY <1>1, <1>2, AdvancedIs

LEMMA CloseRoundMoved == ASSUME Inv, CloseRound PROVE Settles(db, db')
<1>1. db' \in InTurn(InTurn({db}, LiveWars(db)), Players)
  BY DEF CloseRound
<1>2. Typed(db) /\ OneWarEach(db)
  BY DEF Inv, Rightful
<1>3. IsFiniteSet(LiveWars(db)) /\ LiveWars(db) \subseteq Wars \cup Players
  <2>1. LiveWars(db) \subseteq Wars
    BY DEF LiveWars
  <2> QED
    BY <2>1, FS_Subset, WarAssumption
<1>4. PICK D : D = InTurn({db}, LiveWars(db))
  OBVIOUS
<1>5. \A y \in D : Settles(db, y)
  <2>1. PICK one : one = {db}
    OBVIOUS
  <2>2. \A d \in one : Typed(d) /\ OneWarEach(d)
    BY <1>2, <2>1
  <2>3. ASSUME NEW y \in D PROVE Settles(db, y)
    <3>1. y \in InTurn(one, LiveWars(db))
      BY <1>4, <2>1
    <3>2. \E d \in one : Settles(d, y)
      BY <1>3, <2>2, <3>1, InTurnIs
    <3> QED
      BY <2>1, <3>2
  <2> QED
    BY <2>3
<1>6. \A y \in D : Typed(y) /\ OneWarEach(y)
  BY <1>2, <1>5, SettlesOne DEF Settles
<1>7. IsFiniteSet(Players) /\ Players \subseteq Wars \cup Players
  BY WarAssumption
<1>8. PICK y \in D : Settles(y, db')
  <2>1. PICK x : x = db'
    OBVIOUS
  <2>2. x \in InTurn(D, Players)
    BY <1>1, <1>4, <2>1
  <2>3. \E d \in D : Settles(d, x)
    BY <1>6, <1>7, <2>2, InTurnIs
  <2> QED
    BY <2>1, <2>3
<1> QED
  BY <1>2, <1>5, <1>8, SettlesOn

LEMMA StepMoved == ASSUME Inv, [Next]_vars PROVE Moved
<1>1. Typed(db)
  BY DEF Inv, Rightful
<1>2. db' = db => Moved
  BY <1>1, SettlesSelf DEF Moved
<1>3. CASE UNCHANGED vars
  BY <1>2, <1>3 DEF vars
<1>4. CASE \E p \in Players, op \in Ops \ OnWars : AskBlock(p, op)
  BY <1>2, <1>4 DEF AskBlock
<1>5. CASE \E p \in Players, op \in OnWars : AskWar(p, op)
  BY <1>5, AskWarMoved DEF Moved
<1>6. CASE \E p \in Players : Check(p)
  BY <1>2, <1>6 DEF Check
<1>7. CASE \E p \in Players : End(p)
  BY <1>7, EndMoved DEF Moved
<1>8. CASE \E p \in Players : SettleOne(p)
  BY <1>8, SettleOneMoved DEF Moved
<1>9. CASE \E p \in Players : Run(p)
  BY <1>9, RunMoved DEF Moved
<1>10. CASE Tick
  BY <1>2, <1>10 DEF Tick
<1>11. CASE CloseRound
  BY <1>11, CloseRoundMoved DEF Moved
<1>12. CASE \E w \in Wars : Sweep(w)
  BY <1>12, SweepMoved DEF Moved
<1> QED
  BY <1>3, <1>4, <1>5, <1>6, <1>7, <1>8, <1>9, <1>10, <1>11, <1>12 DEF Next, Serve

Requests ==
  /\ req \in [Players -> Request \cup {None}]
  /\ \A p \in Players : req[p] # None => Asked(req[p])

LEMMA SetRequest ==
  ASSUME Inv, NEW p \in Players, NEW r \in Request \cup {None}, r # None => Asked(r), req' = [req EXCEPT ![p] = r]
  PROVE  Requests'
<1>1. req \in [Players -> Request \cup {None}] /\ \A q \in Players : req[q] # None => Asked(req[q])
  BY DEF Inv, TypeOK
<1>2. req' \in [Players -> Request \cup {None}]
  BY <1>1
<1>3. ASSUME NEW q \in Players, req'[q] # None PROVE Asked(req'[q])
  <2>1. CASE q = p
    BY <1>1, <1>3, <2>1
  <2>2. CASE q # p
    BY <1>1, <1>3, <2>2
  <2> QED
    BY <2>1, <2>2
<1> QED
  BY <1>2, <1>3 DEF Requests

LEMMA NewRequestIs ==
  ASSUME Inv, NEW op \in Ops, NEW w \in Wars \cup {None}, NEW b \in Blocks \cup {None},
         NEW step \in {"check", "end", "settle"}, NEW due \in SUBSET Wars,
         op \in OnWars => w \in Wars, op \in OnBlocks => b \in Blocks, step # "settle" => w \in Wars,
         NEW r, r = NewRequest(op, w, b, step, due)
  PROVE  r \in Request /\ Asked(r)
<1>1. r = [op |-> op, war |-> w, block |-> b, now |-> clock, due |-> due, step |-> step] /\ clock \in Nat
  BY NowNat DEF NewRequest
<1>2. r \in Request
  BY <1>1 DEF Request
<1>3. r.op = op /\ r.war = w /\ r.block = b /\ r.step = step
  BY <1>1
<1> QED
  BY <1>2, <1>3 DEF Asked

LEMMA WarsOfIs == ASSUME NEW d, NEW p PROVE WarsOf(d, p) \in SUBSET Wars
  BY DEF WarsOf, LiveWars

LEMMA OpsApart == OnWars \subseteq Ops /\ "visit" \notin OnBlocks /\ OnWars \cap OnBlocks = {}
  BY DEF Ops, OnWars, OnBlocks

LEMMA AskBlockRequests ==
  ASSUME Inv, NEW p \in Players, NEW op \in Ops \ OnWars, AskBlock(p, op)
  PROVE  Requests'
<1>1. PICK b \in IF op = "visit" THEN {None} ELSE Blocks :
        req' = [req EXCEPT ![p] = NewRequest(op, None, b, "settle", WarsOf(db, p))]
  BY DEF AskBlock
<1>2. PICK r : r = NewRequest(op, None, b, "settle", WarsOf(db, p))
  OBVIOUS
<1>3. b \in Blocks \cup {None} /\ (op \in OnBlocks => b \in Blocks)
  BY <1>1, OpsApart
<1>4. PICK due \in SUBSET Wars : due = WarsOf(db, p)
  BY WarsOfIs
<1>5. PICK step \in {"check", "end", "settle"} : step = "settle"
  OBVIOUS
<1>6. PICK w \in Wars \cup {None} : w = None
  OBVIOUS
<1>7. r = NewRequest(op, w, b, step, due)
  BY <1>2, <1>4, <1>5, <1>6
<1>8. r \in Request /\ Asked(r)
  BY <1>3, <1>5, <1>7, NewRequestIs
<1> QED
  BY <1>1, <1>2, <1>8, SetRequest

LEMMA AskWarRequests ==
  ASSUME Inv, NEW p \in Players, NEW op \in OnWars, AskWar(p, op)
  PROVE  Requests'
<1>1. PICK w \in LiveWars(db) :
        req' = [req EXCEPT ![p] = IF op \in {"concede", "withdraw"} THEN NewRequest(op, w, None, "check", {})
                                  ELSE NewRequest(op, w, None, "settle", WarsOf(db', p))]
  BY DEF AskWar
<1>2. PICK step \in {"check", "end", "settle"} : step = IF op \in {"concede", "withdraw"} THEN "check" ELSE "settle"
  OBVIOUS
<1>3. PICK due \in SUBSET Wars : due = IF op \in {"concede", "withdraw"} THEN {} ELSE WarsOf(db', p)
  BY WarsOfIs
<1>4. PICK r : r = NewRequest(op, w, None, step, due)
  OBVIOUS
<1>5. req' = [req EXCEPT ![p] = r]
  BY <1>1, <1>2, <1>3, <1>4
<1>6. w \in Wars /\ op \in Ops /\ op \notin OnBlocks
  BY OpsApart DEF LiveWars
<1>7. PICK b \in Blocks \cup {None} : b = None
  OBVIOUS
<1>8. r = NewRequest(op, w, b, step, due)
  BY <1>4, <1>7
<1>9. r \in Request /\ Asked(r)
  BY <1>6, <1>8, NewRequestIs
<1> QED
  BY <1>5, <1>9, SetRequest

\* A request that goes on to its next step.
LEMMA OnwardIs ==
  ASSUME NEW old \in Request, Asked(old), NEW due \in SUBSET Wars, NEW step \in {"check", "end", "settle"},
         step # "settle" => old.step # "settle", NEW r, r = [old EXCEPT !.due = due, !.step = step]
  PROVE  r \in Request /\ Asked(r)
<1>1. r \in Request /\ r.op = old.op /\ r.war = old.war /\ r.block = old.block /\ r.step = step
  BY DEF Request
<1> QED
  BY <1>1 DEF Asked

Onward(old, due, step) == [old EXCEPT !.due = due, !.step = step]

LEMMA OnwardRequests ==
  ASSUME Inv, NEW p \in Players, req[p] # None, NEW due \in SUBSET Wars, NEW step \in {"check", "end", "settle"},
         step # "settle" => req[p].step # "settle", req' = [req EXCEPT ![p] = Onward(req[p], due, step)]
  PROVE  Requests'
<1>1. PICK old : old = req[p]
  OBVIOUS
<1>2. old \in Request /\ Asked(old)
  BY <1>1, NowNat
<1>3. PICK r : r = Onward(old, due, step)
  OBVIOUS
<1>4. r \in Request /\ Asked(r)
  BY <1>1, <1>2, <1>3, OnwardIs DEF Onward
<1> QED
  BY <1>1, <1>3, <1>4, SetRequest

LEMMA CheckRequests == ASSUME Inv, NEW p \in Players, Check(p) PROVE Requests'
<1>1. /\ req[p] # None /\ req[p].step = "check"
      /\ req' = [req EXCEPT ![p] = IF MayEnd(p) THEN [req[p] EXCEPT !.step = "end"] ELSE None]
  BY DEF Check, At
<1>2. CASE MayEnd(p)
  <2>1. PICK old : old = req[p]
    OBVIOUS
  <2>2. old \in Request
    BY <1>1, <2>1, NowNat
  <2>3. PICK due \in SUBSET Wars : due = old.due
    BY <2>2, RequestIs
  <2>4. PICK step \in {"check", "end", "settle"} : step = "end"
    OBVIOUS
  <2>5. [old EXCEPT !.step = "end"] = Onward(old, due, step)
    BY <2>2, <2>3, <2>4 DEF Onward, Request
  <2>6. req' = [req EXCEPT ![p] = Onward(req[p], due, step)]
    BY <1>1, <1>2, <2>1, <2>5
  <2> QED
    BY <1>1, <2>6, OnwardRequests
<1>3. CASE ~MayEnd(p)
  <2>1. req' = [req EXCEPT ![p] = None]
    BY <1>1, <1>3
  <2> QED
    BY <2>1, SetRequest
<1> QED
  BY <1>2, <1>3

LEMMA EndRequests == ASSUME Inv, NEW p \in Players, End(p) PROVE Requests'
<1>1. req[p] # None /\ req' = [req EXCEPT ![p] = Onward(req[p], WarsOf(db', p), "settle")]
  BY DEF End, At, Onward
<1>2. PICK due \in SUBSET Wars : due = WarsOf(db', p)
  BY WarsOfIs
<1>3. PICK step \in {"check", "end", "settle"} : step = "settle"
  OBVIOUS
<1>4. req' = [req EXCEPT ![p] = Onward(req[p], due, step)]
  BY <1>1, <1>2, <1>3
<1> QED
  BY <1>1, <1>3, <1>4, OnwardRequests

LEMMA SettleOneRequests == ASSUME Inv, NEW p \in Players, SettleOne(p) PROVE Requests'
<1>1. PICK w : req[p] # None /\ req[p].step = "settle" /\ req' = [req EXCEPT ![p].due = @ \ {w}]
  BY DEF SettleOne, At
<1>2. PICK old : old = req[p]
  OBVIOUS
<1>3. old \in Request /\ old.step = "settle"
  BY <1>1, <1>2, NowNat
<1>4. PICK due \in SUBSET Wars : due = old.due \ {w}
  BY <1>3, RequestIs
<1>5. PICK step \in {"check", "end", "settle"} : step = "settle"
  OBVIOUS
<1>6. [old EXCEPT !.due = due] = Onward(old, due, step)
  BY <1>3, <1>5 DEF Onward, Request
<1>7. req' = [req EXCEPT ![p] = Onward(req[p], due, step)]
  BY <1>1, <1>2, <1>4, <1>6
<1> QED
  BY <1>1, <1>5, <1>7, OnwardRequests

LEMMA RunRequests == ASSUME Inv, NEW p \in Players, Run(p) PROVE Requests'
<1>1. req' = [req EXCEPT ![p] = None]
  BY DEF Run
<1> QED
  BY <1>1, SetRequest

LEMMA StepRequests == ASSUME Inv, [Next]_vars PROVE Requests' /\ cast' \in Casts /\ clock' \in 1..Horizon /\ over' \in BOOLEAN
<1>1. cast \in Casts /\ clock \in 1..Horizon /\ over \in BOOLEAN /\ Horizon \in Nat
  BY Numerals DEF Inv, TypeOK
<1>2. req' = req => Requests'
  BY DEF Inv, TypeOK, Requests
<1>3. CASE UNCHANGED vars
  BY <1>1, <1>2, <1>3 DEF vars
<1>4. CASE \E p \in Players, op \in Ops \ OnWars : AskBlock(p, op)
  <2>1. PICK p \in Players, op \in Ops \ OnWars : AskBlock(p, op)
    BY <1>4
  <2>2. UNCHANGED <<cast, clock, over>>
    BY <2>1 DEF AskBlock
  <2> QED
    BY <1>1, <2>1, <2>2, AskBlockRequests
<1>5. CASE \E p \in Players, op \in OnWars : AskWar(p, op)
  <2>1. PICK p \in Players, op \in OnWars : AskWar(p, op)
    BY <1>5
  <2>2. UNCHANGED <<cast, clock, over>>
    BY <2>1 DEF AskWar
  <2> QED
    BY <1>1, <2>1, <2>2, AskWarRequests
<1>6. CASE \E p \in Players : Check(p)
  <2>1. PICK p \in Players : Check(p)
    BY <1>6
  <2>2. UNCHANGED <<cast, clock, over>>
    BY <2>1 DEF Check
  <2> QED
    BY <1>1, <2>1, <2>2, CheckRequests
<1>7. CASE \E p \in Players : End(p)
  <2>1. PICK p \in Players : End(p)
    BY <1>7
  <2>2. UNCHANGED <<cast, clock, over>>
    BY <2>1 DEF End
  <2> QED
    BY <1>1, <2>1, <2>2, EndRequests
<1>8. CASE \E p \in Players : SettleOne(p)
  <2>1. PICK p \in Players : SettleOne(p)
    BY <1>8
  <2>2. UNCHANGED <<cast, clock, over>>
    BY <2>1 DEF SettleOne
  <2> QED
    BY <1>1, <2>1, <2>2, SettleOneRequests
<1>9. CASE \E p \in Players : Run(p)
  <2>1. PICK p \in Players : Run(p)
    BY <1>9
  <2>2. UNCHANGED <<cast, clock, over>>
    BY <2>1 DEF Run
  <2> QED
    BY <1>1, <2>1, <2>2, RunRequests
<1>10. CASE Tick
  BY <1>1, <1>2, <1>10 DEF Tick
<1>11. CASE CloseRound
  BY <1>1, <1>2, <1>11 DEF CloseRound
<1>12. CASE \E w \in Wars : Sweep(w)
  BY <1>1, <1>2, <1>12 DEF Sweep
<1> QED
  BY <1>3, <1>4, <1>5, <1>6, <1>7, <1>8, <1>9, <1>10, <1>11, <1>12 DEF Next, Serve

LEMMA StepInv == ASSUME Inv, [Next]_vars PROVE Inv'
<1>1. Rightful(db')
  BY StepMoved, MovedRightful DEF Inv
<1>2. db' \in Rows
  BY <1>1 DEF Rightful, Typed
<1>3. Requests' /\ cast' \in Casts /\ clock' \in 1..Horizon /\ over' \in BOOLEAN
  BY StepRequests
<1> QED
  BY <1>1, <1>2, <1>3 DEF Inv, TypeOK, Requests

LEMMA Always == Spec => []Inv
<1>1. Init => Inv
  BY InitInv
<1>2. Inv /\ [Next]_vars => Inv'
  BY StepInv
<1> QED
  BY <1>1, <1>2, PTL DEF Spec

-----------------------------------------------------------------------------
(* The theorems *)

\* Types: every row stays one the schema allows, no count of people or guns below zero, and every
\* request is one of those the handlers take.
THEOREM Types == Spec => []TypeOK
<1>1. Inv => TypeOK
  BY DEF Inv
<1> QED
  BY <1>1, Always, PTL

\* Whatever fights, captures, walkouts and late credits do, and in whatever order players and the
\* sweep settle them: a crew's guns at home, on its corners and with its squads are those it
\* began with, its busy people are those of squads still to be credited, and the people its
\* corners hold are counted as posted or about to be.
THEOREM Accounting == Spec => []CrewsAccounted
<1>1. Inv => CrewsAccounted
  BY DEF Inv, Rightful, Accounts, CrewsAccounted
<1> QED
  BY <1>1, Always, PTL

\* Nobody is away for a war that is over, nor at a war in which nothing is left for his side to
\* wait for; only a declarer's second squad at a block he took is not sent home.
THEOREM NobodyIsLeft == Spec => []NobodyLeftBehind
<1>1. Inv => NobodyLeftBehind
  BY DEF Inv, Rightful, NoneBehind, NobodyLeftBehind
<1> QED
  BY <1>1, Always, PTL

\* A war ends within its time however late it is looked at, no fight due before its end is
\* dropped, and whoever looks at it after its time ends it.
THEOREM WarsEndInTime == Spec => []EndsInTime
<1>1. Inv => EndsInTime
  <2>1. SUFFICES ASSUME Inv, NEW w \in Wars, db.war[w] # None
        PROVE  IF Live(db, w)
               THEN db.war[w].endsBy <= clock => \A x \in Advanced(db, w, clock, None) : ~Live(x, w)
               ELSE /\ db.war[w].endedAt <= db.war[w].endsBy
                    /\ db.war[w].reason # "ABANDONED" /\ db.war[w].fight # None =>
                         db.war[w].fight.landsAt >= db.war[w].endedAt
    BY DEF EndsInTime
  <2>2. Typed(db) /\ OneWarEach(db) /\ EndedInTime(db) /\ clock \in Nat
    BY <2>1, NowNat DEF Inv, Rightful
  <2>3. ASSUME Live(db, w), db.war[w].endsBy <= clock, NEW x \in Advanced(db, w, clock, None) PROVE ~Live(x, w)
    BY <2>2, <2>3, AdvancedIs
  <2> QED
    BY <2>1, <2>2, <2>3 DEF EndedInTime
<1> QED
  BY <1>1, Always, PTL

LEMMA MovedHandsChange == ASSUME Inv, Moved PROVE HandsChange
<1>1. SUFFICES ASSUME NEW b \in Blocks, NEW q \in Players, db'.block[b].holder = q, db.block[b].holder # q
      PROVE  IF db.block[b].holder = None
             THEN \A w \in Wars, p \in Players : ~WonBy(w, p, q, b)
             ELSE \E w \in Wars : WonBy(w, db.block[b].holder, q, b)
  BY DEF HandsChange
<1>2. q # None /\ db \in Rows
  BY NoneIsNone DEF Inv, TypeOK
<1>3. CASE Settles(db, db')
  <2>1. PICK w \in Wars : Lost(db, db', w, b)
    BY <1>1, <1>2, <1>3 DEF Settles, Passed
  <2>2. db.war[w] # None /\ db.war[w].defender = db.block[b].holder
    BY <2>1 DEF Lost, Live
  <2>3. db.block[b].holder # None
    BY <1>2, <2>2, WarIs, NoneIsNone
  <2>4. WonBy(w, db.block[b].holder, q, b)
    BY <1>1, <2>1 DEF Lost, WonBy
  <2> QED
    BY <2>3, <2>4
<1>4. CASE \E p \in Players : Acts(db, db', p)
  <2>1. PICK p \in Players : Acts(db, db', p)
    BY <1>4
  <2>2. db.block[b].holder = None
    BY <1>1, <1>2, <2>1 DEF Acts
  <2>3. \A w \in Wars : Live(db, w) => db'.war[w].status # "ENDED"
    BY <2>1 DEF Acts, Live
  <2> QED
    BY <2>2, <2>3 DEF WonBy
<1> QED
  BY <1>3, <1>4 DEF Moved

\* No block passes from one crew to another but by a war of these two that its taker won to take
\* it, and a block of the locals never by a war: whether a request, a lazy settlement, the sweep
\* or the end of the round does it.
THEOREM BlocksChangeHandsByWar == Spec => HandsChangeByWar
<1>1. Inv /\ [Next]_vars => [HandsChange]_vars
  BY StepMoved, MovedHandsChange
<1> QED
  BY <1>1, Always, PTL DEF Spec, HandsChangeByWar

-----------------------------------------------------------------------------
(* Looking late *)

LEMMA Monotone ==
  ASSUME NEW r \in Nat, NEW a \in Int, NEW b \in Int, a <= b
  PROVE  r * a \in Int /\ r * b \in Int /\ r * a <= r * b
<1>1. b - a \in Nat
  OBVIOUS
<1>2. r * (b - a) \in Nat
  BY <1>1, ProductNat
<1>3. r * (b - a) = r * b - r * a /\ r * a \in Int /\ r * b \in Int
  OBVIOUS
<1> QED
  BY <1>2, <1>3

LEMMA Spread ==
  ASSUME NEW r \in Int, NEW a \in Int, NEW b \in Int
  PROVE  /\ r * a \in Int /\ r * b \in Int /\ r * (a + b) = r * a + r * b /\ r * (a - b) = r * a - r * b
         /\ r * (a + 1) = r * a + r
  OBVIOUS

LEMMA DivIs ==
  ASSUME NEW a \in Int, NEW r \in Nat, r > 0, NEW m \in Int, r * m <= a, a < r * m + r
  PROVE  a \div r = m
<1>1. PICK u \in Int : u = a \div r
  BY BlockDivBounds
<1>2. r * u <= a /\ a < r * u + r
  BY <1>1, BlockDivBounds
<1>3. ASSUME u < m PROVE FALSE
  <2>1. r * (u + 1) <= r * m /\ r * m \in Int
    BY <1>3, Monotone
  <2>2. r * (u + 1) = r * u + r /\ r * u \in Int
    BY Spread
  <2> QED
    BY <1>2, <2>1, <2>2
<1>4. ASSUME m < u PROVE FALSE
  <2>1. r * (m + 1) <= r * u /\ r * u \in Int
    BY <1>4, Monotone
  <2>2. r * (m + 1) = r * m + r /\ r * m \in Int
    BY Spread
  <2> QED
    BY <1>2, <2>1, <2>2
<1> QED
  BY <1>1, <1>3, <1>4

\* After k ticks of q, what is missing takes the rest of them.
LEMMA TicksLeft ==
  ASSUME NEW r \in Nat, r > 0, NEW missing \in Nat, NEW k \in Nat, NEW q, q = (missing + r - 1) \div r, k < q
  PROVE  r * k \in Nat /\ r * k < missing /\ q \in Int /\ (missing - r * k + r - 1) \div r = q - k
<1>1. PICK a \in Int : a = missing + r - 1
  OBVIOUS
<1>2. q \in Int /\ r * q <= a /\ a < r * q + r
  BY <1>1, BlockDivBounds
<1>3. r * (k + 1) <= r * q /\ r * q \in Int
  <2>1. k + 1 <= q
    BY <1>2
  <2> QED
    BY <1>2, <2>1, Monotone
<1>4. r * (k + 1) = r * k + r
  BY Spread
<1>5. r * k \in Nat
  BY ProductNat
<1>6. r * k < missing
  BY <1>1, <1>2, <1>3, <1>4, <1>5
<1>7. r * (q - k) = r * q - r * k
  BY <1>2, Spread
<1>8. PICK c \in Int : c = missing - r * k + r - 1
  BY <1>5
<1>9. r * (q - k) <= c /\ c < r * (q - k) + r
  BY <1>1, <1>2, <1>3, <1>5, <1>7, <1>8
<1>10. q - k \in Int
  BY <1>2
<1>11. c \div r = q - k
  BY <1>9, <1>10, DivIs
<1> QED
  BY <1>2, <1>5, <1>6, <1>8, <1>11

LEMMA RateSame ==
  ASSUME NEW d, NEW x, x.squads = d.squads, NEW w
  PROVE  Rate(x, w) = Rate(d, w)
<1>1. /\ Declaring(x, w) = Declaring(d, w) /\ On(x, w, "ATTACKER") = On(d, w, "ATTACKER")
      /\ \A S : ThugsIn(x, S) = ThugsIn(d, S)
  BY SameSquads
<1> QED
  BY <1>1 DEF Rate

LEMMA SameRows ==
  ASSUME NEW d \in Rows, NEW x \in Rows, x.crew = d.crew, x.block = d.block, x.squads = d.squads,
         \A v \in Wars : x.war[v] = d.war[v]
  PROVE  x = d
<1>1. x.war = d.war
  BY RowsParts
<1> QED
  BY <1>1, RowsParts

LEMMA WarParts ==
  ASSUME NEW war \in War
  PROVE  war = [block |-> war.block, attacker |-> war.attacker, defender |-> war.defender, goal |-> war.goal,
                status |-> war.status, endsBy |-> war.endsBy, control |-> war.control,
                controlAt |-> war.controlAt, nextAssaultAt |-> war.nextAssaultAt, fight |-> war.fight,
                ally |-> war.ally, callUntil |-> war.callUntil, winner |-> war.winner,
                reason |-> war.reason, endedAt |-> war.endedAt]
  BY DEF War

LEMMA SameWarRows ==
  ASSUME NEW old \in War, NEW new \in War, Clocked(old, new), new.control = old.control, new.controlAt = old.controlAt
  PROVE  new = old
<1>1. /\ new.block = old.block /\ new.attacker = old.attacker /\ new.defender = old.defender
      /\ new.goal = old.goal /\ new.status = old.status /\ new.endsBy = old.endsBy
      /\ new.nextAssaultAt = old.nextAssaultAt /\ new.fight = old.fight /\ new.ally = old.ally
      /\ new.callUntil = old.callUntil /\ new.winner = old.winner /\ new.reason = old.reason
      /\ new.endedAt = old.endedAt
  BY DEF Clocked
<1> QED
  BY <1>1, WarParts

\* Control of a siege taken on to a time.
LEMMA TickedIs ==
  ASSUME NEW d, Typed(d), NEW w \in Wars, d.war[w] # None, NEW to \in Nat, NEW x, x = Ticked(d, w, to)
  PROVE  IF d.war[w].status # "SIEGE" \/ to <= d.war[w].controlAt THEN x = d
         ELSE /\ x.war[w].controlAt = to
              /\ x.war[w].control = Least(Full, d.war[w].control + Rate(d, w) * (to - d.war[w].controlAt))
<1>1. d \in Rows /\ d.war[w] \in War /\ d.war[w].control \in Nat /\ d.war[w].controlAt \in Nat
  BY WarIs DEF Typed
<1>2. CASE d.war[w].status # "SIEGE" \/ to <= d.war[w].controlAt
  BY <1>2 DEF Ticked
<1>3. CASE ~(d.war[w].status # "SIEGE" \/ to <= d.war[w].controlAt)
  <2>1. PICK c : c = Least(Full, d.war[w].control + Rate(d, w) * (to - d.war[w].controlAt))
    OBVIOUS
  <2>2. PICK old : old = d.war[w]
    OBVIOUS
  <2>3. PICK new : new = [old EXCEPT !.control = c, !.controlAt = to]
    OBVIOUS
  <2>4. new.control = c /\ new.controlAt = to
    BY <1>1, <2>2, <2>3 DEF War
  <2>5. x = [d EXCEPT !.war[w] = new]
    BY <1>3, <2>1, <2>2, <2>3 DEF Ticked
  <2>6. x.war[w] = new
    <3>1. PICK wars : wars = [d.war EXCEPT ![w] = new]
      OBVIOUS
    <3>2. wars[w] = new
      BY <1>1, <3>1, RowsParts
    <3>3. x = [d EXCEPT !.war = wars]
      BY <2>5, <3>1
    <3>4. x.war = wars
      BY <1>1, <3>3, RowsParts
    <3> QED
      BY <3>2, <3>4
  <2> QED
    BY <1>3, <2>1, <2>4, <2>6
<1> QED
  BY <1>2, <1>3

\* Taken on in two steps or in one.
LEMMA TickedTwice ==
  ASSUME NEW d, Typed(d), NEW w \in Wars, d.war[w] # None, NEW a \in Nat, NEW b \in Nat, a <= b
  PROVE  Ticked(Ticked(d, w, a), w, b) = Ticked(d, w, b)
<1>1. PICK x : x = Ticked(d, w, a)
  OBVIOUS
<1>2. PICK y : y = Ticked(x, w, b)
  OBVIOUS
<1>3. PICK z : z = Ticked(d, w, b)
  OBVIOUS
<1>4. JustWar(d, x, w) /\ Clocked(d.war[w], x.war[w]) /\ Typed(x)
  BY <1>1, TickedWar
<1>5. JustWar(d, z, w) /\ Clocked(d.war[w], z.war[w])
  BY <1>3, TickedWar
<1>6. x.war[w] # None
  BY <1>4 DEF Clocked
<1>7. JustWar(x, y, w) /\ Clocked(x.war[w], y.war[w])
  BY <1>2, <1>4, <1>6, TickedWar
<1>8. JustWar(d, y, w) /\ Clocked(d.war[w], y.war[w])
  BY <1>4, <1>7 DEF JustWar, Clocked
<1>9. PICK at \in Nat : at = d.war[w].controlAt
  BY WarIs DEF Typed
<1>10. PICK c \in Nat : c = d.war[w].control
  BY WarIs DEF Typed
<1>11. PICK r \in Nat : r = Rate(d, w)
  BY RateNat DEF Typed
<1>12. Rate(x, w) = r /\ x.war[w].status = d.war[w].status
  BY <1>4, <1>11, RateSame DEF JustWar, Clocked
<1>13. y.war[w].control = z.war[w].control /\ y.war[w].controlAt = z.war[w].controlAt
  <2>1. CASE d.war[w].status # "SIEGE" \/ a <= at
    <3>1. x = d
      BY <1>1, <1>9, <2>1, TickedIs
    <3> QED
      BY <1>2, <1>3, <3>1
  <2>2. CASE d.war[w].status = "SIEGE" /\ at < a
    <3>1. PICK gained \in Nat : gained = r * (a - at)
      <4>1. a - at \in Nat
        BY <2>2
      <4> QED
        BY <4>1, ProductNat
    <3>2. x.war[w].controlAt = a /\ x.war[w].control = Least(Full, c + gained)
      <4>1. ~(d.war[w].status # "SIEGE" \/ a <= d.war[w].controlAt)
        BY <1>9, <2>2
      <4> QED
        BY <1>1, <1>9, <1>10, <1>11, <3>1, <4>1, TickedIs
    <3>3. PICK more \in Nat : more = r * (b - a)
      <4>1. b - a \in Nat
        OBVIOUS
      <4> QED
        BY <4>1, ProductNat
    <3>4. z.war[w].controlAt = b /\ z.war[w].control = Least(Full, c + (gained + more))
      <4>1. ~(d.war[w].status # "SIEGE" \/ b <= d.war[w].controlAt)
        BY <1>9, <2>2
      <4>2. r * (b - at) = gained + more
        <5>1. b - at = (a - at) + (b - a) /\ a - at \in Int /\ b - a \in Int
          OBVIOUS
        <5>2. r * ((a - at) + (b - a)) = r * (a - at) + r * (b - a)
          BY <5>1, Spread
        <5> QED
          BY <3>1, <3>3, <5>1, <5>2
      <4> QED
        BY <1>3, <1>9, <1>10, <1>11, <4>1, <4>2, TickedIs
    <3>5. CASE b = a
      <4>1. y = x
        BY <1>2, <1>4, <1>6, <3>2, <3>5, TickedIs
      <4>2. more = 0
        BY <3>3, <3>5
      <4> QED
        BY <3>2, <3>4, <3>5, <4>1, <4>2
    <3>6. CASE a < b
      <4>1. ~(x.war[w].status # "SIEGE" \/ b <= x.war[w].controlAt)
        BY <1>12, <2>2, <3>2, <3>6
      <4>2. y.war[w].controlAt = b /\ y.war[w].control = Least(Full, Least(Full, c + gained) + more)
        BY <1>2, <1>4, <1>6, <1>12, <3>2, <3>3, <4>1, TickedIs
      <4>3. Least(Full, Least(Full, c + gained) + more) = Least(Full, c + (gained + more))
        BY Numerals DEF Least
      <4> QED
        BY <3>4, <4>2, <4>3
    <3> QED
      BY <3>5, <3>6
  <2> QED
    BY <2>1, <2>2
<1>14. y.war[w] = z.war[w]
  <2>1. PICK old : old = z.war[w]
    OBVIOUS
  <2>2. PICK new : new = y.war[w]
    OBVIOUS
  <2>3. old \in War /\ new \in War /\ Clocked(old, new)
    BY <1>5, <1>8, <2>1, <2>2 DEF Clocked
  <2> QED
    BY <1>13, <2>1, <2>2, <2>3, SameWarRows
<1>15. y = z
  <2>1. y \in Rows /\ z \in Rows /\ y.crew = z.crew /\ y.block = z.block /\ y.squads = z.squads
    BY <1>5, <1>8 DEF JustWar
  <2>2. \A v \in Wars : y.war[v] = z.war[v]
    BY <1>5, <1>8, <1>14 DEF JustWar
  <2> QED
    BY <2>1, <2>2, SameRows
<1> QED
  BY <1>1, <1>2, <1>3, <1>15

\* Looking before Control is full does not move the time it will be.
LEMMA TickedFull ==
  ASSUME NEW d, Typed(d), NEW w \in Wars, d.war[w] # None, d.war[w].status = "SIEGE",
         NEW a \in Nat, a < FullAt(d, w)
  PROVE  FullAt(Ticked(d, w, a), w) = FullAt(d, w)
<1>1. PICK x : x = Ticked(d, w, a)
  OBVIOUS
<1>2. PICK at \in Nat : at = d.war[w].controlAt
  BY WarIs DEF Typed
<1>3. PICK c \in Nat : c = d.war[w].control
  BY WarIs DEF Typed
<1>4. PICK r \in Nat : r = Rate(d, w) /\ r > 0
  BY RateNat DEF Typed
<1>5. c <= Full /\ Full \in Nat
  BY <1>3, Numerals DEF Typed, WarsSound
<1>6. CASE a <= at
  BY <1>2, <1>6, TickedIs
<1>7. CASE at < a
  <2>1. PICK k \in Nat : k = a - at
    BY <1>7
  <2>2. PICK missing \in Nat : missing = Full - c
    BY <1>5
  <2>3. PICK q : q = (missing + r - 1) \div r
    OBVIOUS
  <2>4. FullAt(d, w) = at + q
    BY <1>2, <1>3, <1>4, <2>2, <2>3 DEF FullAt
  <2>5. q \in Int
    BY <1>4, <2>3, BlockDivBounds
  <2>6. k < q
    BY <2>1, <2>4, <2>5
  <2>7. PICK gained \in Nat : gained = r * k /\ gained < missing /\ (missing - gained + r - 1) \div r = q - k
    BY <1>4, <2>3, <2>6, TicksLeft
  <2>8. x.war[w].controlAt = a /\ x.war[w].control = Least(Full, c + gained)
    <3>1. ~(d.war[w].status # "SIEGE" \/ a <= d.war[w].controlAt)
      BY <1>2, <1>7
    <3> QED
      BY <1>1, <1>2, <1>3, <1>4, <2>1, <2>7, <3>1, TickedIs
  <2>9. x.war[w].control = c + gained
    BY <1>5, <2>2, <2>7, <2>8 DEF Least
  <2>10. Rate(x, w) = r
    <3>1. x.squads = d.squads
      BY <1>1, TickedWar DEF JustWar
    <3> QED
      BY <1>4, <3>1, RateSame
  <2>11. Full - (c + gained) = missing - gained
    BY <1>5, <2>2
  <2>12. FullAt(x, w) = a + (missing - gained + r - 1) \div r
    BY <2>8, <2>9, <2>10, <2>11 DEF FullAt
  <2> QED
    BY <1>1, <2>1, <2>4, <2>5, <2>7, <2>12
<1> QED
  BY <1>6, <1>7


\* What a look at a war comes to, while its block is still the defender's.
LEMMA AdvancedOver ==
  ASSUME NEW d, NEW w, ~Live(d, w), NEW now
  PROVE  Advanced(d, w, now, None) = {d}
  BY DEF Advanced

LEMMA AdvancedQuiet ==
  ASSUME NEW d, NEW w, Live(d, w), BlockOf(d, w).holder = d.war[w].defender, NEW now, ~FightNext(d, w, now)
  PROVE  Advanced(d, w, now, None) = {Finished(d, w, now, None)}
  BY DEF Advanced

LEMMA AdvancedFight ==
  ASSUME NEW d, NEW w, Live(d, w), BlockOf(d, w).holder = d.war[w].defender, NEW now, FightNext(d, w, now)
  PROVE  Advanced(d, w, now, None) =
           {Finished(x, w, now, None) : x \in Fought(Ticked(d, w, d.war[w].fight.landsAt), w)}
  BY DEF Advanced

\* The times of a war that goes on.
LEMMA Times ==
  ASSUME NEW d, Typed(d), NEW w \in Wars, Live(d, w)
  PROVE  /\ d \in Rows /\ d.war[w] # None /\ d.war[w].endsBy \in Nat /\ FullAt(d, w) \in Nat
         /\ d.war[w].fight # None => d.war[w].fight.landsAt \in Nat
<1>1. d \in Rows /\ d.war[w] # None
  BY DEF Typed, Live
<1> QED
  BY <1>1, WarIs, FullNat, FightIs

\* A war that ended by then has ended the same whenever it is looked at.
LEMMA RunOutStays ==
  ASSUME NEW d, Typed(d), NEW w \in Wars, Live(d, w), NEW n \in Nat, ~FightNext(d, w, n), RunOut(d, w, n),
         NEW t \in Nat, n <= t
  PROVE  ~FightNext(d, w, t) /\ Finished(d, w, t, None) = Finished(d, w, n, None)
<1>1. PICK full \in Nat : full = FullAt(d, w)
  BY Times
<1>2. PICK endsBy \in Nat : endsBy = d.war[w].endsBy
  BY Times
<1>3. endsBy <= n \/ (d.war[w].status = "SIEGE" /\ full <= n /\ full <= endsBy)
  BY <1>1, <1>2 DEF RunOut
<1>4. ASSUME FightNext(d, w, t) PROVE FALSE
  <2>1. d.war[w].fight # None
    BY <1>4 DEF FightNext
  <2>2. PICK lands \in Nat : lands = d.war[w].fight.landsAt
    BY <2>1, Times
  <2>3. lands <= endsBy /\ (d.war[w].status = "SIEGE" => lands < full)
    BY <1>1, <1>2, <1>4, <2>2 DEF FightNext
  <2>4. lands <= n
    BY <1>3, <2>3
  <2> QED
    BY <1>1, <1>2, <2>1, <2>2, <2>3, <2>4 DEF FightNext
<1>5. CASE d.war[w].status = "SIEGE" /\ full <= n /\ full <= endsBy
  <2>1. full <= t
    BY <1>5
  <2> QED
    BY <1>1, <1>2, <1>4, <1>5, <2>1 DEF Finished
<1>6. CASE ~(d.war[w].status = "SIEGE" /\ full <= n /\ full <= endsBy)
  <2>1. endsBy <= n /\ endsBy <= t
    BY <1>3, <1>6
  <2>2. ~(d.war[w].status = "SIEGE" /\ full <= t /\ full <= endsBy)
    BY <1>6, <2>1
  <2> QED
    BY <1>1, <1>2, <1>4, <1>6, <2>1, <2>2 DEF Finished
<1> QED
  BY <1>5, <1>6

\* A war that has not run out is as it was, with Control taken on.
LEMMA StillRunning ==
  ASSUME NEW d, Typed(d), NEW w \in Wars, Live(d, w), NEW n \in Nat, ~FightNext(d, w, n), ~RunOut(d, w, n),
         NEW t \in Nat, n <= t, NEW x, x = Finished(d, w, n, None)
  PROVE  /\ x = Ticked(d, w, n)
         /\ FightNext(x, w, t) <=> FightNext(d, w, t)
         /\ FightNext(d, w, t) =>
              Ticked(x, w, x.war[w].fight.landsAt) = Ticked(d, w, d.war[w].fight.landsAt)
         /\ Finished(x, w, t, None) = Finished(d, w, t, None)
<1>1. PICK full \in Nat : full = FullAt(d, w)
  BY Times
<1>2. PICK endsBy \in Nat : endsBy = d.war[w].endsBy
  BY Times
<1>3. n < endsBy /\ (d.war[w].status = "SIEGE" => n < full)
  BY <1>1, <1>2 DEF RunOut
<1>4. x = Ticked(d, w, n)
  BY <1>1, <1>2, <1>3 DEF Finished
<1>5. d.war[w] # None
  BY DEF Live
<1>6. Clocked(d.war[w], x.war[w])
  BY <1>4, <1>5, TickedWar
<1>7. x.war[w].endsBy = endsBy /\ x.war[w].status = d.war[w].status /\ x.war[w].fight = d.war[w].fight
  BY <1>2, <1>6 DEF Clocked
<1>8. d.war[w].status = "SIEGE" => FullAt(x, w) = full
  BY <1>1, <1>3, <1>4, <1>5, TickedFull
<1>9. FightNext(x, w, t) <=> FightNext(d, w, t)
  BY <1>1, <1>2, <1>7, <1>8 DEF FightNext
<1>10. \A to \in Nat : n <= to => Ticked(x, w, to) = Ticked(d, w, to)
  BY <1>4, <1>5, TickedTwice
<1>11. ASSUME FightNext(d, w, t)
       PROVE  Ticked(x, w, x.war[w].fight.landsAt) = Ticked(d, w, d.war[w].fight.landsAt)
  <2>1. d.war[w].fight # None
    BY <1>11 DEF FightNext
  <2>2. PICK lands \in Nat : lands = d.war[w].fight.landsAt
    BY <2>1, Times
  <2>3. lands <= endsBy /\ (d.war[w].status = "SIEGE" => lands < full)
    BY <1>1, <1>2, <1>11, <2>2 DEF FightNext
  <2>4. n <= lands
    BY <1>1, <1>2, <2>1, <2>2, <2>3 DEF FightNext
  <2> QED
    BY <1>7, <1>10, <2>2, <2>4
<1>12. Finished(x, w, t, None) = Finished(d, w, t, None)
  <2>1. CASE d.war[w].status = "SIEGE" /\ full <= t /\ full <= endsBy
    <3>1. Ticked(x, w, full) = Ticked(d, w, full)
      BY <1>3, <1>10, <2>1
    <3>2. PICK y : y = Ticked(d, w, full)
      OBVIOUS
    <3>3. Finished(d, w, t, None) = Ended([y EXCEPT !.war[w].control = Full], w, full, "ATTACKER", "CONTROL")
      BY <1>1, <1>2, <2>1, <3>2 DEF Finished
    <3>4. Finished(x, w, t, None) = Ended([y EXCEPT !.war[w].control = Full], w, full, "ATTACKER", "CONTROL")
      BY <1>7, <1>8, <2>1, <3>1, <3>2 DEF Finished
    <3> QED
      BY <3>3, <3>4
  <2>2. CASE ~(d.war[w].status = "SIEGE" /\ full <= t /\ full <= endsBy) /\ endsBy <= t
    <3>1. Ticked(x, w, endsBy) = Ticked(d, w, endsBy)
      BY <1>3, <1>10
    <3>2. Finished(d, w, t, None) = Ended(Ticked(d, w, endsBy), w, endsBy, "DEFENDER", "TIMEOUT")
      BY <1>1, <1>2, <2>2 DEF Finished
    <3>3. Finished(x, w, t, None) = Ended(Ticked(x, w, endsBy), w, endsBy, "DEFENDER", "TIMEOUT")
      BY <1>7, <1>8, <2>2 DEF Finished
    <3> QED
      BY <3>1, <3>2, <3>3
  <2>3. CASE ~(d.war[w].status = "SIEGE" /\ full <= t /\ full <= endsBy) /\ ~(endsBy <= t)
    <3>1. Finished(d, w, t, None) = Ticked(d, w, t)
      BY <1>1, <1>2, <2>3 DEF Finished
    <3>2. Finished(x, w, t, None) = Ticked(x, w, t)
      BY <1>7, <1>8, <2>3 DEF Finished
    <3> QED
      BY <1>10, <3>1, <3>2
  <2> QED
    BY <2>1, <2>2, <2>3
<1> QED
  BY <1>4, <1>9, <1>11, <1>12


\* No fight to come by n: looking at n and then at t is looking at t.
LEMMA QuietOn ==
  ASSUME NEW d, Typed(d), OneWarEach(d), NEW w \in Wars, Live(d, w), BlockOf(d, w).holder = d.war[w].defender,
         NEW n \in Nat, ~FightNext(d, w, n), NEW t \in Nat, n <= t
  PROVE  Advanced(Finished(d, w, n, None), w, t, None) = Advanced(d, w, t, None)
<1>1. PICK x : x = Finished(d, w, n, None)
  OBVIOUS
<1>2. CASE RunOut(d, w, n)
  <2>1. ~FightNext(d, w, t) /\ Finished(d, w, t, None) = x
    BY <1>1, <1>2, RunOutStays
  <2>2. Advanced(d, w, t, None) = {x}
    BY <2>1, AdvancedQuiet
  <2>3. None \in Endings \cup {None}
    OBVIOUS
  <2>4. ~Live(x, w)
    BY <1>1, <1>2, <2>3, FinishedIs
  <2>5. Advanced(x, w, t, None) = {x}
    BY <2>4, AdvancedOver
  <2> QED
    BY <1>1, <2>2, <2>5
<1>3. CASE ~RunOut(d, w, n)
  <2>1. /\ x = Ticked(d, w, n)
        /\ FightNext(x, w, t) <=> FightNext(d, w, t)
        /\ FightNext(d, w, t) => Ticked(x, w, x.war[w].fight.landsAt) = Ticked(d, w, d.war[w].fight.landsAt)
        /\ Finished(x, w, t, None) = Finished(d, w, t, None)
    BY <1>1, <1>3, StillRunning
  <2>2. Live(x, w) /\ JustWar(d, x, w) /\ Clocked(d.war[w], x.war[w])
    BY <2>1, TickedSettles
  <2>3. BlockOf(x, w).holder = x.war[w].defender
    BY <2>2 DEF BlockOf, JustWar, Clocked
  <2>4. CASE FightNext(d, w, t)
    <3>1. PICK e : e = Ticked(d, w, d.war[w].fight.landsAt)
      OBVIOUS
    <3>2. Advanced(d, w, t, None) = {Finished(y, w, t, None) : y \in Fought(e, w)}
      BY <2>4, <3>1, AdvancedFight
    <3>3. FightNext(x, w, t) /\ Ticked(x, w, x.war[w].fight.landsAt) = e
      BY <2>1, <2>4, <3>1
    <3>4. Advanced(x, w, t, None) = {Finished(y, w, t, None) : y \in Fought(e, w)}
      BY <2>2, <2>3, <3>3, AdvancedFight
    <3> QED
      BY <1>1, <3>2, <3>4
  <2>5. CASE ~FightNext(d, w, t)
    <3>1. Advanced(d, w, t, None) = {Finished(d, w, t, None)}
      BY <2>5, AdvancedQuiet
    <3>2. Advanced(x, w, t, None) = {Finished(x, w, t, None)}
      BY <2>1, <2>2, <2>3, <2>5, AdvancedQuiet
    <3> QED
      BY <1>1, <2>1, <3>1, <3>2
  <2> QED
    BY <2>4, <2>5
<1> QED
  BY <1>2, <1>3

\* A war after its fight: no other is to come, and the block is whose it was.
LEMMA FoughtOn ==
  ASSUME NEW d, Typed(d), OneWarEach(d), NEW w \in Wars, Live(d, w), BlockOf(d, w).holder = d.war[w].defender,
         NEW n, FightNext(d, w, n), NEW y \in Fought(Ticked(d, w, d.war[w].fight.landsAt), w)
  PROVE  /\ Typed(y) /\ OneWarEach(y) /\ Live(y, w) /\ BlockOf(y, w).holder = y.war[w].defender
         /\ \A t : ~FightNext(y, w, t)
<1>1. d \in Rows /\ d.war[w] # None /\ d.war[w].fight # None /\ d.war[w].fight.landsAt \in Nat
  BY FightIs DEF Typed, Live, FightNext
<1>2. PICK e : e = Ticked(d, w, d.war[w].fight.landsAt)
  OBVIOUS
<1>3. Settles(d, e) /\ Typed(e) /\ Live(e, w) /\ JustWar(d, e, w) /\ Clocked(d.war[w], e.war[w])
  BY <1>1, <1>2, TickedSettles
<1>4. y \in Fought(e, w) /\ e.war[w].fight # None
  BY <1>1, <1>2, <1>3 DEF Clocked
<1>5. AfterFight(e, y, w)
  BY <1>3, <1>4, FoughtIs
<1>6. Settles(d, y)
  BY <1>3, <1>5, FoughtSettles, SettlesOn
<1>7. Typed(y) /\ OneWarEach(y) /\ Live(y, w) /\ \A t : ~FightNext(y, w, t)
  BY <1>5, <1>6, SettlesOne DEF AfterFight, FightNext
<1>8. y.war[w].block = d.war[w].block /\ y.war[w].defender = d.war[w].defender
  BY <1>1, <1>6 DEF Settles, Later, SameWar
<1>9. d.war[w].block \in Blocks
  BY <1>1, WarIs
<1>10. y.block[d.war[w].block].holder = e.block[d.war[w].block].holder /\ e.block = d.block
  BY <1>3, <1>5, <1>9 DEF AfterFight, JustWar
<1>11. BlockOf(y, w).holder = y.war[w].defender
  BY <1>8, <1>10 DEF BlockOf
<1> QED
  BY <1>7, <1>11

\* A look at t is a look at n and another at t.
LEMMA AdvancedOn ==
  ASSUME NEW d, Typed(d), OneWarEach(d), NEW w \in Wars, Live(d, w), BlockOf(d, w).holder = d.war[w].defender,
         NEW n \in Nat, NEW t \in Nat, n <= t
  PROVE  Advanced(d, w, t, None) = UNION {Advanced(x, w, t, None) : x \in Advanced(d, w, n, None)}
<1>1. CASE ~FightNext(d, w, n)
  <2>1. PICK x : x = Finished(d, w, n, None)
    OBVIOUS
  <2>2. Advanced(d, w, n, None) = {x}
    BY <1>1, <2>1, AdvancedQuiet
  <2>3. Advanced(x, w, t, None) = Advanced(d, w, t, None)
    BY <1>1, <2>1, QuietOn
  <2>4. UNION {Advanced(z, w, t, None) : z \in {x}} = Advanced(x, w, t, None)
    OBVIOUS
  <2> QED
    BY <2>2, <2>3, <2>4
<1>2. CASE FightNext(d, w, n)
  <2>1. PICK F : F = Fought(Ticked(d, w, d.war[w].fight.landsAt), w)
    OBVIOUS
  <2>2. d.war[w].fight # None /\ d.war[w].fight.landsAt \in Nat
    BY <1>2, Times DEF FightNext
  <2>3. FightNext(d, w, t)
    <3>1. d.war[w].fight.landsAt <= t
      BY <1>2, <2>2 DEF FightNext
    <3> QED
      BY <1>2, <3>1 DEF FightNext
  <2>4. Advanced(d, w, n, None) = {Finished(y, w, n, None) : y \in F}
    BY <1>2, <2>1, AdvancedFight
  <2>5. Advanced(d, w, t, None) = {Finished(y, w, t, None) : y \in F}
    BY <2>1, <2>3, AdvancedFight
  <2>6. ASSUME NEW y \in F
        PROVE  Advanced(Finished(y, w, n, None), w, t, None) = {Finished(y, w, t, None)}
    <3>1. /\ Typed(y) /\ OneWarEach(y) /\ Live(y, w) /\ BlockOf(y, w).holder = y.war[w].defender
          /\ ~FightNext(y, w, n) /\ ~FightNext(y, w, t)
      BY <1>2, <2>1, <2>6, FoughtOn
    <3>2. Advanced(Finished(y, w, n, None), w, t, None) = Advanced(y, w, t, None)
      BY <3>1, QuietOn
    <3>3. Advanced(y, w, t, None) = {Finished(y, w, t, None)}
      BY <3>1, AdvancedQuiet
    <3> QED
      BY <3>2, <3>3
  <2>7. UNION {Advanced(x, w, t, None) : x \in {Finished(y, w, n, None) : y \in F}}
          = {Finished(y, w, t, None) : y \in F}
    <3> DEFINE Early(y) == Finished(y, w, n, None)
               Then(y) == Finished(y, w, t, None)
               Look(x) == Advanced(x, w, t, None)
    <3>1. \A y \in F : Look(Early(y)) = {Then(y)}
      BY <2>6
    <3> HIDE DEF Early, Then, Look
    <3>2. UNION {Look(x) : x \in {Early(y) : y \in F}} = {Then(y) : y \in F}
      BY <3>1
    <3> QED
      BY <3>2 DEF Early, Then, Look
  <2> QED
    BY <2>4, <2>5, <2>7
<1> QED
  BY <1>1, <1>2

\* However late and however often a war is looked at, it goes the same way, as long as its
\* block is still the defender's: nobody's visit, and no sweep that was missed, decides it.
THEOREM LookingLate == Spec => []LateIsOnTime
<1>1. Inv => LateIsOnTime
  <2>1. SUFFICES ASSUME Inv, NEW w \in LiveWars(db), BlockOf(db, w).holder = db.war[w].defender,
                        NEW t \in clock..(db.war[w].endsBy + 1)
        PROVE  Advanced(db, w, t, None)
                 = UNION {Advanced(x, w, t, None) : x \in Advanced(db, w, clock, None)}
    BY DEF LateIsOnTime
  <2>2. w \in Wars /\ Live(db, w)
    BY DEF LiveWars
  <2>3. Typed(db) /\ OneWarEach(db)
    BY <2>1 DEF Inv, Rightful
  <2>4. clock \in Nat
    BY <2>1, NowNat
  <2>5. db.war[w].endsBy \in Nat
    BY <2>2, <2>3, Times
  <2>6. t \in Nat /\ clock <= t
    BY <2>4, <2>5
  <2> QED
    BY <2>1, <2>2, <2>3, <2>4, <2>6, AdvancedOn
<1> QED
  BY <1>1, Always, PTL

=============================================================================
