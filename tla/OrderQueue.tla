----------------------------- MODULE OrderQueue -----------------------------
(***************************************************************************)
(* The order path of the hook (act.c, placement.c): a client's batch of    *)
(* actions becomes W3G records in a queue per player, and the next         *)
(* GameUpdate sends them in packets.  A record of an order does not name   *)
(* its unit: the game gives it to whatever the player has selected.        *)
(* Builds may leave their place to the game's site search, which must be   *)
(* kept from sites that other workers are already on their way to.         *)
(*                                                                         *)
(* All of it runs on the game thread, one action of a batch at a time; a   *)
(* fault in one (it ends the batch) leaves what a refusal leaves.          *)
(*                                                                         *)
(* Definitions named after another one and a slip in it (ReserveOrder,     *)
(* SelectingMore, ...) are no part of the specification.                   *)
(***************************************************************************)
EXTENDS Integers, SequencesExt

CONSTANTS
  Players, Units, NoUnit,
  Owner,        \* whose each unit is; a shop is nobody's
  Sites,        \* grounds to build on: two builds overlap if they are on the same
  Commands,     \* bound: the commands, other than builds, that clients give
  ActRecords,   \* ACT_RECORDS: room an action may need
  PacketBytes,  \* size of the packet buffer
  MaxSites,     \* MAX_QUEUED_SITES
  SiteLife,     \* QUEUED_SITE_MS
  TimeWrap,     \* width of the game's clock
  MaxTime, MaxOrders, MaxRecords, MaxEpisodes \* bounds: time, orders, records in a queue, episodes

\* Without a target or a point (stop, casts and item uses of that kind), with one
\* (move, attack, harvest, aimed casts and item uses), and dropping an item.
Tasks == {"stop", "move", "drop"}
\* What interrupts no task: train, research, learn and buy; revive has a target.
Production == {"produce", "revive"}

ASSUME ConstantsAssumption ==
  /\ NoUnit \notin Units /\ DOMAIN Owner = Units
  /\ Sites \cap (Tasks \cup Production) = {} /\ Commands \subseteq Tasks \cup Production
  /\ {ActRecords, PacketBytes, MaxSites, SiteLife, TimeWrap} \subseteq Nat \ {0}
  /\ {MaxTime, MaxOrders, MaxRecords, MaxEpisodes} \subseteq Nat
  /\ TimeWrap > MaxTime + SiteLife \* the clock itself does not wrap in an episode

\* The longest action, "buy", makes two selections of four records and an order.
LongestAction == 9
ASSUME RoomAssumption == ActRecords >= LongestAction

\* The longest record, that of dropping an item, in bytes: a packet takes any record.
LongestRecord == 39
ASSUME PacketAssumption == PacketBytes >= LongestRecord

VARIABLES
  queue, capacity, \* g_act: the records of each player, and the room for them
  prev,            \* g_sel_prev: the unit last selected, NoUnit for none
  sites,           \* g_queued: build sites of Shift-queued orders
  batch,           \* act_apply under way: its player, and "pending" once scanned
  inGame,          \* g_status: orders are taken in an episode
  \* the game: units, each player's selection, what each unit is to do, the clock
  alive, sel, plan, time,
  given, heard,    \* history: orders accepted, and executed, of each player
  episode          \* history: how often the map was reloaded

hook == <<queue, capacity, prev, sites, batch, inGame>>
game == <<alive, sel, plan, time, heard>>
vars == <<hook, game, given, episode>>

Marks == [kind : {"deselect", "select", "presub", "subgroup"}, unit : Units]
Deeds == Sites \cup Tasks \cup Production
Orders == [kind : {"order"}, unit : Units, what : Deeds, queued : BOOLEAN,
           auto : BOOLEAN, n : Nat] \* auto, n: history
Pending == [worker : Units, site : Sites]
Remembered == [worker : Units, site : Sites, at : 0..MaxTime, episode : Nat] \* episode: history
NoBatch == [on |-> FALSE]
Batches == [on : {TRUE}, player : Players, scanned : BOOLEAN, pending : SUBSET Pending, from : Nat]

TypeOK ==
  /\ queue \in [Players -> Seq(Marks \cup Orders)] /\ capacity \in [Players -> Nat]
  /\ prev \in [Players -> Units \cup {NoUnit}]
  /\ sites \in Seq(Remembered) /\ Len(sites) <= MaxSites
  /\ batch \in Batches \cup {NoBatch} /\ inGame \in BOOLEAN
  /\ alive \subseteq Units /\ sel \in [Players -> SUBSET Units]
  /\ plan \in [Units -> Seq([what : Sites \cup Tasks, at : 0..MaxTime])]
  /\ time \in 0..MaxTime /\ episode \in Nat
  /\ given \in [Players -> Nat] /\ heard \in [Players -> Nat]

Init ==
  /\ queue = [p \in Players |-> <<>>] /\ capacity = [p \in Players |-> 0]
  /\ prev = [p \in Players |-> NoUnit] /\ sites = <<>> /\ batch = NoBatch
  /\ inGame = FALSE /\ time = 0 /\ episode = 0
  /\ alive = Units /\ sel = [p \in Players |-> {}] /\ plan = [u \in Units |-> <<>>]
  /\ given = [p \in Players |-> 0] /\ heard = [p \in Players |-> 0]
-----------------------------------------------------------------------------
(* The game (outside the hook). *)

\* It applies a player's records one by one: selections add and remove, and an
\* order goes to all that is selected.
Obey(todo, order) ==
  IF order.what \in Production THEN todo
  ELSE LET new == [what |-> order.what, at |-> time] IN
       IF order.queued THEN Append(todo, new) ELSE <<new>>

Apply(p, s, r) ==
  CASE r.kind = "deselect" -> [s EXCEPT !.sel = @ \ {r.unit}]
    [] r.kind = "select" -> [s EXCEPT !.sel = @ \cup ({r.unit} \cap alive)]
    [] r.kind = "order" ->
         [s EXCEPT !.plan = [u \in Units |-> IF u \in s.sel /\ Owner[u] = p THEN Obey(s.plan[u], r)
                                             ELSE s.plan[u]],
                   !.heard = IF r.n = @ + 1 THEN r.n ELSE @]
    [] OTHER -> s

Applied(p, records) ==
  LET after[n \in 0 .. Len(records)] ==
        IF n = 0 THEN [sel |-> sel[p], plan |-> plan, heard |-> heard[p]]
        ELSE Apply(p, after[n - 1], records[n])
  IN after[Len(records)]

\* A frame flushes before it runs its turns.
Tick ==
  /\ ~batch.on /\ \A p \in Players : queue[p] = <<>>
  /\ time < MaxTime /\ time' = time + 1
  /\ UNCHANGED <<hook, alive, sel, plan, heard, given, episode>>

\* What a unit is at ends, done or given up.
Ends(u) ==
  /\ ~batch.on /\ plan[u] # <<>> /\ plan' = [plan EXCEPT ![u] = Tail(@)]
  /\ UNCHANGED <<hook, alive, sel, time, heard, given, episode>>

\* Shops of nobody are invulnerable.
Dies(u) ==
  /\ ~batch.on /\ u \in alive /\ Owner[u] \in Players
  /\ alive' = alive \ {u} /\ plan' = [plan EXCEPT ![u] = <<>>]
  /\ sel' = [p \in Players |-> sel[p] \ {u}]
  /\ UNCHANGED <<hook, time, heard, given, episode>>
-----------------------------------------------------------------------------
(* The queue. *)

\* act_clear, but for the remembered sites: it does not know of them.
Clear ==
  /\ queue' = [p \in Players |-> <<>>] /\ capacity' = [p \in Players |-> 0]
  /\ prev' = [p \in Players |-> NoUnit]

\* The slip: room for one selection and an order, where "buy" has two.
ReserveOrder(p) == IF capacity[p] - Len(queue[p]) >= 5 THEN capacity[p]
                   ELSE IF capacity[p] = 0 THEN ActRecords ELSE 2 * capacity[p]

\* act_reserve
Reserve(p) == IF capacity[p] - Len(queue[p]) >= ActRecords THEN capacity[p]
              ELSE IF capacity[p] = 0 THEN ActRecords ELSE 2 * capacity[p]

Mark(kind, u) == [kind |-> kind, unit |-> u]

\* The slip: the previous selection stays.
SelectingMore(before, u) == <<Mark("select", u), Mark("presub", u), Mark("subgroup", u)>>

\* select_unit, after "before" was selected.
Selecting(before, u) ==
  (IF before = NoUnit THEN <<>> ELSE <<Mark("deselect", before)>>)
  \o <<Mark("select", u), Mark("presub", u), Mark("subgroup", u)>>

Order(p, u, what, queued, auto) ==
  <<[kind |-> "order", unit |-> u, what |-> what, queued |-> queued, auto |-> auto, n |-> given[p] + 1]>>

Enqueue(p, records, last, orders) ==
  /\ queue' = [queue EXCEPT ![p] = @ \o records]
  /\ capacity' = [capacity EXCEPT ![p] = Reserve(p)]
  /\ prev' = [prev EXCEPT ![p] = last]
  /\ given' = [given EXCEPT ![p] = @ + orders]

Bytes(r) ==
  CASE r.kind \in {"deselect", "select"} -> 12
    [] r.kind = "presub" -> 1
    [] r.kind = "subgroup" -> 13
    [] r.kind = "order" /\ r.what \in {"stop", "produce"} -> 15
    [] r.kind = "order" /\ r.what = "drop" -> 39
    [] OTHER -> 31
Size(records) ==
  LET size[n \in 0 .. Len(records)] == IF n = 0 THEN 0 ELSE size[n - 1] + Bytes(records[n])
  IN size[Len(records)]

Fits(packet, r) == Size(packet) + Bytes(r) <= PacketBytes
Put(packets, r) == Front(packets) \o <<Append(Last(packets), r)>>
Packed(packets, r) == IF Fits(Last(packets), r) THEN Put(packets, r) ELSE Append(packets, <<r>>)

\* act_flush splits at record boundaries.
Packets(records) ==
  LET split[n \in 0 .. Len(records)] ==
        IF n = 0 THEN <<<<>>>> ELSE Packed(split[n - 1], records[n])
  IN split[Len(records)]

\* The packets are applied before the next turn.
Flush ==
  /\ ~batch.on /\ \E p \in Players : queue[p] # <<>>
  /\ LET after == [p \in Players |-> Applied(p, FlattenSeq(Packets(queue[p])))] IN
       /\ sel' = [p \in Players |-> after[p].sel]
       /\ heard' = [p \in Players |-> after[p].heard]
       /\ plan' = [u \in Units |-> IF Owner[u] \in Players THEN after[Owner[u]].plan[u] ELSE plan[u]]
  /\ queue' = [p \in Players |-> <<>>]
  /\ UNCHANGED <<capacity, prev, sites, batch, inGame, alive, time, given, episode>>
-----------------------------------------------------------------------------
(* Sites. *)

Overlaps(s, t) == s = t

\* The loop that moves down what is kept.
Sifted(remembered, keep) ==
  LET k[n \in 0 .. Len(remembered)] ==
        IF n = 0 THEN <<>>
        ELSE IF remembered[n] \in keep THEN Append(k[n - 1], remembered[n]) ELSE k[n - 1]
  IN k[Len(remembered)]

\* forget_queued_sites, at every action that is not queued
Forgotten(u, queued) ==
  IF queued THEN sites ELSE Sifted(sites, {q \in ToSet(sites) : q.worker # u})

\* add_queued_sites: the time passed is unsigned.
Live(q) == q.worker \in alive /\ (time - q.at) % TimeWrap < SiteLife
Kept(remembered) == Sifted(remembered, {q \in ToSet(remembered) : Live(q)})

\* placement_pending: the workers' current build orders
Current(p) ==
  {[worker |-> u, site |-> Head(plan[u]).what] :
     u \in {v \in alive : Owner[v] = p /\ plan[v] # <<>> /\ Head(plan[v]).what \in Sites}}

\* n_pending, once per batch, and the sites as that leaves them.
Scanned(remembered) ==
  IF batch.scanned THEN batch.pending
  ELSE Current(batch.player) \cup {[worker |-> q.worker, site |-> q.site] : q \in ToSet(Kept(remembered))}
Purged(remembered) == IF batch.scanned THEN remembered ELSE Kept(remembered)

\* placement_find: the game's search may offer any place, or none; the place is
\* clear of all that is pending, but for the site that the order replaces.
Free(s, pending, u, queued) ==
  \A q \in pending : (~queued /\ q.worker = u) \/ ~Overlaps(s, q.site)

RememberAlways(remembered, u, s) ==
  Append(remembered, [worker |-> u, site |-> s, at |-> time, episode |-> episode])
Remember(remembered, u, s) ==
  IF Len(remembered) < MaxSites
  THEN Append(remembered, [worker |-> u, site |-> s, at |-> time, episode |-> episode])
  ELSE remembered
-----------------------------------------------------------------------------
(* act_apply, one action at a time.  An action that was malformed, or names no *)
(* living unit, changes nothing.                                               *)

Begin(p) ==
  /\ ~batch.on /\ inGame /\ Len(queue[p]) < MaxRecords
  /\ batch' = [on |-> TRUE, player |-> p, scanned |-> FALSE, pending |-> {}, from |-> Len(queue[p])]
  /\ UNCHANGED <<queue, capacity, prev, sites, inGame, game, given, episode>>

End ==
  /\ batch.on /\ batch' = NoBatch
  /\ UNCHANGED <<queue, capacity, prev, sites, inGame, game, given, episode>>

Mine(u) == u \in alive /\ Owner[u] = batch.player
Room == Len(queue[batch.player]) < MaxRecords /\ given[batch.player] < MaxOrders
actOnly == <<inGame, game, episode>>

\* Not the player's unit, no such target, or no memory.
Refuse(u, queued) ==
  /\ batch.on /\ u \in alive
  /\ sites' = Forgotten(u, queued)
  /\ UNCHANGED <<queue, capacity, prev, batch, given, actOnly>>

\* Arguments that the command does not take: there is room by then.
RefuseLate(u, queued) ==
  /\ batch.on /\ Mine(u)
  /\ sites' = Forgotten(u, queued)
  /\ capacity' = [capacity EXCEPT ![batch.player] = Reserve(batch.player)]
  /\ UNCHANGED <<queue, prev, batch, given, actOnly>>

\* The search finds nothing that is clear.
NoSite(u, queued) ==
  /\ batch.on /\ Mine(u)
  /\ sites' = Purged(Forgotten(u, queued))
  /\ batch' = [batch EXCEPT !.scanned = TRUE, !.pending = Scanned(Forgotten(u, queued))]
  /\ capacity' = [capacity EXCEPT ![batch.player] = Reserve(batch.player)]
  /\ UNCHANGED <<queue, prev, given, actOnly>>

\* A task is done at once or Shift-queued; production is not queued.
Command(u, what, queued) ==
  /\ batch.on /\ Mine(u) /\ Room /\ (what \in Production => ~queued)
  /\ LET p == batch.player IN
       Enqueue(p, Selecting(prev[p], u) \o Order(p, u, what, queued, FALSE), u, 1)
  /\ sites' = Forgotten(u, queued)
  /\ UNCHANGED <<batch, actOnly>>

Select(u) ==
  /\ batch.on /\ Mine(u) /\ Room
  /\ Enqueue(batch.player, Selecting(prev[batch.player], u), u, 0)
  /\ sites' = Forgotten(u, FALSE)
  /\ UNCHANGED <<batch, actOnly>>

\* The buyer, then the shop: the order is the shop's.
Buy(u, shop) ==
  /\ batch.on /\ Mine(u) /\ Room /\ shop \in alive
  /\ LET p == batch.player IN
       Enqueue(p, Selecting(prev[p], u) \o Selecting(u, shop) \o Order(p, shop, "produce", FALSE, FALSE), shop, 1)
  /\ sites' = Forgotten(u, FALSE)
  /\ UNCHANGED <<batch, actOnly>>

\* The slip: the site is not pending for the rest of the batch.
BuildUnseen(u, s, queued, auto) ==
  /\ batch.on /\ Mine(u) /\ Room
  /\ LET p == batch.player kept == Purged(Forgotten(u, queued)) pending == Scanned(Forgotten(u, queued)) IN
       /\ auto => Free(s, pending, u, queued)
       /\ batch' = [batch EXCEPT !.scanned = TRUE, !.pending = pending]
       /\ sites' = IF queued THEN Remember(kept, u, s) ELSE kept
       /\ Enqueue(p, Selecting(prev[p], u) \o Order(p, u, s, queued, auto), u, 1)
  /\ UNCHANGED actOnly

Build(u, s, queued, auto) ==
  /\ batch.on /\ Mine(u) /\ Room
  /\ LET p == batch.player kept == Purged(Forgotten(u, queued)) pending == Scanned(Forgotten(u, queued)) IN
       /\ auto => Free(s, pending, u, queued)
       /\ batch' = [batch EXCEPT !.scanned = TRUE, !.pending = pending \cup {[worker |-> u, site |-> s]}]
       /\ sites' = IF queued THEN Remember(kept, u, s) ELSE kept
       /\ Enqueue(p, Selecting(prev[p], u) \o Order(p, u, s, queued, auto), u, 1)
  /\ UNCHANGED actOnly
-----------------------------------------------------------------------------
\* restart_job, and the reloaded map.
Restart ==
  /\ ~batch.on /\ inGame /\ episode < MaxEpisodes
  /\ Clear /\ inGame' = FALSE
  /\ episode' = episode + 1 /\ time' = 0
  /\ alive' = Units /\ sel' = [p \in Players |-> {}] /\ plan' = [u \in Units |-> <<>>]
  /\ given' = [p \in Players |-> 0] /\ heard' = [p \in Players |-> 0]
  /\ UNCHANGED <<sites, batch>>

\* create_job: act_configure
Create ==
  /\ ~batch.on /\ ~inGame /\ inGame' = TRUE
  /\ Clear
  /\ UNCHANGED <<sites, batch, game, given, episode>>

Action(u, queued) ==
  \/ Refuse(u, queued) \/ RefuseLate(u, queued) \/ NoSite(u, queued)
  \/ \E what \in Commands : Command(u, what, queued)
  \/ ~queued /\ (Select(u) \/ \E shop \in Units : Buy(u, shop))
  \/ \E s \in Sites, auto \in BOOLEAN : Build(u, s, queued, auto)

Item == \E u \in Units, queued \in BOOLEAN : Action(u, queued)

Next ==
  \/ Tick \/ Flush \/ Restart \/ Create \/ End \/ Item
  \/ \E p \in Players : Begin(p)
  \/ \E u \in Units : Ends(u) \/ Dies(u)

Spec == Init /\ [][Next]_vars
-----------------------------------------------------------------------------
(* Correctness. *)

(* The records never outgrow the room made for them, and no packet the      *)
(* buffer it is put together in.                                            *)
WithinRoom == \A p \in Players : Len(queue[p]) <= capacity[p]
WithinPackets == \A p \in Players : \A packet \in ToSet(Packets(queue[p])) : Size(packet) <= PacketBytes
BuffersHold == WithinRoom /\ WithinPackets

\* The orders among the records, as their units are to do them.
Asked(records) ==
  LET asked[n \in 0 .. Len(records)] ==
        IF n = 0 THEN <<>>
        ELSE LET r == records[n] IN
             IF r.kind = "order"
             THEN Append(asked[n - 1], [unit |-> r.unit, what |-> r.what, queued |-> r.queued])
             ELSE asked[n - 1]
  IN asked[Len(records)]

(* Whatever the player has selected, and whatever was refused, flushed or   *)
(* killed before, the units do what they would do if the orders went        *)
(* straight to them ("preventing mixed selections", actions.md): each its   *)
(* own, all of them, in the order of acceptance, before game time goes on,  *)
(* and nothing that was ordered in the game before.                         *)
Waiting == [p \in Players |-> Asked(queue[p])]
Direct == INSTANCE UnitOrders WITH orders <- Waiting
ImplementsOrders == Direct!USpec

(* A site found by the search is clear of what the player's other workers   *)
(* build now, and of the builds before it in its batch ("a site another     *)
(* worker is already walking to looks free", placement.c).                  *)
Building(u) == plan[u] # <<>> /\ Head(plan[u]).what \in Sites
SitesApart ==
  [][\A p \in Players :
       Len(queue'[p]) > Len(queue[p]) /\ Last(queue'[p]).kind = "order" =>
         LET new == Last(queue'[p]) IN
         new.auto =>
           /\ \A v \in alive : Owner[v] = p /\ Building(v) /\ (v # new.unit \/ new.queued) =>
                ~Overlaps(Head(plan[v]).what, new.what)
           /\ \A i \in batch.from + 1 .. Len(queue[p]) :
                LET r == queue[p][i] IN
                r.kind = "order" /\ r.what \in Sites /\ (r.unit # new.unit \/ new.queued) =>
                  ~Overlaps(r.what, new.what)]_vars

(* A site remembered is forgotten, while its worker lives and its time      *)
(* lasts, only at an action for that worker that is not queued; and that of *)
(* a Shift-queued build is remembered while there is room.                  *)
KeptInMind == \A q \in ToSet(sites) : Live(q) /\ q \notin ToSet(sites') => Action(q.worker, FALSE)
Noted(p) ==
  Len(queue'[p]) > Len(queue[p]) /\ Last(queue'[p]).kind = "order" =>
    LET new == Last(queue'[p]) IN
    new.what \in Sites /\ new.queued =>
      \/ Len(sites') = MaxSites
      \/ \E q \in ToSet(sites') : q.worker = new.unit /\ q.site = new.what /\ q.at = time
SitesKept == [][KeptInMind /\ \A p \in Players : Noted(p)]_vars

SitesHeld == SitesApart /\ SitesKept

(* No site of an episode before is kept from the search ("Orders, events,   *)
(* results and staging clear", protocol.md).  That does not hold: act_clear *)
(* leaves the remembered sites, and once the new clock passes the time of a *)
(* site it counts again.                                                    *)
SitesOfThisEpisode ==
  \A i \in DOMAIN sites : inGame /\ Live(sites[i]) => sites[i].episode = episode

(* A Shift-queued build that its worker has yet to begin is remembered      *)
(* ("A site is kept until its worker gets an unqueued order (which clears   *)
(* its queue), dies, or QUEUED_SITE_MS of game time pass", act.c).          *)
SitesRemembered ==
  \A u \in alive : Owner[u] \in Players =>
    \A i \in 2..Len(plan[u]) :
      /\ plan[u][i].what \in Sites /\ time - plan[u][i].at < SiteLife
      /\ ~\E j \in DOMAIN queue[Owner[u]] : queue[Owner[u]][j].unit = u
      => \E q \in ToSet(sites) : q.worker = u /\ q.site = plan[u][i].what
=============================================================================
