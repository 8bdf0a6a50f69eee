----------------------------- MODULE LookingForTeam -----------------------------
(***************************************************************************)
(* The group finder: LFTManager, its queue, role checks and offers, and the *)
(* random bots that fill a waiting player's group.                          *)
(*                                                                          *)
(* A player joins alone or with his party.  A party first answers a role    *)
(* check; then each member gets a queue entry that names the leader, and    *)
(* the entries of one leader (a block) are only matched together.  When     *)
(* entries that list the same instance fill the slots of a group an offer   *)
(* goes out; when everybody accepted, the players are put into one group.   *)
(* All of it runs in the world thread, but between any two handlers the     *)
(* players join and leave parties, log out and are teleported.              *)
(*                                                                          *)
(* The handlers are written as functions of the finder's state, a record    *)
(* with one field per variable, so that a handler is the composition of the *)
(* calls it makes.  Guids are numbers: several loops run in guid order.     *)
(***************************************************************************)
EXTENDS Naturals, Sequences, FiniteSets, SequencesExt

CONSTANTS
    Players,       \* guids, the bots included
    Bots,          \* characters on RNDBOT accounts, driven by the server
    Instances,     \* instance codes, as numbers: they are matched in order
    RolesOf,       \* AllowedRoleMask, for a bot also what its spec can play
    MayGroup,      \* pairs of players CanPlayersGroup lets group
    DamageSlots,   \* damage dealers in a group: 3
    BotFill,       \* LFT.BotFill.Enable
    Timeout,       \* updates a role check or an offer lasts: 90 seconds
    MaxJoins,      \* bound: requests to join the queue
    MaxMoves,      \* bound: changes of parties, logouts and teleports
    NoPlayer       \* the empty guid

Roles == {"tank", "healer", "damage"}
Slots == [r \in Roles |-> IF r = "damage" THEN DamageSlots ELSE 1]
GroupSize == DamageSlots + 2

ASSUME PlayersAssumption ==
    IsFiniteSet(Players) /\ Players \subseteq Nat /\ Bots \subseteq Players /\ NoPlayer \notin Players
ASSUME RolesAssumption == RolesOf \in [Players -> (SUBSET Roles) \ {{}}]
ASSUME MayGroupAssumption == MayGroup \subseteq Players \X Players
ASSUME BoundsAssumption ==
    /\ DamageSlots \in Nat \ {0} /\ Timeout \in Nat \ {0} /\ MaxJoins \in Nat /\ MaxMoves \in Nat
    /\ BotFill \in BOOLEAN /\ IsFiniteSet(Instances) /\ Instances \subseteq Nat

VARIABLES
    queue,          \* m_queue, in queueOrder
    rolechecks,     \* m_rolechecks, by leader
    offers,         \* m_offers, by id
    playerOffers,   \* m_playerOffers: the offer of a player
    nextOfferId,    \* m_nextOfferId
    fillBots,       \* m_fillBots
    forcedRole,     \* PlayerbotAI::m_forcedRole of each bot
    groups,         \* the parties, by leader: slots in order, and whether the finder knows it
    where,          \* in the world, on the way to another map, or logged out
    joins,          \* bound: requests to join so far
    moves           \* bound: changes outside of the finder so far

finderVars == <<queue, rolechecks, offers, playerOffers, nextOfferId, fillBots, forcedRole, groups>>
vars == <<finderVars, where, joins, moves>>

Finder == [queue |-> queue, rolechecks |-> rolechecks, offers |-> offers, playerOffers |-> playerOffers,
           nextOfferId |-> nextOfferId, fillBots |-> fillBots, forcedRole |-> forcedRole, groups |-> groups]

Become(state) == \E s \in {state} :
    /\ queue' = s.queue /\ rolechecks' = s.rolechecks /\ offers' = s.offers
    /\ playerOffers' = s.playerOffers /\ nextOfferId' = s.nextOfferId
    /\ fillBots' = s.fillBots /\ forcedRole' = s.forcedRole /\ groups' = s.groups

-----------------------------------------------------------------------------
(* Helpers. *)

(* The state after a loop over seq: each step is a value before the next one  *)
(* starts from it, as in the code.                                            *)
Fold(Step(_, _), base, seq) ==
    LET after[i \in 0 .. Len(seq)] ==
            IF i = 0 THEN base ELSE CHOOSE r \in {Step(s, seq[i]) : s \in {after[i - 1]}} : TRUE
    IN  after[Len(seq)]

Without(f, S) == [x \in DOMAIN f \ S |-> f[x]]
With(f, x, v) == [y \in DOMAIN f \cup {x} |-> IF y = x THEN v ELSE f[y]]

(* The elements of seq at the positions in S, and the numbers in S, in order. *)
At(seq, S) ==
    LET upto[i \in 0 .. Len(seq)] ==
            IF i = 0 THEN <<>> ELSE IF i \in S THEN Append(upto[i - 1], seq[i]) ELSE upto[i - 1]
    IN  upto[Len(seq)]

Ascending(S) == At([i \in 1 .. Max(S \cup {0}) + 1 |-> i - 1], {n + 1 : n \in S})

GetPlayer(p) == where[p] = "in"
CanPlayersGroup(p, q) == <<p, q>> \in MayGroup

Entries(s) == ToSet(s.queue)
Queued(s) == {e.guid : e \in Entries(s)}
Entry(s, p) == CHOOSE e \in Entries(s) : e.guid = p
BlockLeader(e) == IF e.leader = NoPlayer THEN e.guid ELSE e.leader
Dequeue(s, S) == [s EXCEPT !.queue = At(s.queue, {i \in DOMAIN s.queue : s.queue[i].guid \notin S})]

GroupOf(s, p) ==
    IF \E l \in DOMAIN s.groups : p \in ToSet(s.groups[l].slots)
    THEN CHOOSE l \in DOMAIN s.groups : p \in ToSet(s.groups[l].slots)
    ELSE NoPlayer

PartyOf(s, p) == IF GroupOf(s, p) = NoPlayer THEN <<p>> ELSE s.groups[GroupOf(s, p)].slots
GetPartyMembers(s, p) == At(PartyOf(s, p), {i \in DOMAIN PartyOf(s, p) : GetPlayer(PartyOf(s, p)[i])})

(* The role the next member takes: tank, healer, damage, whichever of his    *)
(* roles has a slot left beside those in taken.                              *)
PickRole(roles, taken) ==
    LET open == {r \in roles : Cardinality({p \in DOMAIN taken : taken[p] = r}) < Slots[r]}
    IN  IF open = {} THEN "none"
        ELSE IF "tank" \in open THEN "tank" ELSE IF "healer" \in open THEN "healer" ELSE "damage"

(* taken with a role for the player of entry e.                               *)
TakeRole(taken, e) == With(taken, e.guid, PickRole(e.roles, taken))

-----------------------------------------------------------------------------
(* The matcher. *)

Available(s, seed, e, inst) ==
    /\ e.guid \notin DOMAIN s.playerOffers
    /\ inst \in e.instances
    /\ CanPlayersGroup(seed.guid, e.guid)

(* All that were queued by the leader of e.                                   *)
BlockOf(s, e) == At(s.queue, {i \in DOMAIN s.queue : BlockLeader(s.queue[i]) = BlockLeader(e)})

(* The members of the block to place: all of them, or nobody when one is      *)
(* taken, lists another dungeon or may not group with the seed.               *)
Placeable(s, seed, block, taken, inst) ==
    IF \A i \in DOMAIN block : block[i].guid \notin DOMAIN taken /\ Available(s, seed, block[i], inst)
    THEN block ELSE <<>>

(* Mutant: the candidate is matched without his party.                       *)
AddAlone(s, seed, taken, e, inst) ==
    IF PickRole(e.roles, taken) = "none" THEN taken ELSE TakeRole(taken, e)

(* The roles with the candidate's whole block added when it fits.             *)
AddBlock(s, seed, taken, e, inst) ==
    LET placed == Fold(TakeRole, taken, Placeable(s, seed, BlockOf(s, e), taken, inst))
    IN  IF \E p \in DOMAIN placed : placed[p] = "none" THEN taken ELSE placed

AddCandidate(s, seed, taken, e, inst) ==
    IF Available(s, seed, e, inst) /\ e.guid \notin DOMAIN taken
    THEN AddBlock(s, seed, taken, e, inst) ELSE taken

(* Mutant: who came last is placed first.                                    *)
TeamLatestFirst(s, seed, inst) ==
    Fold(LAMBDA taken, e : AddCandidate(s, seed, taken, e, inst), <<>>, Reverse(s.queue))

(* The players a seed is grouped with, in queue order, and their roles.       *)
Team(s, seed, inst) ==
    Fold(LAMBDA taken, e : AddCandidate(s, seed, taken, e, inst), <<>>, s.queue)

MakeOffer(s, team, inst) ==
    [s EXCEPT !.offers = With(@, s.nextOfferId,
                  [instance |-> inst, roles |-> team, accepted |-> {}, timer |-> Timeout]),
              !.playerOffers = [p \in DOMAIN @ \cup DOMAIN team |->
                  IF p \in DOMAIN team THEN s.nextOfferId ELSE @[p]],
              !.nextOfferId = @ + 1]

(* The first seed a whole group is found for gets an offer.                   *)
TryBuildOfferForInstance(s, inst) ==
    LET seeds == {i \in DOMAIN s.queue :
                     /\ s.queue[i].guid \notin DOMAIN s.playerOffers /\ inst \in s.queue[i].instances
                     /\ Cardinality(DOMAIN Team(s, s.queue[i], inst)) = GroupSize}
    IN  IF seeds = {} THEN s ELSE MakeOffer(s, Team(s, s.queue[Min(seeds)], inst), inst)

TryMakeOffers(s) ==
    LET wanted == UNION {e.instances : e \in {x \in Entries(s) : x.guid \notin DOMAIN s.playerOffers}}
    IN  Fold(TryBuildOfferForInstance, s, Ascending(wanted))

-----------------------------------------------------------------------------
(* Role checks, offers and groups. *)

EnqueuePlayer(s, p, leader, instances, roles) ==
    [Dequeue(s, {p}) EXCEPT !.queue =
        Append(@, [guid |-> p, leader |-> leader, instances |-> instances, roles |-> roles])]

EnqueueMember(s, leader, check, p) ==
    IF GetPlayer(p) /\ p \in DOMAIN check.responses
    THEN EnqueuePlayer(s, p, leader, check.instances, check.responses[p]) ELSE s

EnqueueRolecheck(s, leader, check) ==
    TryMakeOffers(Fold(LAMBDA t, p : EnqueueMember(t, leader, check, p), s, check.members))

(* A role check whose members have all answered is enqueued, another one is   *)
(* kept under its leader's guid.                                              *)
SettleRolecheck(s, leader, check) ==
    IF DOMAIN check.responses = ToSet(check.members)
    THEN EnqueueRolecheck([s EXCEPT !.rolechecks = Without(@, {leader})], leader, check)
    ELSE [s EXCEPT !.rolechecks = With(@, leader, check)]

StartRolecheck(s, leader, instances) ==
    LET members == GetPartyMembers(s, leader)
    IN  SettleRolecheck(s, leader,
            [members |-> members, instances |-> instances, timer |-> Timeout,
             responses |-> [b \in ToSet(members) \cap Bots |-> RolesOf[b]]])

CancelRolechecksOf(s, p) ==
    [s EXCEPT !.rolechecks =
        Without(@, {l \in DOMAIN @ : p \in ToSet(@[l].members)})]

(* Mutant: the offer is erased, its players stay marked as offered.          *)
CancelOfferKeepsPlayers(s, o, kept) ==
    [Dequeue(s, DOMAIN s.offers[o].roles \ kept) EXCEPT !.offers = Without(@, {o})]

(* The offer ends; of its players those in kept stay queued.                 *)
CancelOffer(s, o, kept) ==
    [Dequeue(s, DOMAIN s.offers[o].roles \ kept) EXCEPT
        !.playerOffers = Without(@, DOMAIN s.offers[o].roles),
        !.offers = Without(@, {o})]

(* Mutant: a player who logs out only loses his queue entry.                 *)
CleanupOnlyQueue(s, p) == Dequeue(s, {p})

CleanupPlayer(s, p) ==
    LET t == Dequeue(s, {p})
        o == s.playerOffers[p]
    IN  CancelRolechecksOf(
            IF p \in DOMAIN s.playerOffers
            THEN CancelOffer(t, o, DOMAIN s.offers[o].roles \ {p}) ELSE t, p)

(* The guid the group of a complete offer is built around: the leader named   *)
(* by the first member, in guid order, that has one; else the tank.           *)
LeaderGuid(s, roles) ==
    LET led == {p \in DOMAIN roles : p \in Queued(s) /\ Entry(s, p).leader # NoPlayer}
    IN  IF led # {} THEN Entry(s, Min(led)).leader
        ELSE CHOOSE p \in DOMAIN roles : roles[p] = "tank"

(* The group of the leader, created with him alone when he has none.         *)
WithGroup(s, leader) ==
    IF GroupOf(s, leader) = NoPlayer
    THEN [s EXCEPT !.groups = With(@, leader, [slots |-> <<leader>>, lft |-> TRUE])]
    ELSE [s EXCEPT !.groups[GroupOf(s, leader)].lft = TRUE]

Room(s, g) == Len(s.groups[g].slots) < GroupSize

(* Mutant: a player who already is a member counts as not added.             *)
AddNoMember(a, leader, p) ==
    LET s == IF a.group = NoPlayer THEN WithGroup(a.s, leader) ELSE a.s
        g == IF a.group = NoPlayer THEN GroupOf(s, leader) ELSE a.group
    IN  IF a.ok /\ GetPlayer(p) /\ GroupOf(s, p) = NoPlayer /\ Room(s, g)
        THEN [ok |-> TRUE, group |-> g, s |-> [s EXCEPT !.groups[g].slots = Append(@, p)]]
        ELSE [a EXCEPT !.ok = FALSE]

(* One call of AddPlayerToGroup; a.ok tells whether all so far returned true. *)
AddPlayerToGroup(a, leader, p) ==
    LET g == IF a.group = NoPlayer THEN GroupOf(WithGroup(a.s, leader), leader) ELSE a.group
        s == IF a.group = NoPlayer THEN WithGroup(a.s, leader) ELSE a.s
        reached == a.ok /\ GetPlayer(p) /\ (a.group # NoPlayer \/ GetPlayer(leader))
        member == p \in ToSet(s.groups[g].slots)
        addable == /\ GroupOf(s, p) = NoPlayer
                   /\ GetPlayer(leader) => CanPlayersGroup(leader, p)
                   /\ Room(s, g)
    IN  IF ~reached THEN [a EXCEPT !.ok = FALSE]
        ELSE [ok |-> member \/ addable, group |-> g,
              s |-> IF addable /\ ~member THEN [s EXCEPT !.groups[g].slots = Append(@, p)] ELSE s]

CompleteOffer(s, o) ==
    LET roles == s.offers[o].roles
        leader == LeaderGuid(s, roles)
        end == Fold(LAMBDA a, p : AddPlayerToGroup(a, leader, p),
                        [s |-> s, group |-> NoPlayer, ok |-> TRUE], Ascending(DOMAIN roles))
    IN  CancelOffer(end.s, o, {})

(* Everybody accepted: when one cannot be added the offer is cancelled and    *)
(* nobody requeued, else all leave the queue as members of the group; either  *)
(* way offer and entries are gone, and the group stays as far as it got.      *)
Accept(s, p) ==
    LET o == s.playerOffers[p]
        t == [s EXCEPT !.offers[o].accepted = @ \cup {p}]
    IN  IF p \notin DOMAIN s.playerOffers THEN s
        ELSE IF t.offers[o].accepted = DOMAIN t.offers[o].roles THEN CompleteOffer(t, o) ELSE t

-----------------------------------------------------------------------------
(* The bots. *)

(* Bots never see the popup: they are told their role and accept.             *)
AcceptAsBot(s, b) ==
    IF b \in DOMAIN s.playerOffers /\ b \notin s.offers[s.playerOffers[b]].accepted
    THEN Accept([s EXCEPT !.forcedRole[b] = s.offers[s.playerOffers[b]].roles[b]], b) ELSE s

AcceptForBots(s, bots) == Fold(AcceptAsBot, s, Ascending(bots))

AcceptOffersForFillBots(s) ==
    Fold(LAMBDA t, o : AcceptForBots(t, {b \in Bots \cap DOMAIN s.offers[o].roles : GetPlayer(b)}),
         s, Ascending(DOMAIN s.offers))

RealPlayerWaitsFor(s, inst) == \E e \in Entries(s) : e.guid \notin s.fillBots /\ inst \in e.instances

(* A fill bot stays while it has an offer, or is queued for an instance a     *)
(* player who is no fill bot is queued for.                                   *)
DropUnneededFillBots(s) ==
    LET stays == {b \in s.fillBots :
            \/ b \in DOMAIN s.playerOffers
            \/ b \in Queued(s) /\ \E i \in Entry(s, b).instances : RealPlayerWaitsFor(s, i)}
        dropped == s.fillBots \ stays
    IN  [Dequeue(s, dropped) EXCEPT
            !.fillBots = stays,
            !.forcedRole = [b \in Bots |-> IF b \in dropped /\ GetPlayer(b) THEN "none" ELSE @[b]]]

(* Group::RemoveMember: a group of two is disbanded, a leader who leaves is   *)
(* followed by the first member whose Player is loaded, else by the first.    *)
RemoveFromGroup(s, p) ==
    LET l == GroupOf(s, p)
        rest == At(s.groups[l].slots, {i \in DOMAIN s.groups[l].slots : s.groups[l].slots[i] # p})
        loaded == {i \in DOMAIN rest : where[rest[i]] # "out"}
        next == IF p # l THEN l ELSE rest[IF loaded # {} THEN Min(loaded) ELSE 1]
    IN  [s EXCEPT !.groups =
            IF Len(s.groups[l].slots) <= 2 THEN Without(@, {l})
            ELSE With(Without(@, {l}), next, [s.groups[l] EXCEPT !.slots = rest])]

(* The bots that may be taken for a role: the idle ones, and when there is    *)
(* none those of the finder's own groups in which nobody is real or offered.  *)
Candidates(s, role, waiter) ==
    LET able == {b \in Bots \ Queued(s) : GetPlayer(b) /\ role \in RolesOf[b] /\ <<waiter, b>> \in MayGroup}
        idle == {b \in able : GroupOf(s, b) = NoPlayer}
        spare == {b \in able \ idle : LET g == s.groups[GroupOf(s, b)] IN
                    g.lft /\ \A q \in ToSet(g.slots) : q \in Bots /\ GetPlayer(q) /\ q \notin DOMAIN s.playerOffers}
    IN  IF idle # {} THEN idle ELSE spare

(* The slots of an instance the queue leaves open for this waiter are filled  *)
(* with the first bots found, unless enough players are queued for it.        *)
EnqueueBot(s, inst, role, bot) ==
    LET free == IF GroupOf(s, bot) = NoPlayer THEN s ELSE RemoveFromGroup(s, bot)
    IN  [EnqueuePlayer(free, bot, NoPlayer, {inst}, {role}) EXCEPT !.fillBots = @ \cup {bot}]

FillRole(a, inst, waiter, role) ==
    LET found == Candidates(a.s, role, waiter)
    IN  IF a.count >= GroupSize \/ found = {} THEN a
        ELSE [count |-> a.count + 1, s |-> EnqueueBot(a.s, inst, role, Min(found))]

FillInstanceWithBots(s, inst, waiter) ==
    LET same == At(s.queue, {i \in DOMAIN s.queue :
                    inst \in s.queue[i].instances /\ CanPlayersGroup(waiter, s.queue[i].guid)})
        covered == Fold(TakeRole, <<>>, same)
        Open(r) == [i \in 1 .. Slots[r] - Cardinality({p \in DOMAIN covered : covered[p] = r}) |-> r]
    IN  Fold(LAMBDA a, role : FillRole(a, inst, waiter, role), [s |-> s, count |-> Len(same)],
             Open("tank") \o Open("healer") \o Open("damage")).s

FillFor(s, p, instances) == Fold(LAMBDA t, i : FillInstanceWithBots(t, i, p), s, Ascending(instances))

(* One round of the five second timer; waited holds the players who have      *)
(* been queued for the configured delay.                                      *)
FillRound(s, waited) ==
    LET t == DropUnneededFillBots(s)
        pending == {p \in waited \cap Queued(t) : p \notin t.fillBots /\ p \notin DOMAIN t.playerOffers}
    IN  Fold(LAMBDA u, p : FillFor(u, p, Entry(t, p).instances), t, Ascending(pending))

-----------------------------------------------------------------------------
(* The handlers. *)

(* HandleQueueJoin and JoinFromMeetingStone: a member who does not lead is    *)
(* refused; the player leaves all he is in and starts a role check.           *)
HandleQueueJoin(p, instances) ==
    /\ joins < MaxJoins /\ GetPlayer(p) /\ p \notin Bots
    /\ GroupOf(Finder, p) \in {NoPlayer, p}
    /\ Become(StartRolecheck(CleanupPlayer(Finder, p), p, instances))
    /\ joins' = joins + 1
    /\ UNCHANGED <<where, moves>>

ChecksOf(p) == {l \in DOMAIN rolechecks : p \in ToSet(rolechecks[l].members)}

HandleRolecheckResponse(p, roles) ==
    /\ GetPlayer(p) /\ p \notin Bots /\ ChecksOf(p) # {} /\ roles \subseteq RolesOf[p]
    /\ LET l == Min(ChecksOf(p))
       IN  Become(SettleRolecheck(Finder, l, [rolechecks[l] EXCEPT !.responses = With(@, p, roles)]))
    /\ UNCHANGED <<where, joins, moves>>

HandleOfferAccept(p) ==
    /\ GetPlayer(p) /\ p \notin Bots /\ p \in DOMAIN playerOffers
    /\ Become(Accept(Finder, p))
    /\ UNCHANGED <<where, joins, moves>>

(* He leaves the first role check he is in, else his offer, else the queue    *)
(* with all that were queued by the same leader.                              *)
HandleQueueLeave(p) ==
    /\ GetPlayer(p) /\ p \notin Bots
    /\ \/ /\ ChecksOf(p) # {}
          /\ LET l == Min(ChecksOf(p))
             IN  Become([Finder EXCEPT !.rolechecks = Without(@, {l})])
       \/ /\ ChecksOf(p) = {} /\ p \in DOMAIN playerOffers
          /\ LET o == playerOffers[p]
             IN  Become(TryMakeOffers(CancelOffer(Finder, o, DOMAIN offers[o].roles \ {p})))
       \/ /\ ChecksOf(p) = {} /\ p \notin DOMAIN playerOffers /\ p \in Queued(Finder)
          /\ Become(Dequeue(Finder, {e.guid : e \in
                {x \in Entries(Finder) : BlockLeader(x) = BlockLeader(Entry(Finder, p))}}))
    /\ UNCHANGED <<where, joins, moves>>

(* CancelOffer of every offer whose time is up: who accepted stays queued.    *)
ExpireOffer(s, o) ==
    IF s.offers[o].timer <= 1 THEN CancelOffer(s, o, s.offers[o].accepted)
    ELSE [s EXCEPT !.offers[o].timer = @ - 1]

ExpireOffers(s) == Fold(ExpireOffer, s, Ascending(DOMAIN s.offers))

ExpireRolechecks(s) ==
    LET aged == [l \in {x \in DOMAIN s.rolechecks : s.rolechecks[x].timer > 1} |->
                    [s.rolechecks[l] EXCEPT !.timer = @ - 1]]
    IN  [s EXCEPT !.rolechecks = aged]

(* LFTManager::Update.                                                        *)
Update(fill, waited) ==
    LET accepted == AcceptOffersForFillBots(Finder)
        filled == IF BotFill THEN IF fill THEN FillRound(accepted, waited) ELSE accepted
                  ELSE DropUnneededFillBots(accepted)
        present == Dequeue(filled, {p \in Players : ~GetPlayer(p)})
    IN  /\ waited \subseteq (IF BotFill /\ fill THEN Queued(Finder) ELSE {})
        /\ Become(TryMakeOffers(ExpireOffers(ExpireRolechecks(present))))
        /\ UNCHANGED <<where, joins, moves>>

-----------------------------------------------------------------------------
(* What happens outside of the finder. *)

(* A member joins the party of l by invitation.                               *)
JoinParty(l, p) ==
    /\ moves < MaxMoves /\ GetPlayer(l) /\ GetPlayer(p) /\ l # p /\ p \notin Bots
    /\ GroupOf(Finder, l) \in {NoPlayer, l} /\ GroupOf(Finder, p) = NoPlayer
    /\ CanPlayersGroup(l, p) /\ Len(PartyOf(Finder, l)) < GroupSize
    /\ groups' = With(groups, l, [slots |-> Append(PartyOf(Finder, l), p),
                                  lft |-> l \in DOMAIN groups /\ groups[l].lft])
    /\ moves' = moves + 1
    /\ UNCHANGED <<queue, rolechecks, offers, playerOffers, nextOfferId, fillBots, forcedRole, where, joins>>

LeaveParty(p) ==
    /\ moves < MaxMoves /\ GetPlayer(p) /\ p \notin Bots /\ GroupOf(Finder, p) # NoPlayer
    /\ groups' = RemoveFromGroup(Finder, p).groups
    /\ moves' = moves + 1
    /\ UNCHANGED <<queue, rolechecks, offers, playerOffers, nextOfferId, fillBots, forcedRole, where, joins>>

(* LogoutPlayer calls OnPlayerLogout; the player stays in his group.          *)
Logout(p) ==
    /\ moves < MaxMoves /\ where[p] # "out"
    /\ Become(CleanupPlayer(Finder, p))
    /\ where' = [where EXCEPT ![p] = "out"]
    /\ moves' = moves + 1
    /\ UNCHANGED joins

(* A teleport to another map takes the player out of the world until the      *)
(* client acknowledges it.                                                    *)
FarTeleport(p) ==
    /\ moves < MaxMoves /\ GetPlayer(p)
    /\ where' = [where EXCEPT ![p] = "far"]
    /\ moves' = moves + 1
    /\ UNCHANGED <<finderVars, joins>>

(* The player arrives, or logs in again: a bot comes back with a new AI.      *)
Enter(p) ==
    /\ ~GetPlayer(p)
    /\ where' = [where EXCEPT ![p] = "in"]
    /\ forcedRole' = [b \in Bots |-> IF b = p /\ where[p] = "out" THEN "none" ELSE forcedRole[b]]
    /\ UNCHANGED <<queue, rolechecks, offers, playerOffers, nextOfferId, fillBots, groups, joins, moves>>

-----------------------------------------------------------------------------
Init ==
    /\ queue = <<>> /\ rolechecks = <<>> /\ offers = <<>> /\ playerOffers = <<>>
    /\ nextOfferId = 1 /\ fillBots = {} /\ groups = <<>>
    /\ forcedRole = [b \in Bots |-> "none"]
    /\ where = [p \in Players |-> "in"]
    /\ joins = 0 /\ moves = 0

Next ==
    \/ \E p \in Players :
        \/ \E is \in (SUBSET Instances) \ {{}} : HandleQueueJoin(p, is)
        \/ \E roles \in (SUBSET Roles) \ {{}} : HandleRolecheckResponse(p, roles)
        \/ HandleOfferAccept(p)
        \/ HandleQueueLeave(p)
        \/ LeaveParty(p)
        \/ Logout(p)
        \/ FarTeleport(p)
        \/ Enter(p)
        \/ \E l \in Players : JoinParty(l, p)
    \/ \E fill \in BOOLEAN, waited \in SUBSET (Players \ Bots) : Update(fill, waited)

Spec == Init /\ [][Next]_vars

-----------------------------------------------------------------------------
(* Every queue entry, role check, offer and group is of the expected shape;   *)
(* nobody is in two groups, and no group outgrows its slots.                  *)
TypeOK ==
    /\ \A i \in DOMAIN queue :
        /\ queue[i].guid \in Players /\ queue[i].leader \in Players \cup {NoPlayer}
        /\ queue[i].instances \in (SUBSET Instances) \ {{}}
        /\ queue[i].roles \in (SUBSET RolesOf[queue[i].guid]) \ {{}}
        /\ \A j \in DOMAIN queue : i # j => queue[i].guid # queue[j].guid
    /\ \A l \in DOMAIN rolechecks :
        /\ l \in ToSet(rolechecks[l].members) /\ rolechecks[l].timer \in 1 .. Timeout
        /\ DOMAIN rolechecks[l].responses \subseteq ToSet(rolechecks[l].members)
        /\ DOMAIN rolechecks[l].responses # ToSet(rolechecks[l].members)
    /\ \A o \in DOMAIN offers : o < nextOfferId /\ offers[o].timer \in 1 .. Timeout
    /\ fillBots \subseteq Bots /\ forcedRole \in [Bots -> Roles \cup {"none"}]
    /\ \A l \in DOMAIN groups :
        /\ l \in ToSet(groups[l].slots) /\ ToSet(groups[l].slots) \subseteq Players
        /\ Len(groups[l].slots) <= GroupSize /\ Cardinality(ToSet(groups[l].slots)) = Len(groups[l].slots)
        /\ \A k \in DOMAIN groups \ {l} : ToSet(groups[k].slots) \cap ToSet(groups[l].slots) = {}
    /\ where \in [Players -> {"in", "far", "out"}]
    /\ joins \in 0 .. MaxJoins /\ moves \in 0 .. MaxMoves

(* m_playerOffers and m_offers agree: a player is marked as offered exactly   *)
(* while one open offer has a role for him, in particular no two offers share *)
(* a player.  Every open offer fills each slot once with a player who can     *)
(* play the role, and somebody has still to accept it.                        *)
OffersAgree ==
    /\ \A p \in DOMAIN playerOffers : playerOffers[p] \in DOMAIN offers
    /\ \A o \in DOMAIN offers :
        /\ DOMAIN offers[o].roles = {p \in DOMAIN playerOffers : playerOffers[p] = o}
        /\ \A r \in Roles : Cardinality({p \in DOMAIN offers[o].roles : offers[o].roles[p] = r}) = Slots[r]
        /\ \A p \in DOMAIN offers[o].roles : offers[o].roles[p] \in RolesOf[p]
        /\ offers[o].accepted \subseteq DOMAIN offers[o].roles /\ offers[o].accepted # DOMAIN offers[o].roles

(* Whoever logged out is in no role check, queue or offer, whatever the       *)
(* others did since (OnPlayerLogout).                                         *)
LogoutForgets ==
    \A p \in Players : where[p] = "out" =>
        /\ ChecksOf(p) = {} /\ p \notin Queued(Finder) /\ p \notin DOMAIN playerOffers

(* An offer takes all that were queued by one leader or none of them.         *)
PartiesStayTogether ==
    [][\A o \in DOMAIN offers' \ DOMAIN offers : \A e, f \in ToSet(queue') :
        BlockLeader(e) = BlockLeader(f) /\ e.guid \in DOMAIN offers'[o].roles
        => f.guid \in DOMAIN offers'[o].roles]_vars

(* First come, first served: who queued alone for one role is not passed over *)
(* for a later block that has the same role from a player who has no other,    *)
(* when everybody may be grouped with him.                                     *)
EarliestFirst ==
    [][\A o \in DOMAIN offers' \ DOMAIN offers : \A i, j \in DOMAIN queue' :
        LET early == queue'[i]
            late == queue'[j]
            Block(e) == {k \in DOMAIN queue' : BlockLeader(queue'[k]) = BlockLeader(e)}
        IN  /\ Block(early) = {i} /\ \A k \in Block(late) : i < k
            /\ early.roles = late.roles /\ Cardinality(early.roles) = 1
            /\ offers'[o].instance \in early.instances
            /\ \A p \in Players : <<p, early.guid>> \in MayGroup
            /\ late.guid \in DOMAIN offers'[o].roles
            => early.guid \in DOMAIN playerOffers']_vars

(* The last acceptance makes one group of exactly the offered players, when    *)
(* all are in the world and may be grouped, the party of the queue leader is   *)
(* part of the offer and the others are in no group.                           *)
AcceptedFormGroup ==
    [][\A o \in DOMAIN offers : \A p \in DOMAIN offers[o].roles :
        LET team == DOMAIN offers[o].roles
            party == ToSet(PartyOf(Finder, LeaderGuid(Finder, offers[o].roles)))
        IN  /\ HandleOfferAccept(p) /\ offers[o].accepted = team \ {p}
            /\ \A q \in team : GetPlayer(q) /\ \A r \in team : CanPlayersGroup(q, r)
            /\ party \subseteq team /\ \A q \in team \ party : GroupOf(Finder, q) = NoPlayer
            => \E l \in DOMAIN groups' : ToSet(groups'[l].slots) = team]_vars
================================================================================
