------------------------------ MODULE Membership ------------------------------
(***************************************************************************)
(* Who belongs to a channel of the hub: joins and their approval, member   *)
(* tokens, roles, leaving and removal, client rows, and the pruning of     *)
(* channels nobody uses (src/mvp_orbit/hub/store.py with the endpoints of  *)
(* hub/app.py).                                                            *)
(*                                                                         *)
(* A handler that needs a token runs in two steps, as in the code: the     *)
(* dependency require_member looks the token up in one critical section,   *)
(* the handler's store call is another.  A call between the two is a       *)
(* member of `calls`.  A refused call changes nothing, so it is the step   *)
(* Refuse that only ends the call.                                         *)
(*                                                                         *)
(* Tokens are secrets that never repeat; what matters of them is for whom  *)
(* one still works, so `tokens` holds <<channel, principal>>.  A token     *)
(* minted before tokens were bound to an alias has the principal Unbound.  *)
(***************************************************************************)
EXTENDS Naturals, FiniteSets

CONSTANTS
    Channels,      \* channel ids (hashes of channel names)
    Aliases,       \* member aliases; the client ids of a hub are aliases
    Requests,      \* ids of join requests, each used once
    Legacy,        \* members of a channel that an old hub left behind
    Unbound,       \* the principal of a token without an alias
    NoChannel,     \* the channel of a client id without a row
    Races,         \* which of the races below may happen
    MaxCalls       \* bound on authenticated calls in flight

AllRaces == {"late_poll",      \* an approved request is polled after an eviction
             "late_register"}  \* a token dies between its check and the client row

ASSUME LegacyAssumption == Legacy \subseteq Aliases
ASSUME UnboundAssumption == Unbound \notin Aliases
ASSUME NoChannelAssumption == NoChannel \notin Channels
ASSUME MaxCallsAssumption == MaxCalls \in Nat

Principals == Aliases \cup {Unbound}

VARIABLES
    role,      \* channel_members: role of an alias in a channel, or "none"
    request,   \* join_requests: status, channel and alias of a request
    tokens,    \* member_tokens neither revoked nor expired
    client,    \* clients: the channel of a client id, or NoChannel
    quiet,     \* channels whose last activity is older than the empty TTL
    calls      \* authenticated calls whose store call is still to come

vars == <<role, request, tokens, client, quiet, calls>>

Roles    == {"none", "member", "admin"}
Statuses == {"unused", "pending", "approved", "rejected", "deleted"}
Kept     == {"pending", "approved", "rejected"}

Members(ch) == {a \in Aliases : role[ch][a] # "none"}
Admins(ch)  == {a \in Aliases : role[ch][a] = "admin"}

-----------------------------------------------------------------------------
(* Helpers of the store *)

\* _insert_channel_member_locked: ON CONFLICT DO NOTHING keeps an old role.
Admitted(ch, a, r) ==
    IF role[ch][a] = "none" THEN [role EXCEPT ![ch][a] = r] ELSE role

\* A new member row counts as activity, an old one that stays does not.
QuietAfterAdmission(ch, a) ==
    IF role[ch][a] = "none" THEN quiet \ {ch} ELSE quiet

\* Mutant: tokens without an alias survive the eviction.
EvictedOwnTokens(ch, a) == tokens \ {<<ch, a>>}

\* _evict_member_locked: the alias's tokens go, and every unbound one.
EvictedTokens(ch, a) == tokens \ {<<ch, a>>, <<ch, Unbound>>}
EvictedClients(ch, a) == IF client[a] = ch THEN [client EXCEPT ![a] = NoChannel] ELSE client

\* Mutant: the deletion forgets the client rows.
DeleteChannelKeepsClients(ch) ==
    /\ role' = [role EXCEPT ![ch] = [a \in Aliases |-> "none"]]
    /\ request' = [r \in Requests |->
            IF request[r].channel = ch /\ request[r].status \in Kept
            THEN [request[r] EXCEPT !.status = "deleted"] ELSE request[r]]
    /\ tokens' = {t \in tokens : t[1] # ch}
    /\ UNCHANGED client

\* _delete_channel_locked: every row that names the channel.
DeleteChannel(ch) ==
    /\ role' = [role EXCEPT ![ch] = [a \in Aliases |-> "none"]]
    /\ request' = [r \in Requests |->
            IF request[r].channel = ch /\ request[r].status \in Kept
            THEN [request[r] EXCEPT !.status = "deleted"] ELSE request[r]]
    /\ tokens' = {t \in tokens : t[1] # ch}
    /\ client' = [a \in Aliases |-> IF client[a] = ch THEN NoChannel ELSE client[a]]

-----------------------------------------------------------------------------
(* Joining *)

AliasFree(ch, a) == client[a] \in {NoChannel, ch}

\* The first member of a channel becomes its admin without approval.
JoinEmpty(ch, a) ==
    /\ AliasFree(ch, a)
    /\ Members(ch) = {}
    /\ role' = Admitted(ch, a, "admin")
    /\ tokens' = tokens \cup {<<ch, a>>}
    /\ quiet' = QuietAfterAdmission(ch, a)
    /\ UNCHANGED <<request, client, calls>>

\* The only member of a channel gets a token again; nothing is refreshed.
JoinSole(ch, a) ==
    /\ AliasFree(ch, a)
    /\ Members(ch) = {a}
    /\ tokens' = tokens \cup {<<ch, a>>}
    /\ UNCHANGED <<role, request, client, quiet, calls>>

\* Mutant: the request does not store for whom it is.
JoinAnonymous(ch, a, r) ==
    /\ AliasFree(ch, a)
    /\ Members(ch) \notin {{}, {a}}
    /\ request[r].status = "unused"
    /\ request' = [request EXCEPT ![r] =
                        [status |-> "pending", channel |-> ch, alias |-> Unbound]]
    /\ quiet' = quiet \ {ch}
    /\ UNCHANGED <<role, tokens, client, calls>>

\* Everybody else waits for a member's decision.
JoinPending(ch, a, r) ==
    /\ AliasFree(ch, a)
    /\ Members(ch) \notin {{}, {a}}
    /\ request[r].status = "unused"
    /\ request' = [request EXCEPT ![r] =
                        [status |-> "pending", channel |-> ch, alias |-> a]]
    /\ quiet' = quiet \ {ch}
    /\ UNCHANGED <<role, tokens, client, calls>>

\* Every join makes one more request, whoever asks and however many wait.  One
\* beyond `Requests` is never decided, but it is activity of the channel.
JoinAgain(ch, a) ==
    /\ AliasFree(ch, a)
    /\ Members(ch) \notin {{}, {a}}
    /\ quiet' = quiet \ {ch}
    /\ UNCHANGED <<role, request, tokens, client, calls>>

\* An approved request mints a token for every poll with its claim secret.
Poll(r) ==
    LET ch == request[r].channel
        a  == request[r].alias
    IN /\ request[r].status = "approved"
       /\ role[ch][a] # "none" \/ "late_poll" \in Races
       /\ tokens' = tokens \cup {<<ch, a>>}
       /\ UNCHANGED <<role, request, client, quiet, calls>>

-----------------------------------------------------------------------------
(* Calls with a token *)

Authenticate(ch, p) ==
    /\ <<ch, p>> \in tokens
    /\ <<ch, p>> \notin calls
    /\ Cardinality(calls) < MaxCalls
    /\ calls' = calls \cup {<<ch, p>>}
    /\ UNCHANGED <<role, request, tokens, client, quiet>>

\* The handler raises (403, 404, 409), or it only reads.
Refuse(ch, p) ==
    /\ <<ch, p>> \in calls
    /\ calls' = calls \ {<<ch, p>>}
    /\ UNCHANGED <<role, request, tokens, client, quiet>>

Handle(ch, p) == <<ch, p>> \in calls /\ calls' = calls \ {<<ch, p>>}

\* Mutants: what was approved can be approved or rejected again.
ApproveAgain(ch, p, r) ==
    /\ Handle(ch, p)
    /\ request[r].channel = ch /\ request[r].status \in {"pending", "approved"}
    /\ request' = [request EXCEPT ![r].status = "approved"]
    /\ role' = Admitted(ch, request[r].alias, "member")
    /\ quiet' = QuietAfterAdmission(ch, request[r].alias)
    /\ UNCHANGED <<tokens, client>>
RejectAny(ch, p, r) ==
    /\ Handle(ch, p)
    /\ request[r].channel = ch /\ request[r].status \in Kept
    /\ request' = [request EXCEPT ![r].status = "rejected"]
    /\ UNCHANGED <<role, tokens, client, quiet>>

\* Any member's token decides, an unbound one too; only a pending request is.
Approve(ch, p, r) ==
    /\ Handle(ch, p)
    /\ request[r].channel = ch /\ request[r].status = "pending"
    /\ request' = [request EXCEPT ![r].status = "approved"]
    /\ role' = Admitted(ch, request[r].alias, "member")
    /\ quiet' = QuietAfterAdmission(ch, request[r].alias)
    /\ UNCHANGED <<tokens, client>>

Reject(ch, p, r) ==
    /\ Handle(ch, p)
    /\ request[r].channel = ch /\ request[r].status = "pending"
    /\ request' = [request EXCEPT ![r].status = "rejected"]
    /\ UNCHANGED <<role, tokens, client, quiet>>

Renew(ch, a) ==
    /\ Handle(ch, a)
    /\ role[ch][a] # "none"
    /\ tokens' = tokens \cup {<<ch, a>>}
    /\ UNCHANGED <<role, request, client, quiet>>

\* Mutant: the only admin may go while others stay.
LeaveUnchecked(ch, a) ==
    /\ Handle(ch, a)
    /\ role[ch][a] # "none"
    /\ IF Members(ch) = {a}
       THEN DeleteChannel(ch)
       ELSE /\ role' = [role EXCEPT ![ch][a] = "none"]
            /\ tokens' = EvictedTokens(ch, a)
            /\ client' = EvictedClients(ch, a)
            /\ UNCHANGED request
    /\ UNCHANGED quiet

\* The last member takes the channel along; an only admin must stay.
Leave(ch, a) ==
    /\ Handle(ch, a)
    /\ role[ch][a] # "none"
    /\ Members(ch) = {a} \/ Admins(ch) # {a}
    /\ IF Members(ch) = {a}
       THEN DeleteChannel(ch)
       ELSE /\ role' = [role EXCEPT ![ch][a] = "none"]
            /\ tokens' = EvictedTokens(ch, a)
            /\ client' = EvictedClients(ch, a)
            /\ UNCHANGED request
    /\ UNCHANGED quiet

Remove(ch, actor, target) ==
    /\ Handle(ch, actor)
    /\ role[ch][actor] = "admin"
    /\ actor # target
    /\ role[ch][target] # "none"
    /\ role' = [role EXCEPT ![ch][target] = "none"]
    /\ tokens' = EvictedTokens(ch, target)
    /\ client' = EvictedClients(ch, target)
    /\ UNCHANGED <<request, quiet>>

SetRole(ch, actor, target, r) ==
    /\ Handle(ch, actor)
    /\ role[ch][actor] = "admin"
    /\ role[ch][target] # "none"
    /\ ~(r = "member" /\ actor = target /\ Admins(ch) = {actor})
    /\ role' = [role EXCEPT ![ch][target] = r]
    /\ UNCHANGED <<request, tokens, client, quiet>>

\* A machine opens its stream or posts events under its client id.  The hub
\* compares the channels of the token and of the row, not the token's alias with
\* the client id: a client that adopts the credentials of a join under another
\* alias keeps the id it was started with (client/main.py:86-90).
Register(ch, p, a) ==
    /\ Handle(ch, p)
    /\ AliasFree(ch, a)
    /\ <<ch, p>> \in tokens \/ "late_register" \in Races
    /\ client' = [client EXCEPT ![a] = ch]
    /\ quiet' = quiet \ {ch}
    /\ UNCHANGED <<role, request, tokens>>

-----------------------------------------------------------------------------
(* Time *)

\* The last token of a principal runs out.
Expire(ch, p) ==
    /\ <<ch, p>> \in tokens
    /\ tokens' = tokens \ {<<ch, p>>}
    /\ UNCHANGED <<role, request, client, quiet, calls>>

\* Members, client rows and join requests of the channel are all old.
BecomeQuiet(ch) ==
    /\ ch \notin quiet
    /\ quiet' = quiet \cup {ch}
    /\ UNCHANGED <<role, request, tokens, client, calls>>

\* Mutant: the cleanup drops the rows of the channel but not its members.
PruneKeepsMembers(ch) ==
    /\ Members(ch) # {}
    /\ ch \in quiet
    /\ tokens' = {t \in tokens : t[1] # ch}
    /\ client' = [a \in Aliases |-> IF client[a] = ch THEN NoChannel ELSE client[a]]
    /\ UNCHANGED <<role, request, quiet, calls>>

\* cleanup_empty_channels goes through the channels that have members.
Prune(ch) ==
    /\ Members(ch) # {}
    /\ ch \in quiet
    /\ DeleteChannel(ch)
    /\ UNCHANGED <<quiet, calls>>

-----------------------------------------------------------------------------
NoMembers == [a \in Aliases |-> "none"]

\* Opening an old database makes the first member of a channel its admin.
Migrated(first) ==
    [a \in Aliases |-> IF a = first THEN "admin"
                       ELSE IF a \in Legacy THEN "member" ELSE "none"]

Init ==
    /\ request = [r \in Requests |->
                    [status |-> "unused", channel |-> NoChannel, alias |-> Unbound]]
    /\ calls = {}
    /\ quiet = {}
    /\ \/ /\ role = [ch \in Channels |-> NoMembers]
          /\ tokens = {}
          /\ client = [a \in Aliases |-> NoChannel]
       \/ \E old \in Channels, first \in Legacy :
          /\ role = [ch \in Channels |-> IF ch = old THEN Migrated(first) ELSE NoMembers]
          /\ tokens = {<<old, Unbound>>}
          /\ client = [a \in Aliases |-> IF a \in Legacy THEN old ELSE NoChannel]

Next ==
    \/ \E r \in Requests : Poll(r)
    \/ \E ch \in Channels :
        \/ \E a \in Aliases :
            \/ JoinEmpty(ch, a)
            \/ JoinSole(ch, a)
            \/ \E r \in Requests : JoinPending(ch, a, r)
            \/ JoinAgain(ch, a)
            \/ Renew(ch, a)
            \/ Leave(ch, a)
            \/ \E b \in Aliases :
                \/ Remove(ch, a, b)
                \/ \E r \in {"member", "admin"} : SetRole(ch, a, b, r)
        \/ \E p \in Principals :
            \/ Authenticate(ch, p)
            \/ Refuse(ch, p)
            \/ Expire(ch, p)
            \/ \E r \in Requests : Approve(ch, p, r) \/ Reject(ch, p, r)
            \/ \E a \in Aliases : Register(ch, p, a)
        \/ BecomeQuiet(ch)
        \/ Prune(ch)

Spec == Init /\ [][Next]_vars

\* Time passes, and the cleanup loop of app.py runs every minute.
FairSpec == Spec /\ \A ch \in Channels : WF_vars(BecomeQuiet(ch)) /\ WF_vars(Prune(ch))

-----------------------------------------------------------------------------
(* Properties *)

\* Type invariant: every row names a channel and an alias of the hub, and an
\* unused request names neither.
TypeOK ==
    /\ role \in [Channels -> [Aliases -> Roles]]
    /\ request \in [Requests -> [status : Statuses, channel : Channels \cup {NoChannel},
                                 alias : Principals]]
    /\ \A r \in Requests : request[r].status # "unused" =>
            request[r].channel \in Channels /\ request[r].alias \in Aliases
    /\ tokens \subseteq Channels \X Principals
    /\ client \in [Aliases -> Channels \cup {NoChannel}]
    /\ quiet \subseteq Channels
    /\ calls \subseteq Channels \X Principals

\* A channel with members has an admin, whatever leaves, removals, demotions
\* and late decisions are interleaved: leave_channel and set_member_role
\* refuse the only admin, and remove_member needs another one.
ChannelHasAdmin == \A ch \in Channels : Members(ch) # {} => Admins(ch) # {}

\* Whoever holds a working token is a member or has an approved request that
\* still mints one; an unbound token works only while everybody who may hold
\* it is a member (_evict_member_locked revokes all of them).
TokensExplained ==
    \A ch \in Channels :
        /\ \A a \in Aliases : <<ch, a>> \in tokens =>
                \/ a \in Members(ch)
                \/ \E r \in Requests : request[r] =
                        [status |-> "approved", channel |-> ch, alias |-> a]
        /\ <<ch, Unbound>> \in tokens => Legacy \subseteq Members(ch)

\* A channel without members has no token that works and no request to decide
\* or collect, so whoever joins its name next starts afresh (README.md:279).
ChannelLeavesNothing ==
    \A ch \in Channels : Members(ch) = {} =>
        /\ \A t \in tokens : t[1] # ch
        /\ \A r \in Requests : request[r].channel = ch => request[r].status \notin Kept

\* A client row is in a channel with members: one left in an empty channel
\* would keep its client id from every other channel (AliasInUseError), and no
\* removal or cleanup would ever meet it, as both start from members.  True while
\* a token lives from its check to the row ("late_register" \notin Races).
RowsHaveMembers ==
    \A a \in Aliases : client[a] # NoChannel => Members(client[a]) # {}

\* Two members that decide a request at once never undo each other: it stays
\* approved or rejected until its channel is deleted.
DecisionIsFinal ==
    [][\A r \in Requests : request[r].status \in {"approved", "rejected", "deleted"} =>
            request'[r] \in {request[r], [request[r] EXCEPT !.status = "deleted"]}]_vars

\* A stranger becomes a member only of an empty channel or at the moment a
\* pending request of his is approved: a repeated approval admits nobody again.
ApprovalAdmitsOnce ==
    [][\A ch \in Channels, a \in Aliases :
        a \notin Members(ch) /\ a \in Members(ch)' =>
            \/ Members(ch) = {}
            \/ \E r \in Requests : /\ request[r] = [status |-> "pending", channel |-> ch, alias |-> a]
                                  /\ request'[r].status = "approved"]_vars

Asks(ch) == \E a \in Aliases : JoinAgain(ch, a) \/ \E r \in Requests : JoinPending(ch, a, r)

\* A channel whose tokens have all died is not stuck behind an approval nobody
\* can give: a token is collected again or the channel is pruned, if people stop
\* asking to join it.  The cleanup counts every request as activity, also one
\* that nobody can decide (store.py:1364-1369), so requests that come in for ever
\* keep a dead channel for ever.
ChannelRecovers ==
    \A ch \in Channels :
        <>[][~Asks(ch)]_vars =>
            ((Members(ch) # {} /\ \A t \in tokens : t[1] # ch)
                ~> (Members(ch) = {} \/ \E t \in tokens : t[1] = ch))
=============================================================================
