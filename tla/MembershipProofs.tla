--------------------------- MODULE MembershipProofs ---------------------------
(***************************************************************************)
(* Proofs about Membership, for every set of channels, aliases and         *)
(* requests, whatever an old hub left behind, and under both races except  *)
(* where a theorem says otherwise.                                         *)
(***************************************************************************)
EXTENDS Membership, TLAPS

-----------------------------------------------------------------------------
(* Type correctness *)

\* The initial state has the right types.
LEMMA TypeInit == Init => TypeOK
  BY LegacyAssumption DEF Init, TypeOK, NoMembers, Migrated, Roles, Statuses, Principals

\* Deleting a channel keeps the types of the tables.
LEMMA DeletionTypes ==
  ASSUME TypeOK, NEW ch \in Channels, DeleteChannel(ch), quiet' = quiet, calls' \subseteq calls
  PROVE  TypeOK'
<1>1. role' \in [Channels -> [Aliases -> Roles]]
  BY DEF DeleteChannel, TypeOK, Roles
<1>2. /\ request' \in [Requests -> [status : Statuses, channel : Channels \cup {NoChannel},
                                    alias : Principals]]
      /\ \A r \in Requests : request'[r].status # "unused" =>
            request'[r].channel \in Channels /\ request'[r].alias \in Aliases
  BY DEF DeleteChannel, TypeOK, Statuses, Kept
<1>3. tokens' \subseteq Channels \X Principals  BY DEF DeleteChannel, TypeOK
<1>4. client' \in [Aliases -> Channels \cup {NoChannel}]  BY DEF DeleteChannel, TypeOK
<1>5. QED  BY <1>1, <1>2, <1>3, <1>4 DEF TypeOK

\* Every step keeps the types.
LEMMA TypeStep ==
  ASSUME TypeOK, [Next]_vars
  PROVE  TypeOK'
<1>1. ASSUME NEW r \in Requests, Poll(r)
      PROVE  TypeOK'
  BY <1>1 DEF Poll, TypeOK, Roles, Statuses, Kept, Principals
<1>2. ASSUME NEW ch \in Channels, NEW a \in Aliases, JoinEmpty(ch, a)
      PROVE  TypeOK'
  BY <1>2 DEF JoinEmpty, AliasFree, Admitted, QuietAfterAdmission, TypeOK, Roles, Statuses,
     Kept, Principals
<1>3. ASSUME NEW ch \in Channels, NEW a \in Aliases, JoinSole(ch, a)
      PROVE  TypeOK'
  BY <1>3 DEF JoinSole, AliasFree, TypeOK, Roles, Statuses, Kept, Principals
<1>4. ASSUME NEW ch \in Channels, NEW a \in Aliases, NEW r \in Requests, JoinPending(ch, a, r)
      PROVE  TypeOK'
  BY <1>4 DEF JoinPending, AliasFree, TypeOK, Roles, Statuses, Kept, Principals
<1>5. ASSUME NEW ch \in Channels, NEW a \in Aliases, JoinAgain(ch, a)
      PROVE  TypeOK'
  BY <1>5 DEF JoinAgain, AliasFree, TypeOK, Roles, Statuses, Kept, Principals
<1>6. ASSUME NEW ch \in Channels, NEW a \in Aliases, Renew(ch, a)
      PROVE  TypeOK'
  BY <1>6 DEF Renew, Handle, TypeOK, Roles, Statuses, Kept, Principals
<1>7. ASSUME NEW ch \in Channels, NEW a \in Aliases, Leave(ch, a)
      PROVE  TypeOK'
  <2>1. CASE Members(ch) = {a}
    BY <1>7, <2>1, DeletionTypes DEF Leave, Handle, TypeOK
  <2>2. CASE Members(ch) # {a}
    <3>1. /\ role' = [role EXCEPT ![ch][a] = "none"]
          /\ tokens' = EvictedTokens(ch, a) /\ client' = EvictedClients(ch, a)
          /\ UNCHANGED <<request, quiet>> /\ calls' = calls \ {<<ch, a>>}
      BY <1>7, <2>2 DEF Leave, Handle
    <3>2. QED  BY <3>1 DEF EvictedTokens, EvictedClients, TypeOK, Roles, Principals
  <2>3. QED  BY <2>1, <2>2
<1>8. ASSUME NEW ch \in Channels, NEW a \in Aliases, NEW b \in Aliases, Remove(ch, a, b)
      PROVE  TypeOK'
  BY <1>8 DEF Remove, Handle, EvictedTokens, EvictedClients, TypeOK, Roles, Statuses, Kept,
     Principals
<1>9. ASSUME NEW ch \in Channels, NEW a \in Aliases, NEW b \in Aliases,
             NEW x \in {"member", "admin"}, SetRole(ch, a, b, x)
      PROVE  TypeOK'
  BY <1>9 DEF SetRole, Handle, TypeOK, Roles, Statuses, Kept, Principals
<1>10. ASSUME NEW ch \in Channels, NEW p \in Principals, Authenticate(ch, p)
      PROVE  TypeOK'
  BY <1>10 DEF Authenticate, TypeOK, Roles, Statuses, Kept, Principals
<1>11. ASSUME NEW ch \in Channels, NEW p \in Principals, Refuse(ch, p)
      PROVE  TypeOK'
  BY <1>11 DEF Refuse, TypeOK, Roles, Statuses, Kept, Principals
<1>12. ASSUME NEW ch \in Channels, NEW p \in Principals, Expire(ch, p)
      PROVE  TypeOK'
  BY <1>12 DEF Expire, TypeOK, Roles, Statuses, Kept, Principals
<1>13. ASSUME NEW ch \in Channels, NEW p \in Principals, NEW r \in Requests, Approve(ch, p, r)
      PROVE  TypeOK'
  BY <1>13 DEF Approve, Handle, Admitted, QuietAfterAdmission, TypeOK, Roles, Statuses, Kept,
     Principals
<1>14. ASSUME NEW ch \in Channels, NEW p \in Principals, NEW r \in Requests, Reject(ch, p, r)
      PROVE  TypeOK'
  BY <1>14 DEF Reject, Handle, TypeOK, Roles, Statuses, Kept, Principals
<1>15. ASSUME NEW ch \in Channels, NEW p \in Principals, NEW a \in Aliases, Register(ch, p, a)
      PROVE  TypeOK'
  BY <1>15 DEF Register, Handle, TypeOK, Roles, Statuses, Kept, Principals
<1>16. ASSUME NEW ch \in Channels, BecomeQuiet(ch)
      PROVE  TypeOK'
  BY <1>16 DEF BecomeQuiet, TypeOK, Roles, Statuses, Kept, Principals
<1>17. ASSUME NEW ch \in Channels, Prune(ch)
      PROVE  TypeOK'
  BY <1>17, DeletionTypes DEF Prune, TypeOK
<1>18. CASE UNCHANGED vars
  BY <1>18 DEF vars, TypeOK, Roles, Statuses, Kept, Principals
<1>19. QED  BY <1>1, <1>2, <1>3, <1>4, <1>5, <1>6, <1>7, <1>8, <1>9, <1>10, <1>11, <1>12, <1>13, <1>14,
   <1>15, <1>16, <1>17, <1>18 DEF Next

\* Every reachable row names a channel and an alias of the hub.
THEOREM TypeCorrect == Spec => []TypeOK
<1>1. Init => TypeOK  BY TypeInit
<1>2. TypeOK /\ [Next]_vars => TypeOK'  BY TypeStep
<1>3. QED  BY <1>1, <1>2, PTL DEF Spec

-----------------------------------------------------------------------------
(* Channels and their members.  ChannelHasAdmin is not inductive: approving *)
(* a request admits a plain member, so a channel with a request to decide   *)
(* must have an admin already.  Requests outlive no channel.                *)

RequestsHaveMembers ==
    \A r \in Requests : request[r].status \in Kept => Members(request[r].channel) # {}

\* No step leaves a request behind in a channel without members.
LEMMA RequestStep ==
  ASSUME TypeOK, RequestsHaveMembers, [Next]_vars
  PROVE  RequestsHaveMembers'
<1>1. ASSUME NEW r \in Requests, Poll(r)
      PROVE  RequestsHaveMembers'
  BY <1>1 DEF Poll, TypeOK, RequestsHaveMembers, Members, Kept, Roles, Statuses
<1>2. ASSUME NEW ch \in Channels, NEW a \in Aliases, JoinEmpty(ch, a)
      PROVE  RequestsHaveMembers'
  BY <1>2 DEF JoinEmpty, AliasFree, Admitted, QuietAfterAdmission, TypeOK, RequestsHaveMembers,
     Members, Kept, Roles, Statuses
<1>3. ASSUME NEW ch \in Channels, NEW a \in Aliases, JoinSole(ch, a)
      PROVE  RequestsHaveMembers'
  BY <1>3 DEF JoinSole, AliasFree, TypeOK, RequestsHaveMembers, Members, Kept, Roles, Statuses
<1>4. ASSUME NEW ch \in Channels, NEW a \in Aliases, NEW r \in Requests, JoinPending(ch, a, r)
      PROVE  RequestsHaveMembers'
  BY <1>4 DEF JoinPending, AliasFree, TypeOK, RequestsHaveMembers, Members, Kept, Roles, Statuses
<1>5. ASSUME NEW ch \in Channels, NEW a \in Aliases, JoinAgain(ch, a)
      PROVE  RequestsHaveMembers'
  BY <1>5 DEF JoinAgain, AliasFree, TypeOK, RequestsHaveMembers, Members, Kept, Roles, Statuses
<1>6. ASSUME NEW ch \in Channels, NEW a \in Aliases, Renew(ch, a)
      PROVE  RequestsHaveMembers'
  BY <1>6 DEF Renew, Handle, TypeOK, RequestsHaveMembers, Members, Kept, Roles, Statuses
<1>7. ASSUME NEW ch \in Channels, NEW a \in Aliases, Leave(ch, a)
      PROVE  RequestsHaveMembers'
  BY <1>7 DEF Leave, Handle, DeleteChannel, EvictedTokens, EvictedClients, TypeOK,
     RequestsHaveMembers, Members, Kept, Roles, Statuses
<1>8. ASSUME NEW ch \in Channels, NEW a \in Aliases, NEW b \in Aliases, Remove(ch, a, b)
      PROVE  RequestsHaveMembers'
  BY <1>8 DEF Remove, Handle, EvictedTokens, EvictedClients, TypeOK, RequestsHaveMembers,
     Members, Kept, Roles, Statuses
<1>9. ASSUME NEW ch \in Channels, NEW a \in Aliases, NEW b \in Aliases,
             NEW x \in {"member", "admin"}, SetRole(ch, a, b, x)
      PROVE  RequestsHaveMembers'
  BY <1>9 DEF SetRole, Handle, TypeOK, RequestsHaveMembers, Members, Kept, Roles, Statuses
<1>10. ASSUME NEW ch \in Channels, NEW p \in Principals, Authenticate(ch, p)
      PROVE  RequestsHaveMembers'
  BY <1>10 DEF Authenticate, TypeOK, RequestsHaveMembers, Members, Kept, Roles, Statuses
<1>11. ASSUME NEW ch \in Channels, NEW p \in Principals, Refuse(ch, p)
      PROVE  RequestsHaveMembers'
  BY <1>11 DEF Refuse, TypeOK, RequestsHaveMembers, Members, Kept, Roles, Statuses
<1>12. ASSUME NEW ch \in Channels, NEW p \in Principals, Expire(ch, p)
      PROVE  RequestsHaveMembers'
  BY <1>12 DEF Expire, TypeOK, RequestsHaveMembers, Members, Kept, Roles, Statuses
<1>13. ASSUME NEW ch \in Channels, NEW p \in Principals, NEW r \in Requests, Approve(ch, p, r)
      PROVE  RequestsHaveMembers'
  BY <1>13 DEF Approve, Handle, Admitted, QuietAfterAdmission, TypeOK, RequestsHaveMembers,
     Members, Kept, Roles, Statuses
<1>14. ASSUME NEW ch \in Channels, NEW p \in Principals, NEW r \in Requests, Reject(ch, p, r)
      PROVE  RequestsHaveMembers'
  BY <1>14 DEF Reject, Handle, TypeOK, RequestsHaveMembers, Members, Kept, Roles, Statuses
<1>15. ASSUME NEW ch \in Channels, NEW p \in Principals, NEW a \in Aliases, Register(ch, p, a)
      PROVE  RequestsHaveMembers'
  BY <1>15 DEF Register, Handle, TypeOK, RequestsHaveMembers, Members, Kept, Roles, Statuses
<1>16. ASSUME NEW ch \in Channels, BecomeQuiet(ch)
      PROVE  RequestsHaveMembers'
  BY <1>16 DEF BecomeQuiet, TypeOK, RequestsHaveMembers, Members, Kept, Roles, Statuses
<1>17. ASSUME NEW ch \in Channels, Prune(ch)
      PROVE  RequestsHaveMembers'
  BY <1>17 DEF Prune, DeleteChannel, TypeOK, RequestsHaveMembers, Members, Kept, Roles, Statuses
<1>18. CASE UNCHANGED vars
  BY <1>18 DEF vars, TypeOK, RequestsHaveMembers, Members, Kept, Roles, Statuses
<1>19. QED  BY <1>1, <1>2, <1>3, <1>4, <1>5, <1>6, <1>7, <1>8, <1>9, <1>10, <1>11, <1>12, <1>13, <1>14,
   <1>15, <1>16, <1>17, <1>18 DEF Next

\* No step leaves members without an admin.
LEMMA AdminStep ==
  ASSUME TypeOK, RequestsHaveMembers, ChannelHasAdmin, [Next]_vars
  PROVE  ChannelHasAdmin'
<1>1. ASSUME NEW r \in Requests, Poll(r)
      PROVE  ChannelHasAdmin'
  BY <1>1 DEF Poll, TypeOK, ChannelHasAdmin, Members, Admins, Roles
<1>2. ASSUME NEW ch \in Channels, NEW a \in Aliases, JoinEmpty(ch, a)
      PROVE  ChannelHasAdmin'
  BY <1>2 DEF JoinEmpty, AliasFree, Admitted, QuietAfterAdmission, TypeOK, ChannelHasAdmin,
     Members, Admins, Roles
<1>3. ASSUME NEW ch \in Channels, NEW a \in Aliases, JoinSole(ch, a)
      PROVE  ChannelHasAdmin'
  BY <1>3 DEF JoinSole, AliasFree, TypeOK, ChannelHasAdmin, Members, Admins, Roles
<1>4. ASSUME NEW ch \in Channels, NEW a \in Aliases, NEW r \in Requests, JoinPending(ch, a, r)
      PROVE  ChannelHasAdmin'
  BY <1>4 DEF JoinPending, AliasFree, TypeOK, ChannelHasAdmin, Members, Admins, Roles
<1>5. ASSUME NEW ch \in Channels, NEW a \in Aliases, JoinAgain(ch, a)
      PROVE  ChannelHasAdmin'
  BY <1>5 DEF JoinAgain, AliasFree, TypeOK, ChannelHasAdmin, Members, Admins, Roles
<1>6. ASSUME NEW ch \in Channels, NEW a \in Aliases, Renew(ch, a)
      PROVE  ChannelHasAdmin'
  BY <1>6 DEF Renew, Handle, TypeOK, ChannelHasAdmin, Members, Admins, Roles
<1>7. ASSUME NEW ch \in Channels, NEW a \in Aliases, Leave(ch, a)
      PROVE  ChannelHasAdmin'
  BY <1>7 DEF Leave, Handle, DeleteChannel, EvictedTokens, EvictedClients, TypeOK,
     ChannelHasAdmin, Members, Admins, Roles
<1>8. ASSUME NEW ch \in Channels, NEW a \in Aliases, NEW b \in Aliases, Remove(ch, a, b)
      PROVE  ChannelHasAdmin'
  BY <1>8 DEF Remove, Handle, EvictedTokens, EvictedClients, TypeOK, ChannelHasAdmin, Members,
     Admins, Roles
<1>9. ASSUME NEW ch \in Channels, NEW a \in Aliases, NEW b \in Aliases,
             NEW x \in {"member", "admin"}, SetRole(ch, a, b, x)
      PROVE  ChannelHasAdmin'
  BY <1>9 DEF SetRole, Handle, TypeOK, ChannelHasAdmin, Members, Admins, Roles
<1>10. ASSUME NEW ch \in Channels, NEW p \in Principals, Authenticate(ch, p)
      PROVE  ChannelHasAdmin'
  BY <1>10 DEF Authenticate, TypeOK, ChannelHasAdmin, Members, Admins, Roles
<1>11. ASSUME NEW ch \in Channels, NEW p \in Principals, Refuse(ch, p)
      PROVE  ChannelHasAdmin'
  BY <1>11 DEF Refuse, TypeOK, ChannelHasAdmin, Members, Admins, Roles
<1>12. ASSUME NEW ch \in Channels, NEW p \in Principals, Expire(ch, p)
      PROVE  ChannelHasAdmin'
  BY <1>12 DEF Expire, TypeOK, ChannelHasAdmin, Members, Admins, Roles
<1>13. ASSUME NEW ch \in Channels, NEW p \in Principals, NEW r \in Requests, Approve(ch, p, r)
      PROVE  ChannelHasAdmin'
  BY <1>13 DEF Approve, Admitted, TypeOK, RequestsHaveMembers, ChannelHasAdmin, Members, Admins,
     Roles, Kept
<1>14. ASSUME NEW ch \in Channels, NEW p \in Principals, NEW r \in Requests, Reject(ch, p, r)
      PROVE  ChannelHasAdmin'
  BY <1>14 DEF Reject, Handle, TypeOK, ChannelHasAdmin, Members, Admins, Roles
<1>15. ASSUME NEW ch \in Channels, NEW p \in Principals, NEW a \in Aliases, Register(ch, p, a)
      PROVE  ChannelHasAdmin'
  BY <1>15 DEF Register, Handle, TypeOK, ChannelHasAdmin, Members, Admins, Roles
<1>16. ASSUME NEW ch \in Channels, BecomeQuiet(ch)
      PROVE  ChannelHasAdmin'
  BY <1>16 DEF BecomeQuiet, TypeOK, ChannelHasAdmin, Members, Admins, Roles
<1>17. ASSUME NEW ch \in Channels, Prune(ch)
      PROVE  ChannelHasAdmin'
  BY <1>17 DEF Prune, DeleteChannel, TypeOK, ChannelHasAdmin, Members, Admins, Roles
<1>18. CASE UNCHANGED vars
  BY <1>18 DEF vars, TypeOK, ChannelHasAdmin, Members, Admins, Roles
<1>19. QED  BY <1>1, <1>2, <1>3, <1>4, <1>5, <1>6, <1>7, <1>8, <1>9, <1>10, <1>11, <1>12, <1>13, <1>14,
   <1>15, <1>16, <1>17, <1>18 DEF Next

\* The initial channels, fresh or migrated, have an admin and no requests.
LEMMA ChannelInit == Init => RequestsHaveMembers /\ ChannelHasAdmin
<1> SUFFICES ASSUME Init PROVE RequestsHaveMembers /\ ChannelHasAdmin  OBVIOUS
<1>1. RequestsHaveMembers  BY DEF Init, RequestsHaveMembers, Kept
<1>2. CASE role = [ch \in Channels |-> NoMembers]
  BY <1>1, <1>2 DEF ChannelHasAdmin, Members, Admins, NoMembers
<1>3. ASSUME NEW old \in Channels, NEW first \in Legacy,
             role = [ch \in Channels |-> IF ch = old THEN Migrated(first) ELSE NoMembers]
      PROVE  ChannelHasAdmin
  <2>1. first \in Admins(old)
    BY <1>3, LegacyAssumption DEF Admins, Migrated
  <2>2. \A ch \in Channels : ch # old => Members(ch) = {}
    BY <1>3 DEF Members, NoMembers
  <2>3. QED  BY <2>1, <2>2 DEF ChannelHasAdmin
<1>4. QED  BY <1>1, <1>2, <1>3 DEF Init

\* Requests are in channels with members, and these have an admin.
THEOREM AdminAlways == Spec => [](RequestsHaveMembers /\ ChannelHasAdmin)
<1>1. TypeOK /\ RequestsHaveMembers /\ ChannelHasAdmin /\ [Next]_vars
        => RequestsHaveMembers' /\ ChannelHasAdmin'
  BY RequestStep, AdminStep
<1>2. QED  BY <1>1, ChannelInit, TypeCorrect, PTL DEF Spec

-----------------------------------------------------------------------------
(* Tokens *)

\* Every token that a step leaves working is explained.
LEMMA TokenStep ==
  ASSUME TypeOK, TokensExplained, [Next]_vars
  PROVE  TokensExplained'
<1>1. ASSUME NEW r \in Requests, Poll(r)
      PROVE  TokensExplained'
  BY <1>1, UnboundAssumption DEF Poll, TypeOK, TokensExplained, Members, Principals
<1>2. ASSUME NEW ch \in Channels, NEW a \in Aliases, JoinEmpty(ch, a)
      PROVE  TokensExplained'
  BY <1>2, UnboundAssumption DEF JoinEmpty, AliasFree, Admitted, QuietAfterAdmission, TypeOK,
     TokensExplained, Members, Principals
<1>3. ASSUME NEW ch \in Channels, NEW a \in Aliases, JoinSole(ch, a)
      PROVE  TokensExplained'
  BY <1>3, UnboundAssumption DEF JoinSole, AliasFree, TypeOK, TokensExplained, Members, Principals
<1>4. ASSUME NEW ch \in Channels, NEW a \in Aliases, NEW r \in Requests, JoinPending(ch, a, r)
      PROVE  TokensExplained'
  BY <1>4 DEF JoinPending, AliasFree, TypeOK, TokensExplained, Members, Kept, Principals
<1>5. ASSUME NEW ch \in Channels, NEW a \in Aliases, JoinAgain(ch, a)
      PROVE  TokensExplained'
  BY <1>5 DEF JoinAgain, AliasFree, TypeOK, TokensExplained, Members, Principals
<1>6. ASSUME NEW ch \in Channels, NEW a \in Aliases, Renew(ch, a)
      PROVE  TokensExplained'
  BY <1>6, UnboundAssumption DEF Renew, Handle, TypeOK, TokensExplained, Members, Principals
<1>7. ASSUME NEW ch \in Channels, NEW a \in Aliases, Leave(ch, a)
      PROVE  TokensExplained'
  BY <1>7 DEF Leave, Handle, DeleteChannel, EvictedTokens, EvictedClients, TypeOK,
     TokensExplained, Members, Kept, Principals
<1>8. ASSUME NEW ch \in Channels, NEW a \in Aliases, NEW b \in Aliases, Remove(ch, a, b)
      PROVE  TokensExplained'
  BY <1>8 DEF Remove, Handle, EvictedTokens, EvictedClients, TypeOK, TokensExplained, Members,
     Kept, Principals
<1>9. ASSUME NEW ch \in Channels, NEW a \in Aliases, NEW b \in Aliases,
             NEW x \in {"member", "admin"}, SetRole(ch, a, b, x)
      PROVE  TokensExplained'
  BY <1>9 DEF SetRole, Handle, TypeOK, TokensExplained, Members, Kept, Principals
<1>10. ASSUME NEW ch \in Channels, NEW p \in Principals, Authenticate(ch, p)
      PROVE  TokensExplained'
  BY <1>10 DEF Authenticate, TypeOK, TokensExplained, Members, Kept, Principals
<1>11. ASSUME NEW ch \in Channels, NEW p \in Principals, Refuse(ch, p)
      PROVE  TokensExplained'
  BY <1>11 DEF Refuse, TypeOK, TokensExplained, Members, Kept, Principals
<1>12. ASSUME NEW ch \in Channels, NEW p \in Principals, Expire(ch, p)
      PROVE  TokensExplained'
  BY <1>12 DEF Expire, TypeOK, TokensExplained, Members, Kept, Principals
<1>13. ASSUME NEW ch \in Channels, NEW p \in Principals, NEW r \in Requests, Approve(ch, p, r)
      PROVE  TokensExplained'
  BY <1>13 DEF Approve, Handle, Admitted, QuietAfterAdmission, TypeOK, TokensExplained, Members,
     Kept, Principals
<1>14. ASSUME NEW ch \in Channels, NEW p \in Principals, NEW r \in Requests, Reject(ch, p, r)
      PROVE  TokensExplained'
  BY <1>14 DEF Reject, Handle, TypeOK, TokensExplained, Members, Kept, Principals
<1>15. ASSUME NEW ch \in Channels, NEW p \in Principals, NEW a \in Aliases, Register(ch, p, a)
      PROVE  TokensExplained'
  BY <1>15 DEF Register, Handle, TypeOK, TokensExplained, Members, Kept, Principals
<1>16. ASSUME NEW ch \in Channels, BecomeQuiet(ch)
      PROVE  TokensExplained'
  BY <1>16 DEF BecomeQuiet, TypeOK, TokensExplained, Members, Kept, Principals
<1>17. ASSUME NEW ch \in Channels, Prune(ch)
      PROVE  TokensExplained'
  BY <1>17 DEF Prune, DeleteChannel, TypeOK, TokensExplained, Members, Kept, Principals
<1>18. CASE UNCHANGED vars
  BY <1>18 DEF vars, TypeOK, TokensExplained, Members, Kept, Principals
<1>19. QED  BY <1>1, <1>2, <1>3, <1>4, <1>5, <1>6, <1>7, <1>8, <1>9, <1>10, <1>11, <1>12, <1>13, <1>14,
   <1>15, <1>16, <1>17, <1>18 DEF Next

\* Whoever holds a working token is a member or was approved.
THEOREM TokensAlwaysExplained == Spec => []TokensExplained
<1>1. Init => TokensExplained
  BY LegacyAssumption, UnboundAssumption DEF Init, TokensExplained, Members, Migrated
<1>2. TypeOK /\ TokensExplained /\ [Next]_vars => TokensExplained'  BY TokenStep
<1>3. QED  BY <1>1, <1>2, TypeCorrect, PTL DEF Spec

NoUnboundMinted ==
    \A ch \in Channels : <<ch, Unbound>> \in tokens' => <<ch, Unbound>> \in tokens

\* No step mints a token without an alias.
LEMMA NoNewUnbound ==
  ASSUME TypeOK, [Next]_vars
  PROVE  NoUnboundMinted
<1>1. ASSUME NEW r \in Requests, Poll(r)
      PROVE  NoUnboundMinted
  BY <1>1, UnboundAssumption DEF Poll, TypeOK, NoUnboundMinted
<1>2. ASSUME NEW ch \in Channels, NEW a \in Aliases, JoinEmpty(ch, a)
      PROVE  NoUnboundMinted
  BY <1>2, UnboundAssumption DEF JoinEmpty, AliasFree, Admitted, QuietAfterAdmission, TypeOK,
     NoUnboundMinted
<1>3. ASSUME NEW ch \in Channels, NEW a \in Aliases, JoinSole(ch, a)
      PROVE  NoUnboundMinted
  BY <1>3, UnboundAssumption DEF JoinSole, AliasFree, TypeOK, NoUnboundMinted
<1>4. ASSUME NEW ch \in Channels, NEW a \in Aliases, NEW r \in Requests, JoinPending(ch, a, r)
      PROVE  NoUnboundMinted
  BY <1>4 DEF JoinPending, AliasFree, TypeOK, NoUnboundMinted
<1>5. ASSUME NEW ch \in Channels, NEW a \in Aliases, JoinAgain(ch, a)
      PROVE  NoUnboundMinted
  BY <1>5 DEF JoinAgain, AliasFree, TypeOK, NoUnboundMinted
<1>6. ASSUME NEW ch \in Channels, NEW a \in Aliases, Renew(ch, a)
      PROVE  NoUnboundMinted
  BY <1>6, UnboundAssumption DEF Renew, Handle, TypeOK, NoUnboundMinted
<1>7. ASSUME NEW ch \in Channels, NEW a \in Aliases, Leave(ch, a)
      PROVE  NoUnboundMinted
  BY <1>7 DEF Leave, Handle, DeleteChannel, EvictedTokens, EvictedClients, TypeOK, NoUnboundMinted
<1>8. ASSUME NEW ch \in Channels, NEW a \in Aliases, NEW b \in Aliases, Remove(ch, a, b)
      PROVE  NoUnboundMinted
  BY <1>8 DEF Remove, Handle, EvictedTokens, EvictedClients, TypeOK, NoUnboundMinted
<1>9. ASSUME NEW ch \in Channels, NEW a \in Aliases, NEW b \in Aliases,
             NEW x \in {"member", "admin"}, SetRole(ch, a, b, x)
      PROVE  NoUnboundMinted
  BY <1>9 DEF SetRole, Handle, TypeOK, NoUnboundMinted
<1>10. ASSUME NEW ch \in Channels, NEW p \in Principals, Authenticate(ch, p)
      PROVE  NoUnboundMinted
  BY <1>10 DEF Authenticate, TypeOK, NoUnboundMinted
<1>11. ASSUME NEW ch \in Channels, NEW p \in Principals, Refuse(ch, p)
      PROVE  NoUnboundMinted
  BY <1>11 DEF Refuse, TypeOK, NoUnboundMinted
<1>12. ASSUME NEW ch \in Channels, NEW p \in Principals, Expire(ch, p)
      PROVE  NoUnboundMinted
  BY <1>12 DEF Expire, TypeOK, NoUnboundMinted
<1>13. ASSUME NEW ch \in Channels, NEW p \in Principals, NEW r \in Requests, Approve(ch, p, r)
      PROVE  NoUnboundMinted
  BY <1>13 DEF Approve, Handle, Admitted, QuietAfterAdmission, TypeOK, NoUnboundMinted
<1>14. ASSUME NEW ch \in Channels, NEW p \in Principals, NEW r \in Requests, Reject(ch, p, r)
      PROVE  NoUnboundMinted
  BY <1>14 DEF Reject, Handle, TypeOK, NoUnboundMinted
<1>15. ASSUME NEW ch \in Channels, NEW p \in Principals, NEW a \in Aliases, Register(ch, p, a)
      PROVE  NoUnboundMinted
  BY <1>15 DEF Register, Handle, TypeOK, NoUnboundMinted
<1>16. ASSUME NEW ch \in Channels, BecomeQuiet(ch)
      PROVE  NoUnboundMinted
  BY <1>16 DEF BecomeQuiet, TypeOK, NoUnboundMinted
<1>17. ASSUME NEW ch \in Channels, Prune(ch)
      PROVE  NoUnboundMinted
  BY <1>17 DEF Prune, DeleteChannel, TypeOK, NoUnboundMinted
<1>18. CASE UNCHANGED vars
  BY <1>18 DEF vars, TypeOK, NoUnboundMinted
<1>19. QED  BY <1>1, <1>2, <1>3, <1>4, <1>5, <1>6, <1>7, <1>8, <1>9, <1>10, <1>11, <1>12, <1>13, <1>14,
   <1>15, <1>16, <1>17, <1>18 DEF Next

\* Unbound tokens come from an old hub only.
UnboundIsLegacy == \A ch \in Channels : <<ch, Unbound>> \in tokens => Legacy # {}

\* A channel without members has no tokens and no requests.
THEOREM NothingLeft == Spec => []ChannelLeavesNothing
<1>1. Init => UnboundIsLegacy  BY DEF Init, UnboundIsLegacy
<1>2. TypeOK /\ UnboundIsLegacy /\ [Next]_vars => UnboundIsLegacy'
  BY NoNewUnbound DEF NoUnboundMinted, UnboundIsLegacy
<1>3. TypeOK /\ TokensExplained /\ RequestsHaveMembers /\ UnboundIsLegacy => ChannelLeavesNothing
  <2> SUFFICES ASSUME TypeOK, TokensExplained, RequestsHaveMembers, UnboundIsLegacy,
                      NEW ch \in Channels, Members(ch) = {}
               PROVE  /\ \A t \in tokens : t[1] # ch
                      /\ \A r \in Requests : request[r].channel = ch => request[r].status \notin Kept
    BY DEF ChannelLeavesNothing
  <2>1. \A r \in Requests : request[r].channel = ch => request[r].status \notin Kept
    BY DEF RequestsHaveMembers
  <2>2. ASSUME NEW a \in Aliases, <<ch, a>> \in tokens PROVE FALSE
    <3>1. PICK r \in Requests : request[r] =
                [status |-> "approved", channel |-> ch, alias |-> a]
      BY <2>2 DEF TokensExplained
    <3>2. request[r].channel = ch /\ request[r].status = "approved"  BY <3>1
    <3>3. QED  BY <2>1, <3>2 DEF Kept
  <2>3. <<ch, Unbound>> \notin tokens
    BY DEF TokensExplained, UnboundIsLegacy
  <2>4. \A t \in tokens : t[1] # ch
    BY <2>2, <2>3 DEF TypeOK, Principals
  <2>5. QED  BY <2>1, <2>4
<1>4. QED
  BY <1>1, <1>2, <1>3, TypeCorrect, TokensAlwaysExplained, AdminAlways, PTL DEF Spec

-----------------------------------------------------------------------------
(* Decisions *)

DecisionKept ==
    \A r \in Requests : request[r].status \in {"approved", "rejected", "deleted"} =>
        request'[r] \in {request[r], [request[r] EXCEPT !.status = "deleted"]}

\* No step takes a decision back.
LEMMA DecisionStep ==
  ASSUME TypeOK, [Next]_vars
  PROVE  DecisionKept
<1>1. ASSUME NEW r \in Requests, Poll(r)
      PROVE  DecisionKept
  BY <1>1 DEF Poll, TypeOK, DecisionKept, Kept, Statuses
<1>2. ASSUME NEW ch \in Channels, NEW a \in Aliases, JoinEmpty(ch, a)
      PROVE  DecisionKept
  BY <1>2 DEF JoinEmpty, AliasFree, Admitted, QuietAfterAdmission, TypeOK, DecisionKept, Kept,
     Statuses
<1>3. ASSUME NEW ch \in Channels, NEW a \in Aliases, JoinSole(ch, a)
      PROVE  DecisionKept
  BY <1>3 DEF JoinSole, AliasFree, TypeOK, DecisionKept, Kept, Statuses
<1>4. ASSUME NEW ch \in Channels, NEW a \in Aliases, NEW r \in Requests, JoinPending(ch, a, r)
      PROVE  DecisionKept
  BY <1>4 DEF JoinPending, AliasFree, TypeOK, DecisionKept, Kept, Statuses
<1>5. ASSUME NEW ch \in Channels, NEW a \in Aliases, JoinAgain(ch, a)
      PROVE  DecisionKept
  BY <1>5 DEF JoinAgain, AliasFree, TypeOK, DecisionKept, Kept, Statuses
<1>6. ASSUME NEW ch \in Channels, NEW a \in Aliases, Renew(ch, a)
      PROVE  DecisionKept
  BY <1>6 DEF Renew, Handle, TypeOK, DecisionKept, Kept, Statuses
<1>7. ASSUME NEW ch \in Channels, NEW a \in Aliases, Leave(ch, a)
      PROVE  DecisionKept
  BY <1>7 DEF Leave, Handle, DeleteChannel, EvictedTokens, EvictedClients, TypeOK, DecisionKept,
     Kept, Statuses
<1>8. ASSUME NEW ch \in Channels, NEW a \in Aliases, NEW b \in Aliases, Remove(ch, a, b)
      PROVE  DecisionKept
  BY <1>8 DEF Remove, Handle, EvictedTokens, EvictedClients, TypeOK, DecisionKept, Kept, Statuses
<1>9. ASSUME NEW ch \in Channels, NEW a \in Aliases, NEW b \in Aliases,
             NEW x \in {"member", "admin"}, SetRole(ch, a, b, x)
      PROVE  DecisionKept
  BY <1>9 DEF SetRole, Handle, TypeOK, DecisionKept, Kept, Statuses
<1>10. ASSUME NEW ch \in Channels, NEW p \in Principals, Authenticate(ch, p)
      PROVE  DecisionKept
  BY <1>10 DEF Authenticate, TypeOK, DecisionKept, Kept, Statuses
<1>11. ASSUME NEW ch \in Channels, NEW p \in Principals, Refuse(ch, p)
      PROVE  DecisionKept
  BY <1>11 DEF Refuse, TypeOK, DecisionKept, Kept, Statuses
<1>12. ASSUME NEW ch \in Channels, NEW p \in Principals, Expire(ch, p)
      PROVE  DecisionKept
  BY <1>12 DEF Expire, TypeOK, DecisionKept, Kept, Statuses
<1>13. ASSUME NEW ch \in Channels, NEW p \in Principals, NEW r \in Requests, Approve(ch, p, r)
      PROVE  DecisionKept
  BY <1>13 DEF Approve, Handle, Admitted, QuietAfterAdmission, TypeOK, DecisionKept, Kept,
     Statuses
<1>14. ASSUME NEW ch \in Channels, NEW p \in Principals, NEW r \in Requests, Reject(ch, p, r)
      PROVE  DecisionKept
  BY <1>14 DEF Reject, Handle, TypeOK, DecisionKept, Kept, Statuses
<1>15. ASSUME NEW ch \in Channels, NEW p \in Principals, NEW a \in Aliases, Register(ch, p, a)
      PROVE  DecisionKept
  BY <1>15 DEF Register, Handle, TypeOK, DecisionKept, Kept, Statuses
<1>16. ASSUME NEW ch \in Channels, BecomeQuiet(ch)
      PROVE  DecisionKept
  BY <1>16 DEF BecomeQuiet, TypeOK, DecisionKept, Kept, Statuses
<1>17. ASSUME NEW ch \in Channels, Prune(ch)
      PROVE  DecisionKept
  BY <1>17 DEF Prune, DeleteChannel, TypeOK, DecisionKept, Kept, Statuses
<1>18. CASE UNCHANGED vars
  BY <1>18 DEF vars, TypeOK, DecisionKept, Kept, Statuses
<1>19. QED  BY <1>1, <1>2, <1>3, <1>4, <1>5, <1>6, <1>7, <1>8, <1>9, <1>10, <1>11, <1>12, <1>13, <1>14,
   <1>15, <1>16, <1>17, <1>18 DEF Next

\* A request stays approved or rejected until its channel is deleted.
THEOREM DecisionsFinal == Spec => DecisionIsFinal
<1>1. TypeOK /\ [Next]_vars => [DecisionKept]_vars  BY DecisionStep
<1>2. QED  BY <1>1, TypeCorrect, PTL DEF Spec, DecisionIsFinal, DecisionKept

AdmittedByApproval ==
    \A ch \in Channels, a \in Aliases :
        a \notin Members(ch) /\ a \in Members(ch)' =>
            \/ Members(ch) = {}
            \/ \E r \in Requests : /\ request[r] = [status |-> "pending", channel |-> ch, alias |-> a]
                                  /\ request'[r].status = "approved"

\* No step admits a stranger without an approval.
LEMMA AdmissionStep ==
  ASSUME TypeOK, [Next]_vars
  PROVE  AdmittedByApproval
<1>1. ASSUME NEW r \in Requests, Poll(r)
      PROVE  AdmittedByApproval
  BY <1>1 DEF Poll, TypeOK, AdmittedByApproval, Members, Kept, Roles, Statuses
<1>2. ASSUME NEW ch \in Channels, NEW a \in Aliases, JoinEmpty(ch, a)
      PROVE  AdmittedByApproval
  BY <1>2 DEF JoinEmpty, AliasFree, Admitted, QuietAfterAdmission, TypeOK, AdmittedByApproval,
     Members, Kept, Roles, Statuses
<1>3. ASSUME NEW ch \in Channels, NEW a \in Aliases, JoinSole(ch, a)
      PROVE  AdmittedByApproval
  BY <1>3 DEF JoinSole, AliasFree, TypeOK, AdmittedByApproval, Members, Kept, Roles, Statuses
<1>4. ASSUME NEW ch \in Channels, NEW a \in Aliases, NEW r \in Requests, JoinPending(ch, a, r)
      PROVE  AdmittedByApproval
  BY <1>4 DEF JoinPending, AliasFree, TypeOK, AdmittedByApproval, Members, Kept, Roles, Statuses
<1>5. ASSUME NEW ch \in Channels, NEW a \in Aliases, JoinAgain(ch, a)
      PROVE  AdmittedByApproval
  BY <1>5 DEF JoinAgain, AliasFree, TypeOK, AdmittedByApproval, Members, Kept, Roles, Statuses
<1>6. ASSUME NEW ch \in Channels, NEW a \in Aliases, Renew(ch, a)
      PROVE  AdmittedByApproval
  BY <1>6 DEF Renew, Handle, TypeOK, AdmittedByApproval, Members, Kept, Roles, Statuses
<1>7. ASSUME NEW ch \in Channels, NEW a \in Aliases, Leave(ch, a)
      PROVE  AdmittedByApproval
  <2>1. \A c \in Channels, b \in Aliases : role[c][b] = "none" => role'[c][b] = "none"
    BY <1>7 DEF Leave, DeleteChannel, TypeOK
  <2>2. QED  BY <2>1 DEF AdmittedByApproval, Members
<1>8. ASSUME NEW ch \in Channels, NEW a \in Aliases, NEW b \in Aliases, Remove(ch, a, b)
      PROVE  AdmittedByApproval
  BY <1>8 DEF Remove, Handle, EvictedTokens, EvictedClients, TypeOK, AdmittedByApproval,
     Members, Kept, Roles, Statuses
<1>9. ASSUME NEW ch \in Channels, NEW a \in Aliases, NEW b \in Aliases,
             NEW x \in {"member", "admin"}, SetRole(ch, a, b, x)
      PROVE  AdmittedByApproval
  BY <1>9 DEF SetRole, Handle, TypeOK, AdmittedByApproval, Members, Kept, Roles, Statuses
<1>10. ASSUME NEW ch \in Channels, NEW p \in Principals, Authenticate(ch, p)
      PROVE  AdmittedByApproval
  BY <1>10 DEF Authenticate, TypeOK, AdmittedByApproval, Members, Kept, Roles, Statuses
<1>11. ASSUME NEW ch \in Channels, NEW p \in Principals, Refuse(ch, p)
      PROVE  AdmittedByApproval
  BY <1>11 DEF Refuse, TypeOK, AdmittedByApproval, Members, Kept, Roles, Statuses
<1>12. ASSUME NEW ch \in Channels, NEW p \in Principals, Expire(ch, p)
      PROVE  AdmittedByApproval
  BY <1>12 DEF Expire, TypeOK, AdmittedByApproval, Members, Kept, Roles, Statuses
<1>13. ASSUME NEW ch \in Channels, NEW p \in Principals, NEW r \in Requests, Approve(ch, p, r)
      PROVE  AdmittedByApproval
  BY <1>13 DEF Approve, Handle, Admitted, QuietAfterAdmission, TypeOK, AdmittedByApproval,
     Members, Kept, Roles, Statuses
<1>14. ASSUME NEW ch \in Channels, NEW p \in Principals, NEW r \in Requests, Reject(ch, p, r)
      PROVE  AdmittedByApproval
  BY <1>14 DEF Reject, Handle, TypeOK, AdmittedByApproval, Members, Kept, Roles, Statuses
<1>15. ASSUME NEW ch \in Channels, NEW p \in Principals, NEW a \in Aliases, Register(ch, p, a)
      PROVE  AdmittedByApproval
  BY <1>15 DEF Register, Handle, TypeOK, AdmittedByApproval, Members, Kept, Roles, Statuses
<1>16. ASSUME NEW ch \in Channels, BecomeQuiet(ch)
      PROVE  AdmittedByApproval
  BY <1>16 DEF BecomeQuiet, TypeOK, AdmittedByApproval, Members, Kept, Roles, Statuses
<1>17. ASSUME NEW ch \in Channels, Prune(ch)
      PROVE  AdmittedByApproval
  BY <1>17 DEF Prune, DeleteChannel, TypeOK, AdmittedByApproval, Members, Kept, Roles, Statuses
<1>18. CASE UNCHANGED vars
  BY <1>18 DEF vars, TypeOK, AdmittedByApproval, Members, Kept, Roles, Statuses
<1>19. QED  BY <1>1, <1>2, <1>3, <1>4, <1>5, <1>6, <1>7, <1>8, <1>9, <1>10, <1>11, <1>12, <1>13, <1>14,
   <1>15, <1>16, <1>17, <1>18 DEF Next

\* A repeated approval admits nobody again.
THEOREM AdmissionNeedsApproval == Spec => ApprovalAdmitsOnce
<1>1. TypeOK /\ [Next]_vars => [AdmittedByApproval]_vars  BY AdmissionStep
<1>2. QED  BY <1>1, TypeCorrect, PTL DEF Spec, ApprovalAdmitsOnce, AdmittedByApproval

-----------------------------------------------------------------------------
(* Client rows.  A token that works when the row is inserted is one of a   *)
(* channel with members (ChannelLeavesNothing), whoever holds it; and only *)
(* the deletion of a channel takes its last member, with the client rows.  *)

TokensLast == "late_register" \notin Races

\* If a token lives from its check to the row, every client row that a step
\* leaves is in a channel with members.
LEMMA ClientStep ==
  ASSUME TokensLast, TypeOK, ChannelLeavesNothing, RowsHaveMembers, [Next]_vars
  PROVE  RowsHaveMembers'
<1>1. ASSUME NEW r \in Requests, Poll(r)
      PROVE  RowsHaveMembers'
  BY <1>1 DEF Poll,
     TypeOK, RowsHaveMembers, Members, Roles
<1>2. ASSUME NEW ch \in Channels, NEW a \in Aliases, JoinEmpty(ch, a)
      PROVE  RowsHaveMembers'
  BY <1>2 DEF JoinEmpty, AliasFree, Admitted, QuietAfterAdmission,
     TypeOK, RowsHaveMembers, Members, Roles
<1>3. ASSUME NEW ch \in Channels, NEW a \in Aliases, JoinSole(ch, a)
      PROVE  RowsHaveMembers'
  BY <1>3 DEF JoinSole, AliasFree,
     TypeOK, RowsHaveMembers, Members, Roles
<1>4. ASSUME NEW ch \in Channels, NEW a \in Aliases, NEW r \in Requests, JoinPending(ch, a, r)
      PROVE  RowsHaveMembers'
  BY <1>4 DEF JoinPending, AliasFree,
     TypeOK, RowsHaveMembers, Members, Roles
<1>5. ASSUME NEW ch \in Channels, NEW a \in Aliases, JoinAgain(ch, a)
      PROVE  RowsHaveMembers'
  BY <1>5 DEF JoinAgain, AliasFree, TypeOK, RowsHaveMembers, Members, Roles
<1>6. ASSUME NEW ch \in Channels, NEW a \in Aliases, Renew(ch, a)
      PROVE  RowsHaveMembers'
  BY <1>6 DEF Renew, Handle,
     TypeOK, RowsHaveMembers, Members, Roles
<1>7. ASSUME NEW ch \in Channels, NEW a \in Aliases, Leave(ch, a)
      PROVE  RowsHaveMembers'
  BY <1>7 DEF Leave, Handle, DeleteChannel, EvictedTokens, EvictedClients,
     TypeOK, RowsHaveMembers, Members, Roles
<1>8. ASSUME NEW ch \in Channels, NEW a \in Aliases, NEW b \in Aliases, Remove(ch, a, b)
      PROVE  RowsHaveMembers'
  BY <1>8 DEF Remove, Handle, EvictedTokens, EvictedClients,
     TypeOK, RowsHaveMembers, Members, Roles
<1>9. ASSUME NEW ch \in Channels, NEW a \in Aliases, NEW b \in Aliases,
             NEW x \in {"member", "admin"}, SetRole(ch, a, b, x)
      PROVE  RowsHaveMembers'
  BY <1>9 DEF SetRole, Handle,
     TypeOK, RowsHaveMembers, Members, Roles
<1>10. ASSUME NEW ch \in Channels, NEW p \in Principals, Authenticate(ch, p)
      PROVE  RowsHaveMembers'
  BY <1>10 DEF Authenticate,
     TypeOK, RowsHaveMembers, Members, Roles
<1>11. ASSUME NEW ch \in Channels, NEW p \in Principals, Refuse(ch, p)
      PROVE  RowsHaveMembers'
  BY <1>11 DEF Refuse,
     TypeOK, RowsHaveMembers, Members, Roles
<1>12. ASSUME NEW ch \in Channels, NEW p \in Principals, Expire(ch, p)
      PROVE  RowsHaveMembers'
  BY <1>12 DEF Expire,
     TypeOK, RowsHaveMembers, Members, Roles
<1>13. ASSUME NEW ch \in Channels, NEW p \in Principals, NEW r \in Requests, Approve(ch, p, r)
      PROVE  RowsHaveMembers'
  BY <1>13 DEF Approve, Handle, Admitted, QuietAfterAdmission,
     TypeOK, RowsHaveMembers, Members, Roles
<1>14. ASSUME NEW ch \in Channels, NEW p \in Principals, NEW r \in Requests, Reject(ch, p, r)
      PROVE  RowsHaveMembers'
  BY <1>14 DEF Reject, Handle,
     TypeOK, RowsHaveMembers, Members, Roles
<1>15. ASSUME NEW ch \in Channels, NEW p \in Principals, NEW a \in Aliases, Register(ch, p, a)
      PROVE  RowsHaveMembers'
  <2>1. Members(ch) # {}
    BY <1>15 DEF Register, TokensLast, ChannelLeavesNothing
  <2>2. client' = [client EXCEPT ![a] = ch] /\ UNCHANGED role
    BY <1>15 DEF Register
  <2>3. QED  BY <2>1, <2>2 DEF TypeOK, RowsHaveMembers, Members
<1>16. ASSUME NEW ch \in Channels, BecomeQuiet(ch)
      PROVE  RowsHaveMembers'
  BY <1>16 DEF BecomeQuiet,
     TypeOK, RowsHaveMembers, Members, Roles
<1>17. ASSUME NEW ch \in Channels, Prune(ch)
      PROVE  RowsHaveMembers'
  BY <1>17 DEF Prune, DeleteChannel,
     TypeOK, RowsHaveMembers, Members, Roles
<1>18. CASE UNCHANGED vars
  BY <1>18 DEF vars, TypeOK, RowsHaveMembers, Members, Roles
<1>19. QED  BY <1>1, <1>2, <1>3, <1>4, <1>5, <1>6, <1>7, <1>8, <1>9, <1>10, <1>11, <1>12, <1>13, <1>14,
   <1>15, <1>16, <1>17, <1>18 DEF Next

\* While a token lives from its check to the client row, no row stays behind in
\* a channel without members, whatever client ids the machines register.
THEOREM RowsInChannels ==
  ASSUME TokensLast
  PROVE  Spec => []RowsHaveMembers
<1>1. Init => RowsHaveMembers
  BY LegacyAssumption, NoChannelAssumption
    DEF Init, RowsHaveMembers, Members, Migrated, NoMembers
<1>2. TypeOK /\ ChannelLeavesNothing /\ RowsHaveMembers /\ [Next]_vars => RowsHaveMembers'
  BY ClientStep
<1>3. QED  BY <1>1, <1>2, TypeCorrect, NothingLeft, PTL DEF Spec
=============================================================================
