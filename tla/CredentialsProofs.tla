--------------------------- MODULE CredentialsProofs ---------------------------
(***************************************************************************)
(* Proofs about Credentials, for every set of terminals and identities,    *)
(* every number of tokens and all faults.                                  *)
(***************************************************************************)
EXTENDS Credentials, TLAPS

-----------------------------------------------------------------------------
(* Type correctness *)

\* The parts of TypeOK: the hub and time, the files, the writers, the client.
HubOK ==
    /\ minted \in Tokens
    /\ owner \in [Tokens -> Aliases]
    /\ revoked \subseteq 1 .. minted
    /\ age \in [Tokens -> {"young", "due", "expired"}]
    /\ tried \in [Tokens -> 0 .. Checks]
FilesOK ==
    /\ config \in Contents \cup {Garbled}
    /\ tmp \in Contents \cup {Garbled, NoFile}
WritersOK ==
    /\ file \in [Writers -> {"closed", "tmp", "config", "gone"}]
    /\ at \in [Writers -> {"idle", "renew", "compare", "leave", "left", "open", "flush", "replace"}]
    /\ old \in [Writers -> 0 .. minted]
    /\ save \in [Writers -> [alias : Aliases \cup {"nobody"}, token : 0 .. minted]]
WriterOK(w) ==
    /\ IF at[w] = "compare" THEN save[w].token # NoToken ELSE save[w] \in Contents
    /\ at[w] = "idle" => old[w] = NoToken /\ save[w] = Empty
    /\ at[w] \in {"renew", "compare", "leave"} => old[w] # NoToken
    /\ file[w] # "closed" <=> at[w] = "flush"
ClientOK ==
    /\ client \in {"supervisor", "running", "rejected", "ended"}
    /\ use \in 1 .. minted
    /\ setup \in [supervised : BOOLEAN, default : BOOLEAN]
    /\ faults \subseteq AllFaults

\* TypeOK is its parts.
LEMMA Parts == TypeOK <=> HubOK /\ FilesOK /\ WritersOK /\ (\A w \in Writers : WriterOK(w)) /\ ClientOK
  BY DEF TypeOK, HubOK, FilesOK, WritersOK, WriterOK, ClientOK

\* The initial state is well-typed.
LEMMA TypeInit == Init => TypeOK
<1> SUFFICES ASSUME Init PROVE TypeOK
  OBVIOUS
<1>1. First \in Aliases  BY AliasAssumption DEF First
<1>2. HubOK  BY <1>1, BoundAssumption DEF Init, HubOK, Tokens
<1>3. FilesOK /\ WritersOK /\ \A w \in Writers : WriterOK(w)
  BY <1>1, BoundAssumption DEF Init, FilesOK, WritersOK, WriterOK, Contents, Content, Empty, NoFile, NoToken
<1>4. ClientOK  BY <1>2 DEF Init, ClientOK, HubOK, Tokens
<1>5. QED  BY <1>2, <1>3, <1>4, Parts

\* A renewal reads the token.
LEMMA TypeRenewLoads == ASSUME TypeOK, NEW w \in Writers, RenewLoads(w) PROVE TypeOK'
<1>1. HubOK /\ FilesOK /\ WritersOK /\ (\A v \in Writers : WriterOK(v)) /\ ClientOK
  BY Parts
<1>2. w \in Writers  BY DEF Writers
<1>3. minted' \in Nat /\ minted <= minted' /\ HubOK'
  <2>1. minted' = minted /\ owner' = owner /\ revoked' = revoked /\ age' = age
    BY DEF RenewLoads, hubVars
  <2>2. tried' \in [Tokens -> 0 .. Checks]
    <3>1. tried \in [Tokens -> 0 .. Checks]  BY <1>1 DEF HubOK
    <3>2. CASE tried' = tried  BY <3>1, <3>2
    <3>3. CASE /\ tried[config.token] < Checks
               /\ tried' = [tried EXCEPT ![config.token] = @ + 1]
      <4>1. ASSUME NEW t \in Tokens PROVE tried'[t] \in 0 .. Checks
        BY <3>1, <3>3, BoundAssumption
      <4>2. QED  BY <3>1, <3>3, <4>1
    <3>4. QED  BY <3>2, <3>3 DEF RenewLoads
  <2>3. QED  BY <1>1, <2>1, <2>2 DEF HubOK, Tokens
<1>4. Contents \subseteq Contents'
  BY <1>1, <1>3 DEF HubOK, Contents, Tokens
<1>5. FilesOK'
  BY <1>1, <1>4 DEF FilesOK, RenewLoads, Current, hubVars, timeVars, fileVars, writerVars, clientVars
<1>6. WritersOK'
  BY <1>1, <1>2, <1>3 DEF WritersOK, FilesOK, HubOK, Tokens, RenewLoads, Current, Goto, Contents, Content, Empty, Garbled, NoToken, hubVars, timeVars, fileVars, writerVars, clientVars
<1>7. ASSUME NEW v \in Writers, v # w PROVE WriterOK(v)'
  BY <1>1, <1>2, <1>4, <1>7 DEF WritersOK, WriterOK, RenewLoads, Current, Goto, hubVars, timeVars, fileVars, writerVars, clientVars
<1>8. WriterOK(w)'
  BY <1>1, <1>2, <1>3, <1>4, AliasAssumption DEF WritersOK, WriterOK, HubOK, FilesOK, RenewLoads, Current, Goto, Contents, Content, Empty, Garbled, NoFile, NoToken, Tokens, hubVars, timeVars, fileVars, writerVars, clientVars
<1>9. ClientOK'
  BY <1>1, <1>3 DEF ClientOK, HubOK, Tokens, RenewLoads, Current, AllFaults, hubVars, timeVars, fileVars, writerVars, clientVars
<1>10. QED  BY <1>3, <1>5, <1>6, <1>7, <1>8, <1>9 DEF TypeOK, HubOK, FilesOK, WritersOK, WriterOK, ClientOK

\* The hub renews.
LEMMA TypeHubRenews == ASSUME TypeOK, NEW w \in Writers, HubRenews(w) PROVE TypeOK'
<1>1. HubOK /\ FilesOK /\ WritersOK /\ (\A v \in Writers : WriterOK(v)) /\ ClientOK
  BY Parts
<1>2. w \in Writers  BY DEF Writers
<1>3. minted' \in Nat /\ minted <= minted' /\ HubOK'
  BY <1>1, BoundAssumption DEF HubOK, HubRenews, Mint, Live, Tokens, hubVars, timeVars, fileVars, writerVars, clientVars
<1>4. Contents \subseteq Contents'
  BY <1>1, <1>3 DEF HubOK, Contents, Tokens
<1>5. FilesOK'
  BY <1>1, <1>4 DEF FilesOK, HubRenews, Mint, Live, hubVars, timeVars, fileVars, writerVars, clientVars
<1>6. WritersOK'
  <2>1. minted + 1 \in 0 .. minted' /\ 0 .. minted \subseteq 0 .. minted'
    BY <1>1 DEF HubOK, HubRenews, Mint, Tokens
  <2>2. save' \in [Writers -> [alias : Aliases \cup {"nobody"}, token : 0 .. minted']]
    BY <1>1, <2>1 DEF WritersOK, HubRenews
  <2>3. QED  BY <1>1, <2>1, <2>2 DEF WritersOK, HubRenews, Goto, fileVars
<1>7. ASSUME NEW v \in Writers, v # w PROVE WriterOK(v)'
  BY <1>1, <1>2, <1>4, <1>7 DEF WritersOK, WriterOK, HubRenews, Mint, Live, Goto, hubVars, timeVars, fileVars, writerVars, clientVars
<1>8. WriterOK(w)'
  BY <1>1, <1>2, <1>3, <1>4, AliasAssumption DEF WritersOK, WriterOK, HubOK, FilesOK, HubRenews, Mint, Live, Goto, Contents, Content, Empty, Garbled, NoFile, NoToken, Tokens, hubVars, timeVars, fileVars, writerVars, clientVars
<1>9. ClientOK'
  BY <1>1, <1>3 DEF ClientOK, HubOK, Tokens, HubRenews, Mint, Live, AllFaults, hubVars, timeVars, fileVars, writerVars, clientVars
<1>10. QED  BY <1>3, <1>5, <1>6, <1>7, <1>8, <1>9 DEF TypeOK, HubOK, FilesOK, WritersOK, WriterOK, ClientOK

\* The hub refuses to renew.
LEMMA TypeRenewRefused == ASSUME TypeOK, NEW w \in Writers, RenewRefused(w) PROVE TypeOK'
<1>1. HubOK /\ FilesOK /\ WritersOK /\ (\A v \in Writers : WriterOK(v)) /\ ClientOK
  BY Parts
<1>2. Contents' = Contents /\ HubOK' /\ FilesOK' /\ ClientOK'
  BY <1>1 DEF RenewRefused, HubOK, FilesOK, ClientOK, Contents, hubVars, timeVars, fileVars, clientVars
<1>3. minted \in Nat  BY <1>1 DEF HubOK, Tokens
<1>4. WritersOK'
  BY <1>1, <1>3 DEF WritersOK, RenewRefused, Finish, Goto, Empty, Content, NoToken, hubVars, fileVars
<1>5. ASSUME NEW v \in Writers, v # w PROVE WriterOK(v)'
  BY <1>1, <1>2, <1>5 DEF WritersOK, WriterOK, RenewRefused, Finish, Goto, fileVars
<1>6. WriterOK(w)'
  BY <1>1, <1>3 DEF WritersOK, WriterOK, RenewRefused, Finish, Goto, Contents, Empty, Content, NoToken, fileVars
<1>7. QED  BY <1>2, <1>4, <1>5, <1>6 DEF TypeOK, HubOK, FilesOK, WritersOK, WriterOK, ClientOK

\* A renewal gets lost.
LEMMA TypeRenewLost == ASSUME TypeOK, NEW w \in Writers, RenewLost(w) PROVE TypeOK'
<1>1. HubOK /\ FilesOK /\ WritersOK /\ (\A v \in Writers : WriterOK(v)) /\ ClientOK
  BY Parts
<1>2. w \in Writers  BY DEF Writers
<1>3. minted' \in Nat /\ minted <= minted' /\ HubOK'
  <2>1. CASE UNCHANGED hubVars
    BY <1>1, <2>1 DEF HubOK, RenewLost, Tokens, hubVars, timeVars
  <2>2. CASE Live(old[w]) /\ Mint(owner[old[w]])
    <3>1. owner[old[w]] \in Aliases /\ minted + 1 \in Tokens
      BY <1>1, <2>2, BoundAssumption DEF HubOK, Live, Mint, Tokens
    <3>2. minted' = minted + 1 /\ owner' = [owner EXCEPT ![minted + 1] = owner[old[w]]] /\ revoked' = revoked
      BY <2>2 DEF Mint
    <3>3. QED  BY <1>1, <3>1, <3>2 DEF HubOK, RenewLost, Tokens, timeVars
  <2>3. QED  BY <2>1, <2>2 DEF RenewLost
<1>4. Contents \subseteq Contents'
  BY <1>1, <1>3 DEF HubOK, Contents, Tokens
<1>5. FilesOK'
  BY <1>1, <1>4 DEF FilesOK, RenewLost, Finish, Mint, Commit, Live, hubVars, timeVars, fileVars, writerVars, clientVars
<1>6. WritersOK'
  BY <1>1, <1>2, <1>3 DEF WritersOK, FilesOK, HubOK, Tokens, RenewLost, Finish, Mint, Commit, Live, Goto, Contents, Content, Empty, Garbled, NoToken, hubVars, timeVars, fileVars, writerVars, clientVars
<1>7. ASSUME NEW v \in Writers, v # w PROVE WriterOK(v)'
  BY <1>1, <1>2, <1>4, <1>7 DEF WritersOK, WriterOK, RenewLost, Finish, Mint, Commit, Live, Goto, hubVars, timeVars, fileVars, writerVars, clientVars
<1>8. WriterOK(w)'
  BY <1>1, <1>2, <1>3, <1>4, AliasAssumption DEF WritersOK, WriterOK, HubOK, FilesOK, RenewLost, Finish, Mint, Commit, Live, Goto, Contents, Content, Empty, Garbled, NoFile, NoToken, Tokens, hubVars, timeVars, fileVars, writerVars, clientVars
<1>9. ClientOK'
  BY <1>1, <1>3 DEF ClientOK, HubOK, Tokens, RenewLost, Finish, Mint, Commit, Live, AllFaults, hubVars, timeVars, fileVars, writerVars, clientVars
<1>10. QED  BY <1>3, <1>5, <1>6, <1>7, <1>8, <1>9 DEF TypeOK, HubOK, FilesOK, WritersOK, WriterOK, ClientOK

\* A renewal compares the token.
LEMMA TypeRenewCompares == ASSUME TypeOK, NEW w \in Writers, RenewCompares(w) PROVE TypeOK'
<1>1. HubOK /\ FilesOK /\ WritersOK /\ (\A v \in Writers : WriterOK(v)) /\ ClientOK
  BY Parts
<1>2. w \in Writers  BY DEF Writers
<1>3. minted' \in Nat /\ minted <= minted' /\ HubOK'
  BY <1>1, BoundAssumption DEF HubOK, RenewCompares, WillSave, Finish, SameCredentials, Tokens, hubVars, timeVars, fileVars, writerVars, clientVars
<1>4. Contents \subseteq Contents'
  BY <1>1, <1>3 DEF HubOK, Contents, Tokens
<1>5. FilesOK'
  BY <1>1, <1>4 DEF FilesOK, RenewCompares, WillSave, Finish, SameCredentials, hubVars, timeVars, fileVars, writerVars, clientVars
<1>6. WritersOK'
  <2>1. CASE SameCredentials(w)
    <3>1. save[w].token \in 0 .. minted /\ config.token # NoToken
      BY <1>1, <1>2, <2>1 DEF WritersOK, WriterOK, RenewCompares, SameCredentials
    <3>2. config \in Contents /\ config.alias \in Aliases \cup {"nobody"}
      BY <1>1, <3>1 DEF FilesOK, Garbled, Content, Contents, Empty
    <3>3. [config EXCEPT !.token = save[w].token] \in [alias : Aliases \cup {"nobody"}, token : 0 .. minted]
      BY <3>1, <3>2 DEF Contents, Empty, Content, NoToken
    <3>4. QED
      BY <1>1, <2>1, <3>3 DEF WritersOK, RenewCompares, WillSave, Goto, fileVars, hubVars
  <2>2. CASE ~SameCredentials(w)
    <3>1. Finish(w) /\ minted' = minted /\ file' = file
      BY <2>2 DEF RenewCompares, hubVars, fileVars
    <3>2. Empty \in [alias : Aliases \cup {"nobody"}, token : 0 .. minted] /\ NoToken \in 0 .. minted
      BY <1>1 DEF HubOK, Tokens, Empty, Content, NoToken
    <3>3. QED  BY <1>1, <3>1, <3>2 DEF WritersOK, Finish, Goto
  <2>3. QED  BY <2>1, <2>2
<1>7. ASSUME NEW v \in Writers, v # w PROVE WriterOK(v)'
  BY <1>1, <1>2, <1>4, <1>7 DEF WritersOK, WriterOK, RenewCompares, WillSave, Finish, SameCredentials, Goto, hubVars, timeVars, fileVars, writerVars, clientVars
<1>8. WriterOK(w)'
  <2>1. CASE SameCredentials(w)
    <3>1. save[w].token \in 0 .. minted /\ config.token # NoToken
      BY <1>1, <1>2, <2>1 DEF WritersOK, WriterOK, RenewCompares, SameCredentials
    <3>2. config \in [alias : Aliases, token : 0 .. minted]
      BY <1>1, <3>1 DEF FilesOK, Garbled, Content, Contents, Empty
    <3>3. [config EXCEPT !.token = save[w].token] \in Contents
      BY <3>1, <3>2 DEF Contents
    <3>4. save'[w] \in Contents' /\ at'[w] = "open"
      BY <1>1, <1>2, <1>4, <2>1, <3>3 DEF WritersOK, RenewCompares, WillSave, Goto
    <3>5. QED
      BY <1>1, <1>2, <2>1, <3>4 DEF WritersOK, WriterOK, RenewCompares, fileVars
  <2>2. CASE ~SameCredentials(w)
    BY <1>1, <1>2, <1>4, <2>2 DEF WritersOK, WriterOK, RenewCompares, Finish, Goto, Contents, Empty, Content, NoToken, fileVars
  <2>3. QED  BY <2>1, <2>2
<1>9. ClientOK'
  BY <1>1, <1>3 DEF ClientOK, HubOK, Tokens, RenewCompares, WillSave, Finish, SameCredentials, AllFaults, hubVars, timeVars, fileVars, writerVars, clientVars
<1>10. QED  BY <1>3, <1>5, <1>6, <1>7, <1>8, <1>9 DEF TypeOK, HubOK, FilesOK, WritersOK, WriterOK, ClientOK

\* A writer opens the temporary file.
LEMMA TypeOpenTmp == ASSUME TypeOK, NEW w \in Writers, OpenTmp(w) PROVE TypeOK'
<1>1. HubOK /\ FilesOK /\ WritersOK /\ (\A v \in Writers : WriterOK(v)) /\ ClientOK
  BY Parts
<1>2. w \in Writers  BY DEF Writers
<1>3. minted' \in Nat /\ minted <= minted' /\ HubOK'
  BY <1>1, BoundAssumption DEF HubOK, OpenTmp, Commit, Tokens, hubVars, timeVars, fileVars, writerVars, clientVars
<1>4. Contents \subseteq Contents'
  BY <1>1, <1>3 DEF HubOK, Contents, Tokens
<1>5. FilesOK'
  BY <1>1, <1>4 DEF FilesOK, OpenTmp, Contents, hubVars
<1>6. WritersOK'
  BY <1>1, <1>2, <1>3 DEF WritersOK, FilesOK, HubOK, Tokens, OpenTmp, Commit, Goto, Contents, Content, Empty, Garbled, NoToken, hubVars, timeVars, fileVars, writerVars, clientVars
<1>7. ASSUME NEW v \in Writers, v # w PROVE WriterOK(v)'
  BY <1>1, <1>2, <1>4, <1>7 DEF WritersOK, WriterOK, OpenTmp, Commit, Goto, hubVars, timeVars, fileVars, writerVars, clientVars
<1>8. WriterOK(w)'
  BY <1>1, <1>2, <1>3, <1>4, AliasAssumption DEF WritersOK, WriterOK, HubOK, FilesOK, OpenTmp, Commit, Goto, Contents, Content, Empty, Garbled, NoFile, NoToken, Tokens, hubVars, timeVars, fileVars, writerVars, clientVars
<1>9. ClientOK'
  BY <1>1, <1>3 DEF ClientOK, HubOK, Tokens, OpenTmp, Commit, AllFaults, hubVars, timeVars, fileVars, writerVars, clientVars
<1>10. QED  BY <1>3, <1>5, <1>6, <1>7, <1>8, <1>9 DEF TypeOK, HubOK, FilesOK, WritersOK, WriterOK, ClientOK

\* A writer writes.
LEMMA TypeFlush == ASSUME TypeOK, NEW w \in Writers, Flush(w) PROVE TypeOK'
<1>1. HubOK /\ FilesOK /\ WritersOK /\ (\A v \in Writers : WriterOK(v)) /\ ClientOK
  BY Parts
<1>2. Contents' = Contents /\ HubOK' /\ ClientOK'
  BY <1>1 DEF Flush, HubOK, ClientOK, Contents, hubVars, timeVars, clientVars
<1>3. save[w] \in Contents  BY <1>1 DEF Flush, WriterOK
<1>4. FilesOK'  BY <1>1, <1>2, <1>3 DEF FilesOK, Flush, Written
<1>5. WritersOK'  BY <1>1 DEF WritersOK, Flush, Goto, hubVars
<1>6. ASSUME NEW v \in Writers PROVE WriterOK(v)'
  BY <1>1, <1>2 DEF WritersOK, WriterOK, Flush, Goto
<1>7. QED  BY <1>2, <1>4, <1>5, <1>6 DEF TypeOK, HubOK, FilesOK, WritersOK, WriterOK, ClientOK

\* A writer renames.
LEMMA TypeReplace == ASSUME TypeOK, NEW w \in Writers, Replace(w) PROVE TypeOK'
<1>1. HubOK /\ FilesOK /\ WritersOK /\ (\A v \in Writers : WriterOK(v)) /\ ClientOK
  BY Parts
<1>2. w \in Writers  BY DEF Writers
<1>3. minted' \in Nat /\ minted <= minted' /\ HubOK'
  BY <1>1, BoundAssumption DEF HubOK, Replace, Finish, Renamed, Tokens, hubVars, timeVars, fileVars, writerVars, clientVars
<1>4. Contents \subseteq Contents'
  BY <1>1, <1>3 DEF HubOK, Contents, Tokens
<1>5. FilesOK'
  BY <1>1, <1>4 DEF FilesOK, Replace, Finish, Renamed, hubVars, timeVars, fileVars, writerVars, clientVars
<1>6. WritersOK'
  BY <1>1, <1>2, <1>3 DEF WritersOK, FilesOK, HubOK, Tokens, Replace, Finish, Renamed, Goto, Contents, Content, Empty, Garbled, NoToken, hubVars, timeVars, fileVars, writerVars, clientVars
<1>7. ASSUME NEW v \in Writers, v # w PROVE WriterOK(v)'
  BY <1>1, <1>2, <1>4, <1>7 DEF WritersOK, WriterOK, Replace, Finish, Renamed, Goto, hubVars, timeVars, fileVars, writerVars, clientVars
<1>8. WriterOK(w)'
  <2>1. file[w] = "closed"
    BY <1>1, <1>2 DEF WriterOK, Replace
  <2>2. file'[w] = "closed"
    BY <1>1, <1>2, <2>1 DEF WritersOK, Replace, Renamed, fileVars
  <2>3. at'[w] = "idle" /\ old'[w] = NoToken /\ save'[w] = Empty
    BY <1>1, <1>2 DEF WritersOK, Replace, Finish, Goto
  <2>4. QED  BY <2>2, <2>3 DEF WriterOK, Contents
<1>9. ClientOK'
  BY <1>1, <1>3 DEF ClientOK, HubOK, Tokens, Replace, Finish, Renamed, AllFaults, hubVars, timeVars, fileVars, writerVars, clientVars
<1>10. QED  BY <1>3, <1>5, <1>6, <1>7, <1>8, <1>9 DEF TypeOK, HubOK, FilesOK, WritersOK, WriterOK, ClientOK

\* A leave reads the token.
LEMMA TypeLeaveLoads == ASSUME TypeOK, NEW u \in Users, LeaveLoads(u) PROVE TypeOK'
<1>1. HubOK /\ FilesOK /\ WritersOK /\ (\A v \in Writers : WriterOK(v)) /\ ClientOK
  BY Parts
<1>2. Contents' = Contents /\ HubOK' /\ FilesOK' /\ ClientOK'
  BY <1>1 DEF LeaveLoads, HubOK, FilesOK, ClientOK, Contents, hubVars, timeVars, fileVars, clientVars
<1>3. config.token \in 0 .. minted /\ config.token # NoToken
  BY <1>1 DEF LeaveLoads, Current, FilesOK, HubOK, Contents, Content, Empty, Garbled, NoToken, Tokens
<1>4. WritersOK'  BY <1>1, <1>3 DEF WritersOK, LeaveLoads, Goto, hubVars, fileVars
<1>5. ASSUME NEW v \in Writers, v # u PROVE WriterOK(v)'
  BY <1>1, <1>2, <1>5 DEF WritersOK, WriterOK, LeaveLoads, Goto, fileVars
<1>6. u \in Writers => WriterOK(u)'
  BY <1>1, <1>2, <1>3 DEF WritersOK, WriterOK, LeaveLoads, Goto, fileVars
<1>7. QED  BY <1>2, <1>4, <1>5, <1>6 DEF TypeOK, HubOK, FilesOK, WritersOK, WriterOK, ClientOK

\* The hub evicts.
LEMMA TypeHubEvicts == ASSUME TypeOK, NEW u \in Users, HubEvicts(u) PROVE TypeOK'
<1>1. HubOK /\ FilesOK /\ WritersOK /\ (\A v \in Writers : WriterOK(v)) /\ ClientOK
  BY Parts
<1>2. u \in Writers  BY DEF Writers
<1>3. minted' \in Nat /\ minted <= minted' /\ HubOK'
  <2>1. minted' = minted /\ owner' = owner /\ UNCHANGED timeVars
    BY DEF HubEvicts
  <2>2. revoked' \subseteq 1 .. minted
    BY <1>1 DEF HubOK, HubEvicts
  <2>3. QED  BY <1>1, <2>1, <2>2 DEF HubOK, Tokens, timeVars
<1>4. Contents \subseteq Contents'
  BY <1>1, <1>3 DEF HubOK, Contents, Tokens
<1>5. FilesOK'
  BY <1>1, <1>4 DEF FilesOK, HubEvicts, Finish, Live, hubVars, timeVars, fileVars, writerVars, clientVars
<1>6. WritersOK'
  <2>1. UNCHANGED <<old, save>> \/ Finish(u)
    BY DEF HubEvicts
  <2>2. CASE UNCHANGED <<old, save>>
    BY <1>1, <1>2, <2>2 DEF WritersOK, HubEvicts, Finish, Goto, fileVars
  <2>3. CASE Finish(u)
    BY <1>1, <1>2, <2>3 DEF WritersOK, HubOK, Tokens, HubEvicts, Finish, Goto, Empty, Content, NoToken, fileVars
  <2>4. QED  BY <2>1, <2>2, <2>3
<1>7. ASSUME NEW v \in Writers, v # u PROVE WriterOK(v)'
  BY <1>1, <1>2, <1>4, <1>7 DEF WritersOK, WriterOK, HubEvicts, Finish, Live, Goto, hubVars, timeVars, fileVars, writerVars, clientVars
<1>8. WriterOK(u)'
  BY <1>1, <1>2, <1>3, <1>4, AliasAssumption DEF WritersOK, WriterOK, HubOK, FilesOK, HubEvicts, Finish, Live, Goto, Contents, Content, Empty, Garbled, NoFile, NoToken, Tokens, hubVars, timeVars, fileVars, writerVars, clientVars
<1>9. ClientOK'
  BY <1>1, <1>3 DEF ClientOK, HubOK, Tokens, HubEvicts, Finish, Live, AllFaults, hubVars, timeVars, fileVars, writerVars, clientVars
<1>10. QED  BY <1>3, <1>5, <1>6, <1>7, <1>8, <1>9 DEF TypeOK, HubOK, FilesOK, WritersOK, WriterOK, ClientOK

\* A leave drops the token.
LEMMA TypeDropToken == ASSUME TypeOK, NEW u \in Users, DropToken(u) PROVE TypeOK'
<1>1. HubOK /\ FilesOK /\ WritersOK /\ (\A v \in Writers : WriterOK(v)) /\ ClientOK
  BY Parts
<1>2. u \in Writers  BY DEF Writers
<1>3. minted' \in Nat /\ minted <= minted' /\ HubOK'
  BY <1>1, BoundAssumption DEF HubOK, DropToken, Finish, WillSave, Tokens, hubVars, timeVars, fileVars, writerVars, clientVars
<1>4. Contents \subseteq Contents'
  BY <1>1, <1>3 DEF HubOK, Contents, Tokens
<1>5. FilesOK'
  BY <1>1, <1>4 DEF FilesOK, DropToken, Finish, WillSave, hubVars, timeVars, fileVars, writerVars, clientVars
<1>6. WritersOK'
  <2>1. CASE config = Garbled
    <3>1. Finish(u) /\ minted' = minted /\ file' = file
      BY <2>1 DEF DropToken, hubVars, fileVars
    <3>2. Empty \in [alias : Aliases \cup {"nobody"}, token : 0 .. minted] /\ NoToken \in 0 .. minted
      BY <1>1 DEF HubOK, Tokens, Empty, Content, NoToken
    <3>3. QED  BY <1>1, <3>1, <3>2 DEF WritersOK, Finish, Goto
  <2>2. CASE config # Garbled
    <3>1. [config EXCEPT !.token = NoToken] \in [alias : Aliases \cup {"nobody"}, token : 0 .. minted]
      BY <1>1, <2>2 DEF FilesOK, HubOK, Tokens, Contents, Empty, Content, NoToken
    <3>2. QED
      BY <1>1, <2>2, <3>1 DEF WritersOK, DropToken, WillSave, Goto, fileVars, hubVars
  <2>3. QED  BY <2>1, <2>2
<1>7. ASSUME NEW v \in Writers, v # u PROVE WriterOK(v)'
  BY <1>1, <1>2, <1>4, <1>7 DEF WritersOK, WriterOK, DropToken, Finish, WillSave, Goto, hubVars, timeVars, fileVars, writerVars, clientVars
<1>8. WriterOK(u)'
  <2>1. CASE config = Garbled
    BY <1>1, <1>2, <1>4, <2>1 DEF WritersOK, WriterOK, DropToken, Finish, Goto, Contents, Empty, Content, NoToken, fileVars
  <2>2. CASE config # Garbled
    <3>1. [config EXCEPT !.token = NoToken] \in Contents
      BY <1>1, <2>2 DEF FilesOK, HubOK, Tokens, Contents, Empty, Content, NoToken
    <3>2. save'[u] \in Contents' /\ at'[u] = "open"
      BY <1>1, <1>2, <1>4, <2>2, <3>1 DEF WritersOK, DropToken, WillSave, Goto
    <3>3. QED
      BY <1>1, <1>2, <2>2, <3>2 DEF WritersOK, WriterOK, DropToken, fileVars
  <2>3. QED  BY <2>1, <2>2
<1>9. ClientOK'
  BY <1>1, <1>3 DEF ClientOK, HubOK, Tokens, DropToken, Finish, WillSave, AllFaults, hubVars, timeVars, fileVars, writerVars, clientVars
<1>10. QED  BY <1>3, <1>5, <1>6, <1>7, <1>8, <1>9 DEF TypeOK, HubOK, FilesOK, WritersOK, WriterOK, ClientOK

\* A command is killed.
LEMMA TypeKillCommand == ASSUME TypeOK, NEW u \in Users, KillCommand(u) PROVE TypeOK'
<1>1. HubOK /\ FilesOK /\ WritersOK /\ (\A v \in Writers : WriterOK(v)) /\ ClientOK
  BY Parts
<1>2. u \in Writers  BY DEF Writers
<1>3. minted' \in Nat /\ minted <= minted' /\ HubOK'
  BY <1>1, BoundAssumption DEF HubOK, KillCommand, Finish, Commit, Tokens, hubVars, timeVars, fileVars, writerVars, clientVars
<1>4. Contents \subseteq Contents'
  BY <1>1, <1>3 DEF HubOK, Contents, Tokens
<1>5. FilesOK'
  BY <1>1, <1>4 DEF FilesOK, KillCommand, Finish, Commit, hubVars, timeVars, fileVars, writerVars, clientVars
<1>6. WritersOK'
  BY <1>1, <1>2, <1>3 DEF WritersOK, FilesOK, HubOK, Tokens, KillCommand, Finish, Commit, Goto, Contents, Content, Empty, Garbled, NoToken, hubVars, timeVars, fileVars, writerVars, clientVars
<1>7. ASSUME NEW v \in Writers, v # u PROVE WriterOK(v)'
  BY <1>1, <1>2, <1>4, <1>7 DEF WritersOK, WriterOK, KillCommand, Finish, Commit, Goto, hubVars, timeVars, fileVars, writerVars, clientVars
<1>8. WriterOK(u)'
  BY <1>1, <1>2, <1>3, <1>4, AliasAssumption DEF WritersOK, WriterOK, HubOK, FilesOK, KillCommand, Finish, Commit, Goto, Contents, Content, Empty, Garbled, NoFile, NoToken, Tokens, hubVars, timeVars, fileVars, writerVars, clientVars
<1>9. ClientOK'
  BY <1>1, <1>3 DEF ClientOK, HubOK, Tokens, KillCommand, Finish, Commit, AllFaults, hubVars, timeVars, fileVars, writerVars, clientVars
<1>10. QED  BY <1>3, <1>5, <1>6, <1>7, <1>8, <1>9 DEF TypeOK, HubOK, FilesOK, WritersOK, WriterOK, ClientOK

\* A join is approved.
LEMMA TypeJoin == ASSUME TypeOK, NEW u \in Users, NEW a \in Aliases, Join(u, a) PROVE TypeOK'
<1>1. HubOK /\ FilesOK /\ WritersOK /\ (\A v \in Writers : WriterOK(v)) /\ ClientOK
  BY Parts
<1>2. u \in Writers  BY DEF Writers
<1>3. minted' \in Nat /\ minted <= minted' /\ HubOK'
  BY <1>1, BoundAssumption DEF HubOK, Join, Mint, WillSave, Room, Tokens, hubVars, timeVars, fileVars, writerVars, clientVars
<1>4. Contents \subseteq Contents'
  BY <1>1, <1>3 DEF HubOK, Contents, Tokens
<1>5. FilesOK'
  BY <1>1, <1>4 DEF FilesOK, Join, Mint, WillSave, Room, hubVars, timeVars, fileVars, writerVars, clientVars
<1>6. WritersOK'
  BY <1>1, <1>2, <1>3 DEF WritersOK, FilesOK, HubOK, Tokens, Join, Mint, WillSave, Room, Goto, Contents, Content, Empty, Garbled, NoToken, hubVars, timeVars, fileVars, writerVars, clientVars
<1>7. ASSUME NEW v \in Writers, v # u PROVE WriterOK(v)'
  BY <1>1, <1>2, <1>4, <1>7 DEF WritersOK, WriterOK, Join, Mint, WillSave, Room, Goto, hubVars, timeVars, fileVars, writerVars, clientVars
<1>8. WriterOK(u)'
  BY <1>1, <1>2, <1>3, <1>4, AliasAssumption DEF WritersOK, WriterOK, HubOK, FilesOK, Join, Mint, WillSave, Room, Goto, Contents, Content, Empty, Garbled, NoFile, NoToken, Tokens, hubVars, timeVars, fileVars, writerVars, clientVars
<1>9. ClientOK'
  BY <1>1, <1>3 DEF ClientOK, HubOK, Tokens, Join, Mint, WillSave, Room, AllFaults, hubVars, timeVars, fileVars, writerVars, clientVars
<1>10. QED  BY <1>3, <1>5, <1>6, <1>7, <1>8, <1>9 DEF TypeOK, HubOK, FilesOK, WritersOK, WriterOK, ClientOK

\* A join of somebody who is enrolled saves again what there is.
LEMMA TypeJoinEnrolled == ASSUME TypeOK, NEW u \in Users, JoinEnrolled(u) PROVE TypeOK'
<1>1. HubOK /\ FilesOK /\ WritersOK /\ (\A v \in Writers : WriterOK(v)) /\ ClientOK
  BY Parts
<1>2. Contents' = Contents /\ HubOK' /\ FilesOK' /\ ClientOK'
  BY <1>1 DEF JoinEnrolled, HubOK, FilesOK, ClientOK, Contents, hubVars, timeVars, fileVars, clientVars
<1>3. config \in Contents /\ config.token \in 0 .. minted /\ config.token # NoToken
  BY <1>1 DEF JoinEnrolled, Current, FilesOK, HubOK, Contents, Content, Empty, Garbled, NoToken, Tokens
<1>4. WritersOK'
  <2>1. config \in [alias : Aliases \cup {"nobody"}, token : 0 .. minted]
    BY <1>1, <1>3 DEF Contents, Content, Empty, NoToken, HubOK, Tokens
  <2>2. QED  BY <1>1, <1>3, <2>1 DEF WritersOK, JoinEnrolled, Goto, hubVars, fileVars
<1>5. ASSUME NEW v \in Writers, v # u PROVE WriterOK(v)'
  BY <1>1, <1>2, <1>5 DEF WritersOK, WriterOK, JoinEnrolled, Goto, fileVars
<1>6. u \in Writers => WriterOK(u)'
  BY <1>1, <1>2, <1>3 DEF WritersOK, WriterOK, JoinEnrolled, Goto, fileVars
<1>7. QED  BY <1>2, <1>4, <1>5, <1>6 DEF TypeOK, HubOK, FilesOK, WritersOK, WriterOK, ClientOK

\* The renewal thread ends.
LEMMA TypeThreadDies == ASSUME TypeOK, ThreadDies PROVE TypeOK'
  BY ThreadAssumption, AliasAssumption, BoundAssumption DEF ThreadDies, Finish, TypeOK, Contents, Content, Empty, Garbled, NoFile, NoToken, Tokens, Writers, Goto, hubVars, timeVars, fileVars, writerVars, clientVars

\* The supervisor starts the client or ends.
LEMMA TypeSupervise == ASSUME TypeOK, Supervise PROVE TypeOK'
<1>1. UNCHANGED <<hubVars, timeVars, fileVars, writerVars, setup, faults>>
  BY DEF Supervise
<1>2. client' \in {"supervisor", "running", "rejected", "ended"}
  BY DEF Supervise
<1>3. use' \in 1 .. minted
  BY AliasAssumption DEF TypeOK, Supervise, MayStart, Current, Contents, Content, Empty, Garbled, NoToken, Tokens
<1>4. QED
  BY <1>1, <1>2, <1>3 DEF TypeOK, Contents, hubVars, timeVars, fileVars, writerVars

\* The hub rejects the client's token.
LEMMA TypeRejected == ASSUME TypeOK, Rejected PROVE TypeOK'
  BY ThreadAssumption, AliasAssumption, BoundAssumption DEF Rejected, TypeOK, Contents, Content, Empty, Garbled, NoFile, NoToken, Tokens, Writers, Goto, hubVars, timeVars, fileVars, writerVars, clientVars

\* The client swaps its token or exits.
LEMMA TypeSwapOrExit == ASSUME TypeOK, SwapOrExit PROVE TypeOK'
<1>1. UNCHANGED <<hubVars, timeVars, fileVars, writerVars, setup>>
  BY DEF SwapOrExit
<1>2. client' \in {"supervisor", "running", "rejected", "ended"} /\ faults' \subseteq AllFaults
  BY BoundAssumption DEF TypeOK, SwapOrExit, Current, Renewed, Exits
<1>3. use' \in 1 .. minted
  BY AliasAssumption DEF TypeOK, SwapOrExit, Current, Renewed, Exits, Contents, Content, Empty, Garbled, NoFile, NoToken, Tokens
<1>4. QED
  BY <1>1, <1>2, <1>3 DEF TypeOK, Contents, hubVars, timeVars, fileVars, writerVars

\* The client gives its stream up.
LEMMA TypeGivesUp == ASSUME TypeOK, GivesUp PROVE TypeOK'
<1>1. UNCHANGED <<hubVars, timeVars, fileVars, writerVars, setup>>
  BY DEF GivesUp
<1>2. client' \in {"supervisor", "running", "rejected", "ended"} /\ faults' \subseteq AllFaults
  BY BoundAssumption DEF TypeOK, GivesUp, Exits, Commit, AllFaults
<1>3. use' \in 1 .. minted
  BY AliasAssumption DEF TypeOK, GivesUp, Exits, Commit, Contents, Content, Empty, Garbled, NoFile, NoToken, Tokens
<1>4. QED
  BY <1>1, <1>2, <1>3 DEF TypeOK, Contents, hubVars, timeVars, fileVars, writerVars

\* A token becomes due.
LEMMA TypeBecomeDue == ASSUME TypeOK, NEW t \in Tokens, BecomeDue(t) PROVE TypeOK'
  BY ThreadAssumption, AliasAssumption, BoundAssumption DEF BecomeDue, TypeOK, Contents, Content, Empty, Garbled, NoFile, NoToken, Tokens, Writers, Goto, hubVars, timeVars, fileVars, writerVars, clientVars

\* A token expires.
LEMMA TypeExpire == ASSUME TypeOK, NEW t \in Tokens, Expire(t) PROVE TypeOK'
  BY ThreadAssumption, AliasAssumption, BoundAssumption DEF Expire, TypeOK, Contents, Content, Empty, Garbled, NoFile, NoToken, Tokens, Writers, Goto, hubVars, timeVars, fileVars, writerVars, clientVars

\* Every step keeps the types.
LEMMA TypeNext == TypeOK /\ [Next]_vars => TypeOK'
<1> SUFFICES ASSUME TypeOK, [Next]_vars PROVE TypeOK'
  OBVIOUS
<1>1. \A w \in Writers : RenewLoads(w) => TypeOK'
  BY TypeRenewLoads
<1>2. \A w \in Writers : HubRenews(w) => TypeOK'
  BY TypeHubRenews
<1>3. \A w \in Writers : RenewRefused(w) => TypeOK'
  BY TypeRenewRefused
<1>4. \A w \in Writers : RenewLost(w) => TypeOK'
  BY TypeRenewLost
<1>5. \A w \in Writers : RenewCompares(w) => TypeOK'
  BY TypeRenewCompares
<1>6. \A w \in Writers : OpenTmp(w) => TypeOK'
  BY TypeOpenTmp
<1>7. \A w \in Writers : Flush(w) => TypeOK'
  BY TypeFlush
<1>8. \A w \in Writers : Replace(w) => TypeOK'
  BY TypeReplace
<1>9. \A u \in Users : LeaveLoads(u) => TypeOK'
  BY TypeLeaveLoads
<1>10. \A u \in Users : HubEvicts(u) => TypeOK'
  BY TypeHubEvicts
<1>11. \A u \in Users : DropToken(u) => TypeOK'
  BY TypeDropToken
<1>12. \A u \in Users : KillCommand(u) => TypeOK'
  BY TypeKillCommand
<1>13. \A u \in Users, a \in Aliases : Join(u, a) => TypeOK'
  BY TypeJoin
<1>14. \A u \in Users : JoinEnrolled(u) => TypeOK'
  BY TypeJoinEnrolled
<1>15. ThreadDies => TypeOK'
  BY TypeThreadDies
<1>16. Supervise => TypeOK'
  BY TypeSupervise
<1>17. Rejected => TypeOK'
  BY TypeRejected
<1>18. SwapOrExit => TypeOK'
  BY TypeSwapOrExit
<1>19. GivesUp => TypeOK'
  BY TypeGivesUp
<1>20. \A t \in Tokens : BecomeDue(t) => TypeOK'
  BY TypeBecomeDue
<1>21. \A t \in Tokens : Expire(t) => TypeOK'
  BY TypeExpire
<1>22. (UNCHANGED vars) => TypeOK'
  BY DEF TypeOK, Contents, vars, hubVars, timeVars, fileVars, writerVars, clientVars
<1>23. QED
  BY <1>1, <1>2, <1>3, <1>4, <1>5, <1>6, <1>7, <1>8, <1>9, <1>10, <1>11, <1>12, <1>13, <1>14, <1>15, <1>16, <1>17, <1>18, <1>19, <1>20, <1>21, <1>22 DEF Next

\* Type correctness of Credentials: what a writer holds at each of its steps,
\* for all values of the constants.
THEOREM TypeCorrect == Spec => []TypeOK
  BY TypeInit, TypeNext, PTL DEF Spec

-----------------------------------------------------------------------------
(* Identity and token *)

\* What a writer is going to save pairs an identity with a token of it, and
\* what the hub has renewed is for whom the old token was.
SaveMatches(w) ==
    /\ at[w] \in {"open", "flush", "replace"} /\ save[w].token # NoToken =>
          owner[save[w].token] = save[w].alias
    /\ at[w] = "compare" => owner[save[w].token] = owner[old[w]]
MatchInv == CredentialsMatch /\ \A w \in Writers : SaveMatches(w)

\* No step changes for whom a token was minted.
OwnersStay == \A t \in 1 .. minted : owner'[t] = owner[t]

\* The hub only ever adds tokens.
LEMMA MintAdds == ASSUME TypeOK, NEW a \in Aliases, Mint(a)
                  PROVE  minted' = minted + 1 /\ owner'[minted + 1] = a /\ OwnersStay
  BY BoundAssumption DEF TypeOK, Mint, Tokens, OwnersStay

\* A token in a file has been minted.
LEMMA FileTokens == ASSUME TypeOK, NEW c \in {config, tmp}, c.token # NoToken
                    PROVE  c.token \in 1 .. minted
  BY DEF TypeOK, Tokens, Contents, Empty, Content, Garbled, NoFile, NoToken

\* Files hold what they held, no token, or what somebody saves.
LEMMA FilesMatch ==
    ASSUME TypeOK, MatchInv, OwnersStay,
           \A c \in {config', tmp'} : \/ c \in {config, tmp} \/ c.token = NoToken
                                     \/ \E w \in Writers : at[w] = "flush" /\ c = save[w]
    PROVE  CredentialsMatch'
<1>1. SUFFICES ASSUME NEW c \in {config', tmp'}, c.token # NoToken PROVE owner'[c.token] = c.alias
  BY DEF CredentialsMatch
<1>2. CASE c \in {config, tmp}
  BY <1>1, <1>2, FileTokens DEF MatchInv, CredentialsMatch, OwnersStay
<1>3. ASSUME NEW w \in Writers, at[w] = "flush", c = save[w] PROVE owner'[c.token] = c.alias
  <2>1. c.token \in 1 .. minted
    BY <1>1, <1>3 DEF TypeOK, Tokens, NoToken
  <2>2. QED  BY <1>1, <1>3, <2>1 DEF MatchInv, SaveMatches, OwnersStay
<1>4. QED  BY <1>1, <1>2, <1>3

\* A writer keeps what it saves, or has nothing to save.
LEMMA SaveKept ==
    ASSUME TypeOK, MatchInv, OwnersStay, NEW w \in Writers,
           \/ at'[w] = at[w] /\ save'[w] = save[w] /\ old'[w] = old[w]
           \/ at'[w] \in {"flush", "replace"} /\ at[w] \in {"open", "flush"} /\ save'[w] = save[w]
           \/ at'[w] \in {"idle", "renew", "leave", "left"}
    PROVE  SaveMatches(w)'
<1>1. ASSUME at'[w] \in {"open", "flush", "replace"}, save'[w].token # NoToken
      PROVE owner'[save'[w].token] = save'[w].alias
  <2>1. save'[w] = save[w] /\ at[w] \in {"open", "flush", "replace"}
    BY <1>1
  <2>2. save[w].token \in 1 .. minted
    BY <1>1, <2>1 DEF TypeOK, Tokens, NoToken
  <2>3. QED  BY <1>1, <2>1, <2>2 DEF MatchInv, SaveMatches, OwnersStay
<1>2. ASSUME at'[w] = "compare" PROVE owner'[save'[w].token] = owner'[old'[w]]
  <2>1. at'[w] = at[w] /\ save'[w] = save[w] /\ old'[w] = old[w]
    BY <1>2
  <2>2. save[w].token \in 1 .. minted /\ old[w] \in 1 .. minted
    BY <1>2, <2>1 DEF TypeOK, Tokens, NoToken
  <2>3. QED  BY <1>2, <2>1, <2>2 DEF MatchInv, SaveMatches, OwnersStay
<1>3. QED  BY <1>1, <1>2 DEF SaveMatches

\* A renewal reads the token.
LEMMA MatchRenewLoads == ASSUME TypeOK, MatchInv, NEW w \in Writers, RenewLoads(w) PROVE MatchInv'
<1>1. OwnersStay
  BY DEF RenewLoads, hubVars, OwnersStay
<1>2. w \in Writers
  BY DEF Writers
<1>3. CredentialsMatch'
  BY <1>1, <1>2, FilesMatch DEF RenewLoads, fileVars, Empty, NoFile, Content, NoToken
<1>4. ASSUME NEW v \in Writers, v # w PROVE SaveMatches(v)'
  BY <1>1, <1>2, <1>4, SaveKept DEF TypeOK, RenewLoads, Goto
<1>5. SaveMatches(w)'
  BY <1>1, <1>2, SaveKept DEF TypeOK, RenewLoads, Goto
<1>6. QED  BY <1>3, <1>4, <1>5 DEF MatchInv

\* The hub renews.
LEMMA MatchHubRenews == ASSUME TypeOK, MatchInv, NEW w \in Writers, HubRenews(w) PROVE MatchInv'
<1>0. Live(old[w]) => owner[old[w]] \in Aliases
  BY BoundAssumption DEF TypeOK, Live, Tokens
<1>1. OwnersStay
  BY MintAdds, <1>0 DEF HubRenews
<1>2. w \in Writers
  BY DEF Writers
<1>3. CredentialsMatch'
  BY <1>1, <1>2, FilesMatch DEF HubRenews, fileVars, Empty, NoFile, Content, NoToken
<1>4. ASSUME NEW v \in Writers, v # w PROVE SaveMatches(v)'
  BY <1>1, <1>2, <1>4, SaveKept DEF TypeOK, HubRenews, Goto
<1>5. SaveMatches(w)'
  <2>1. minted' = minted + 1 /\ owner'[minted + 1] = owner[old[w]] /\ old[w] \in 1 .. minted
    BY <1>0, MintAdds DEF HubRenews, Live
  <2>2. at'[w] = "compare" /\ save'[w].token = minted + 1 /\ old'[w] = old[w]
    BY <1>2 DEF HubRenews, TypeOK, Goto
  <2>3. QED  BY <1>1, <2>1, <2>2 DEF SaveMatches, OwnersStay
<1>6. QED  BY <1>3, <1>4, <1>5 DEF MatchInv

\* The hub refuses to renew.
LEMMA MatchRenewRefused == ASSUME TypeOK, MatchInv, NEW w \in Writers, RenewRefused(w) PROVE MatchInv'
<1>1. OwnersStay
  BY DEF RenewRefused, hubVars, OwnersStay
<1>2. w \in Writers
  BY DEF Writers
<1>3. CredentialsMatch'
  BY <1>1, <1>2, FilesMatch DEF RenewRefused, Finish, fileVars, Empty, NoFile, Content, NoToken
<1>4. ASSUME NEW v \in Writers, v # w PROVE SaveMatches(v)'
  BY <1>1, <1>2, <1>4, SaveKept DEF TypeOK, RenewRefused, Finish, Goto
<1>5. SaveMatches(w)'
  BY <1>1, <1>2, SaveKept DEF TypeOK, RenewRefused, Finish, Goto
<1>6. QED  BY <1>3, <1>4, <1>5 DEF MatchInv

\* A renewal gets lost.
LEMMA MatchRenewLost == ASSUME TypeOK, MatchInv, NEW w \in Writers, RenewLost(w) PROVE MatchInv'
<1>0. Live(old[w]) => owner[old[w]] \in Aliases
  BY BoundAssumption DEF TypeOK, Live, Tokens
<1>1. OwnersStay
  BY MintAdds, <1>0 DEF RenewLost, hubVars, OwnersStay
<1>2. w \in Writers
  BY DEF Writers
<1>3. CredentialsMatch'
  BY <1>1, <1>2, FilesMatch DEF RenewLost, Finish, fileVars, Empty, NoFile, Content, NoToken
<1>4. ASSUME NEW v \in Writers, v # w PROVE SaveMatches(v)'
  BY <1>1, <1>2, <1>4, SaveKept DEF TypeOK, RenewLost, Finish, Goto
<1>5. SaveMatches(w)'
  BY <1>1, <1>2, SaveKept DEF TypeOK, RenewLost, Finish, Goto
<1>6. QED  BY <1>3, <1>4, <1>5 DEF MatchInv

\* A renewal compares the token.
LEMMA MatchRenewCompares == ASSUME TypeOK, MatchInv, NEW w \in Writers, RenewCompares(w) PROVE MatchInv'
<1>1. OwnersStay
  BY DEF RenewCompares, hubVars, OwnersStay
<1>2. w \in Writers
  BY DEF Writers
<1>3. CredentialsMatch'
  BY <1>1, <1>2, FilesMatch DEF RenewCompares, Finish, WillSave, fileVars, Empty, NoFile, Content, NoToken
<1>4. ASSUME NEW v \in Writers, v # w PROVE SaveMatches(v)'
  BY <1>1, <1>2, <1>4, SaveKept DEF TypeOK, RenewCompares, Finish, WillSave, Goto
<1>5. SaveMatches(w)'
  <2>1. CASE SameCredentials(w)
    <3>1. config.token = old[w] /\ old[w] # NoToken /\ save[w].token # NoToken /\ save[w].token \in 1 .. minted
      BY <1>2, <2>1 DEF TypeOK, RenewCompares, SameCredentials, Tokens, NoToken
    <3>2. owner[save[w].token] = owner[old[w]] /\ owner[old[w]] = config.alias
      BY <1>2, <3>1 DEF MatchInv, CredentialsMatch, SaveMatches, RenewCompares
    <3>3. config \in [alias : Aliases, token : 0 .. minted]
      BY <3>1 DEF TypeOK, Contents, Empty, Garbled, Content, NoToken
    <3>4. at'[w] = "open" /\ save'[w] = [config EXCEPT !.token = save[w].token]
      BY <1>2, <2>1 DEF TypeOK, RenewCompares, WillSave, Goto
    <3>5. save'[w].token = save[w].token /\ save'[w].alias = config.alias
      BY <3>3, <3>4
    <3>6. QED  BY <1>1, <3>1, <3>2, <3>4, <3>5 DEF SaveMatches, OwnersStay
  <2>2. CASE ~SameCredentials(w)
    BY <1>1, <1>2, <2>2, SaveKept DEF TypeOK, RenewCompares, Finish, Goto
  <2>3. QED  BY <2>1, <2>2
<1>6. QED  BY <1>3, <1>4, <1>5 DEF MatchInv

\* A writer opens the temporary file.
LEMMA MatchOpenTmp == ASSUME TypeOK, MatchInv, NEW w \in Writers, OpenTmp(w) PROVE MatchInv'
<1>1. OwnersStay
  BY DEF OpenTmp, hubVars, OwnersStay
<1>2. w \in Writers
  BY DEF Writers
<1>3. CredentialsMatch'
  BY <1>1, <1>2, FilesMatch DEF OpenTmp, fileVars, Empty, NoFile, Content, NoToken
<1>4. ASSUME NEW v \in Writers, v # w PROVE SaveMatches(v)'
  BY <1>1, <1>2, <1>4, SaveKept DEF TypeOK, OpenTmp, Goto
<1>5. SaveMatches(w)'
  BY <1>1, <1>2, SaveKept DEF TypeOK, OpenTmp, Goto
<1>6. QED  BY <1>3, <1>4, <1>5 DEF MatchInv

\* A writer writes.
LEMMA MatchFlush == ASSUME TypeOK, MatchInv, NEW w \in Writers, Flush(w) PROVE MatchInv'
<1>1. OwnersStay
  BY DEF Flush, hubVars, OwnersStay
<1>2. w \in Writers
  BY DEF Writers
<1>3. CredentialsMatch'
  <2>1. \A c \in {config', tmp'} : c \in {config, tmp, save[w], Garbled}
    BY DEF Flush, Written
  <2>2. QED  BY <1>1, <1>2, <2>1, FilesMatch DEF Flush, Garbled, Content, NoToken
<1>4. ASSUME NEW v \in Writers, v # w PROVE SaveMatches(v)'
  BY <1>1, <1>2, <1>4, SaveKept DEF TypeOK, Flush, Written, Goto
<1>5. SaveMatches(w)'
  BY <1>1, <1>2, SaveKept DEF TypeOK, Flush, Written, Goto
<1>6. QED  BY <1>3, <1>4, <1>5 DEF MatchInv

\* A writer renames.
LEMMA MatchReplace == ASSUME TypeOK, MatchInv, NEW w \in Writers, Replace(w) PROVE MatchInv'
<1>1. OwnersStay
  BY DEF Replace, hubVars, OwnersStay
<1>2. w \in Writers
  BY DEF Writers
<1>3. CredentialsMatch'
  BY <1>1, <1>2, FilesMatch DEF Replace, Finish, fileVars, Empty, NoFile, Content, NoToken
<1>4. ASSUME NEW v \in Writers, v # w PROVE SaveMatches(v)'
  BY <1>1, <1>2, <1>4, SaveKept DEF TypeOK, Replace, Finish, Goto
<1>5. SaveMatches(w)'
  BY <1>1, <1>2, SaveKept DEF TypeOK, Replace, Finish, Goto
<1>6. QED  BY <1>3, <1>4, <1>5 DEF MatchInv

\* A leave reads the token.
LEMMA MatchLeaveLoads == ASSUME TypeOK, MatchInv, NEW u \in Users, LeaveLoads(u) PROVE MatchInv'
<1>1. OwnersStay
  BY DEF LeaveLoads, hubVars, OwnersStay
<1>2. u \in Writers
  BY DEF Writers
<1>3. CredentialsMatch'
  BY <1>1, <1>2, FilesMatch DEF LeaveLoads, fileVars, Empty, NoFile, Content, NoToken
<1>4. ASSUME NEW v \in Writers, v # u PROVE SaveMatches(v)'
  BY <1>1, <1>2, <1>4, SaveKept DEF TypeOK, LeaveLoads, Goto
<1>5. SaveMatches(u)'
  BY <1>1, <1>2, SaveKept DEF TypeOK, LeaveLoads, Goto
<1>6. QED  BY <1>3, <1>4, <1>5 DEF MatchInv

\* The hub evicts.
LEMMA MatchHubEvicts == ASSUME TypeOK, MatchInv, NEW u \in Users, HubEvicts(u) PROVE MatchInv'
<1>1. OwnersStay
  BY DEF HubEvicts, hubVars, OwnersStay
<1>2. u \in Writers
  BY DEF Writers
<1>3. CredentialsMatch'
  BY <1>1, <1>2, FilesMatch DEF HubEvicts, Finish, fileVars, Empty, NoFile, Content, NoToken
<1>4. ASSUME NEW v \in Writers, v # u PROVE SaveMatches(v)'
  BY <1>1, <1>2, <1>4, SaveKept DEF TypeOK, HubEvicts, Finish, Goto
<1>5. SaveMatches(u)'
  BY <1>1, <1>2, SaveKept DEF TypeOK, HubEvicts, Finish, Goto
<1>6. QED  BY <1>3, <1>4, <1>5 DEF MatchInv

\* A leave drops the token.
LEMMA MatchDropToken == ASSUME TypeOK, MatchInv, NEW u \in Users, DropToken(u) PROVE MatchInv'
<1>1. OwnersStay
  BY DEF DropToken, hubVars, OwnersStay
<1>2. u \in Writers
  BY DEF Writers
<1>3. CredentialsMatch'
  BY <1>1, <1>2, FilesMatch DEF DropToken, Finish, WillSave, fileVars, Empty, NoFile, Content, NoToken
<1>4. ASSUME NEW v \in Writers, v # u PROVE SaveMatches(v)'
  BY <1>1, <1>2, <1>4, SaveKept DEF TypeOK, DropToken, Finish, WillSave, Goto
<1>5. SaveMatches(u)'
  <2>1. CASE config = Garbled
    BY <1>1, <1>2, <2>1, SaveKept DEF TypeOK, DropToken, Finish, Goto
  <2>2. CASE config # Garbled
    <3>1. at'[u] = "open" /\ save'[u] = [config EXCEPT !.token = NoToken]
      BY <1>2, <2>2 DEF TypeOK, DropToken, WillSave, Goto
    <3>2. save'[u].token = NoToken
      BY <2>2, <3>1 DEF TypeOK, Contents, Empty, Content
    <3>3. QED  BY <3>1, <3>2 DEF SaveMatches
  <2>3. QED  BY <2>1, <2>2
<1>6. QED  BY <1>3, <1>4, <1>5 DEF MatchInv

\* A command is killed.
LEMMA MatchKillCommand == ASSUME TypeOK, MatchInv, NEW u \in Users, KillCommand(u) PROVE MatchInv'
<1>1. OwnersStay
  BY DEF KillCommand, hubVars, OwnersStay
<1>2. u \in Writers
  BY DEF Writers
<1>3. CredentialsMatch'
  BY <1>1, <1>2, FilesMatch DEF KillCommand, Finish, fileVars, Empty, NoFile, Content, NoToken
<1>4. ASSUME NEW v \in Writers, v # u PROVE SaveMatches(v)'
  BY <1>1, <1>2, <1>4, SaveKept DEF TypeOK, KillCommand, Finish, Goto
<1>5. SaveMatches(u)'
  BY <1>1, <1>2, SaveKept DEF TypeOK, KillCommand, Finish, Goto
<1>6. QED  BY <1>3, <1>4, <1>5 DEF MatchInv

\* A join is approved.
LEMMA MatchJoin == ASSUME TypeOK, MatchInv, NEW u \in Users, NEW a \in Aliases, Join(u, a) PROVE MatchInv'
<1>1. OwnersStay
  BY MintAdds DEF Join
<1>2. u \in Writers
  BY DEF Writers
<1>3. CredentialsMatch'
  BY <1>1, <1>2, FilesMatch DEF Join, WillSave, fileVars, Empty, NoFile, Content, NoToken
<1>4. ASSUME NEW v \in Writers, v # u PROVE SaveMatches(v)'
  BY <1>1, <1>2, <1>4, SaveKept DEF TypeOK, Join, WillSave, Goto
<1>5. SaveMatches(u)'
  <2>1. at'[u] = "open" /\ save'[u] = Content(a, minted + 1)
    BY <1>2 DEF TypeOK, Join, WillSave, Goto
  <2>2. owner'[minted + 1] = a
    BY MintAdds DEF Join
  <2>3. QED  BY <2>1, <2>2 DEF SaveMatches, Content
<1>6. QED  BY <1>3, <1>4, <1>5 DEF MatchInv

\* A join of somebody who is enrolled saves again what there is.
LEMMA MatchJoinEnrolled == ASSUME TypeOK, MatchInv, NEW u \in Users, JoinEnrolled(u) PROVE MatchInv'
<1>1. OwnersStay
  BY DEF JoinEnrolled, hubVars, OwnersStay
<1>2. u \in Writers
  BY DEF Writers
<1>3. CredentialsMatch'
  BY <1>1, <1>2, FilesMatch DEF JoinEnrolled, fileVars, Empty, NoFile, Content, NoToken
<1>4. ASSUME NEW v \in Writers, v # u PROVE SaveMatches(v)'
  BY <1>1, <1>2, <1>4, SaveKept DEF TypeOK, JoinEnrolled, Goto
<1>5. SaveMatches(u)'
  <2>1. at'[u] = "open" /\ save'[u] = config
    BY <1>2 DEF TypeOK, JoinEnrolled, Goto
  <2>2. config.token # NoToken => config'.token = config.token /\ config' = config
    BY DEF JoinEnrolled, fileVars
  <2>3. QED  BY <1>3, <2>1, <2>2 DEF SaveMatches, CredentialsMatch
<1>6. QED  BY <1>3, <1>4, <1>5 DEF MatchInv

\* The renewal thread ends.
LEMMA MatchThreadDies == ASSUME TypeOK, MatchInv, ThreadDies PROVE MatchInv'
<1>1. OwnersStay
  BY DEF ThreadDies, hubVars, OwnersStay
<1>2. Thread \in Writers
  BY DEF Writers
<1>3. CredentialsMatch'
  BY <1>1, <1>2, FilesMatch DEF ThreadDies, Finish, fileVars, Empty, NoFile, Content, NoToken
<1>4. ASSUME NEW v \in Writers, v # Thread PROVE SaveMatches(v)'
  BY <1>1, <1>2, <1>4, SaveKept DEF TypeOK, ThreadDies, Finish, Goto
<1>5. SaveMatches(Thread)'
  BY <1>1, <1>2, SaveKept DEF TypeOK, ThreadDies, Finish, Goto
<1>6. QED  BY <1>3, <1>4, <1>5 DEF MatchInv

\* The supervisor starts the client or ends.
LEMMA MatchSupervise == ASSUME TypeOK, MatchInv, Supervise PROVE MatchInv'
  BY DEF Supervise, MatchInv, CredentialsMatch, SaveMatches, hubVars, fileVars, writerVars

\* The hub rejects the client's token.
LEMMA MatchRejected == ASSUME TypeOK, MatchInv, Rejected PROVE MatchInv'
  BY DEF Rejected, MatchInv, CredentialsMatch, SaveMatches, hubVars, fileVars, writerVars

\* The client swaps its token or exits.
LEMMA MatchSwapOrExit == ASSUME TypeOK, MatchInv, SwapOrExit PROVE MatchInv'
  BY DEF SwapOrExit, MatchInv, CredentialsMatch, SaveMatches, hubVars, fileVars, writerVars

\* The client gives its stream up.
LEMMA MatchGivesUp == ASSUME TypeOK, MatchInv, GivesUp PROVE MatchInv'
  BY DEF GivesUp, MatchInv, CredentialsMatch, SaveMatches, hubVars, fileVars, writerVars

\* A token becomes due.
LEMMA MatchBecomeDue == ASSUME TypeOK, MatchInv, NEW t \in Tokens, BecomeDue(t) PROVE MatchInv'
  BY DEF BecomeDue, MatchInv, CredentialsMatch, SaveMatches, hubVars, fileVars, writerVars

\* A token expires.
LEMMA MatchExpire == ASSUME TypeOK, MatchInv, NEW t \in Tokens, Expire(t) PROVE MatchInv'
  BY DEF Expire, MatchInv, CredentialsMatch, SaveMatches, hubVars, fileVars, writerVars

\* Every step keeps the pairs of identity and token.
LEMMA MatchNext == TypeOK /\ MatchInv /\ [Next]_vars => MatchInv'
<1> SUFFICES ASSUME TypeOK, MatchInv, [Next]_vars PROVE MatchInv'
  OBVIOUS
<1>1. \A w \in Writers : RenewLoads(w) => MatchInv'
  BY MatchRenewLoads
<1>2. \A w \in Writers : HubRenews(w) => MatchInv'
  BY MatchHubRenews
<1>3. \A w \in Writers : RenewRefused(w) => MatchInv'
  BY MatchRenewRefused
<1>4. \A w \in Writers : RenewLost(w) => MatchInv'
  BY MatchRenewLost
<1>5. \A w \in Writers : RenewCompares(w) => MatchInv'
  BY MatchRenewCompares
<1>6. \A w \in Writers : OpenTmp(w) => MatchInv'
  BY MatchOpenTmp
<1>7. \A w \in Writers : Flush(w) => MatchInv'
  BY MatchFlush
<1>8. \A w \in Writers : Replace(w) => MatchInv'
  BY MatchReplace
<1>9. \A u \in Users : LeaveLoads(u) => MatchInv'
  BY MatchLeaveLoads
<1>10. \A u \in Users : HubEvicts(u) => MatchInv'
  BY MatchHubEvicts
<1>11. \A u \in Users : DropToken(u) => MatchInv'
  BY MatchDropToken
<1>12. \A u \in Users : KillCommand(u) => MatchInv'
  BY MatchKillCommand
<1>13. \A u \in Users, a \in Aliases : Join(u, a) => MatchInv'
  BY MatchJoin
<1>14. \A u \in Users : JoinEnrolled(u) => MatchInv'
  BY MatchJoinEnrolled
<1>15. ThreadDies => MatchInv'
  BY MatchThreadDies
<1>16. Supervise => MatchInv'
  BY MatchSupervise
<1>17. Rejected => MatchInv'
  BY MatchRejected
<1>18. SwapOrExit => MatchInv'
  BY MatchSwapOrExit
<1>19. GivesUp => MatchInv'
  BY MatchGivesUp
<1>20. \A t \in Tokens : BecomeDue(t) => MatchInv'
  BY MatchBecomeDue
<1>21. \A t \in Tokens : Expire(t) => MatchInv'
  BY MatchExpire
<1>22. (UNCHANGED vars) => MatchInv'
  BY DEF MatchInv, CredentialsMatch, SaveMatches, vars, hubVars, fileVars, writerVars
<1>23. QED
  BY <1>1, <1>2, <1>3, <1>4, <1>5, <1>6, <1>7, <1>8, <1>9, <1>10, <1>11, <1>12, <1>13, <1>14, <1>15, <1>16, <1>17, <1>18, <1>19, <1>20, <1>21, <1>22 DEF Next

\* Nothing is saved initially but what belongs together.
LEMMA MatchInit == Init => MatchInv
  BY AliasAssumption, BoundAssumption
     DEF Init, MatchInv, CredentialsMatch, SaveMatches, Content, NoFile, NoToken, Tokens

\* However many terminals renew, leave and join while the renewal thread does
\* its work, whoever is killed and whatever is lost, and also when saves overlap
\* in the temporary file: no configuration pairs the identity of one enrolment
\* with the token of another.
THEOREM PairsMatch == Spec => []CredentialsMatch
<1>1. TypeOK /\ MatchInv /\ [Next]_vars => (TypeOK /\ MatchInv)'
  BY TypeNext, MatchNext
<1>2. MatchInv => CredentialsMatch
  BY DEF MatchInv
<1>3. QED  BY TypeInit, MatchInit, <1>1, <1>2, PTL DEF Spec
-----------------------------------------------------------------------------
(* Staying enrolled *)

\* The properties below hold of a machine that nobody made leave and whose
\* saves did not overlap.
Undisturbed == revoked = {} /\ "overlap" \notin faults

\* A token is tried when it is due, and not due before it has been minted.
TriedWhenDue ==
    \A t \in Tokens :
        /\ t > minted => age[t] = "young"
        /\ age[t] = "young" => tried[t] = 0

\* A token that is going to be saved for the first time is a new one, and one
\* writer's; the thread saves nothing again.
SavesNew ==
    \A w \in Writers : LET t == save[w].token IN t # NoToken /\ ~Resaves(w) =>
        /\ age[t] = "young"
        /\ Undisturbed => t # config.token
        /\ \A v \in Writers : save[v].token = t /\ ~Resaves(v) => v = w
ThreadRenews == ~Resaves(Thread)

\* Who drops the token has left; a client is refused for a token that is dead.
DropsAfterLeave == \A w \in Writers : at[w] = "left" => w # Thread /\ revoked # {}
RefusedForGood == client = "rejected" => ~Live(use)

\* One writer at a time has a file open, and it renames what it has written,
\* which is a token; what it saves again is what is saved.
SavesWhole ==
    Undisturbed => \A w \in Writers :
        /\ at[w] \in {"open", "flush", "replace"} => save[w].token # NoToken
        /\ at[w] = "flush" => file[w] = "tmp" /\ tmp = Empty
        /\ at[w] = "replace" => tmp = save[w]
        /\ at[w] \in {"flush", "replace"} /\ Resaves(w) => save[w] = config
        /\ \A v \in Saving : w \in Saving => v = w

\* The thread renews a token that has not expired.
ThreadInTime == at[Thread] # "idle" => at[Thread] # "leave" /\ age[old[Thread]] # "expired"

\* The saved token works, and the thread has failed to renew it once at most:
\* a try that is not lost ends with another token saved.
Failures == IF "lost_reply" \in faults THEN 1 ELSE 0
UnderWay == IF old[Thread] = config.token THEN 1 ELSE 0
Enrolled ==
    Undisturbed /\ Up =>
        /\ Current(config.token)
        /\ tried[config.token] <= Failures + UnderWay

EnrolInv ==
    /\ TriedWhenDue
    /\ SavesNew
    /\ ThreadRenews
    /\ DropsAfterLeave
    /\ RefusedForGood
    /\ SavesWhole
    /\ ThreadInTime
    /\ Enrolled
    /\ EndsForAReason

Acts(w) == \/ RenewLoads(w) \/ HubRenews(w) \/ RenewRefused(w) \/ RenewLost(w)
           \/ RenewCompares(w) \/ OpenTmp(w) \/ Flush(w) \/ Replace(w)
UserActs(u) == \/ LeaveLoads(u) \/ HubEvicts(u) \/ DropToken(u) \/ KillCommand(u) \/ JoinEnrolled(u)
               \/ \E a \in Aliases : Join(u, a)
ClientActs == Supervise \/ Rejected \/ SwapOrExit \/ GivesUp

\* The steps by who takes them.
LEMMA Actors ==
  ASSUME [Next]_vars
  PROVE  \/ \E w \in Writers : Acts(w)
         \/ \E u \in Users : UserActs(u)
         \/ ThreadDies
         \/ ClientActs
         \/ \E t \in Tokens : BecomeDue(t) \/ Expire(t)
         \/ UNCHANGED vars
  BY DEF Next, Acts, UserActs, ClientActs

\* Faults and evictions are not undone, and a client that has ended is gone.
LEMMA NothingUndone ==
  ASSUME TypeOK, [Next]_vars
  PROVE  /\ Undisturbed' => Undisturbed
         /\ revoked \subseteq revoked' /\ faults \subseteq faults' /\ setup' = setup
         /\ Up' => Up
<1>1. ASSUME NEW w \in Writers, Acts(w)
      PROVE  revoked' = revoked /\ faults \subseteq faults' /\ setup' = setup /\ client' = client
  BY <1>1 DEF Acts, RenewLoads, HubRenews, RenewRefused, RenewLost, RenewCompares, OpenTmp, Flush,
     Replace, Mint, Commit, hubVars, clientVars
<1>2. ASSUME NEW u \in Users, UserActs(u)
      PROVE  revoked \subseteq revoked' /\ faults \subseteq faults' /\ setup' = setup /\ client' = client
  BY <1>2 DEF UserActs, LeaveLoads, HubEvicts, DropToken, KillCommand, Join, JoinEnrolled, Mint, Commit, hubVars,
     clientVars
<1>3. ASSUME ClientActs
      PROVE  revoked \subseteq revoked' /\ faults \subseteq faults' /\ setup' = setup /\ (Up' => Up)
  BY <1>3 DEF ClientActs, Supervise, Rejected, SwapOrExit, GivesUp, Exits, Commit, Up, hubVars
<1>4. ASSUME ThreadDies \/ (\E t \in Tokens : BecomeDue(t) \/ Expire(t)) \/ UNCHANGED vars
      PROVE  revoked' = revoked /\ faults' = faults /\ setup' = setup /\ client' = client
  BY <1>4 DEF ThreadDies, BecomeDue, Expire, vars, hubVars, clientVars
<1>5. revoked \subseteq revoked' /\ faults \subseteq faults' /\ setup' = setup /\ (Up' => Up)
  BY <1>1, <1>2, <1>3, <1>4, Actors DEF Up
<1>6. QED  BY <1>5 DEF Undisturbed

\* A token ages only by time.
LEMMA Ageing ==
  ASSUME TypeOK, [Next]_vars
  PROVE  \/ age' = age
         \/ \E t \in Tokens : BecomeDue(t) \/ Expire(t)
<1>1. ASSUME NEW w \in Writers, Acts(w) PROVE age' = age
  BY <1>1 DEF Acts, RenewLoads, HubRenews, RenewRefused, RenewLost, RenewCompares, OpenTmp, Flush,
     Replace, timeVars
<1>2. ASSUME NEW u \in Users, UserActs(u) PROVE age' = age
  BY <1>2 DEF UserActs, LeaveLoads, HubEvicts, DropToken, KillCommand, Join, JoinEnrolled, timeVars
<1>3. CASE ClientActs \/ ThreadDies \/ UNCHANGED vars
  BY <1>3 DEF ClientActs, Supervise, Rejected, SwapOrExit, GivesUp, ThreadDies, vars, timeVars
<1>4. QED  BY <1>1, <1>2, <1>3, Actors

\* A try is counted when the thread begins it.
LEMMA Trying ==
  ASSUME TypeOK, [Next]_vars
  PROVE  \/ tried' = tried
         \/ /\ RenewLoads(Thread)
            /\ tried' = [tried EXCEPT ![config.token] = @ + 1]
<1>1. ASSUME NEW w \in Writers, Acts(w), ~RenewLoads(w) PROVE tried' = tried
  BY <1>1 DEF Acts, HubRenews, RenewRefused, RenewLost, RenewCompares, OpenTmp, Flush, Replace, timeVars
<1>2. ASSUME NEW w \in Writers, RenewLoads(w), tried' # tried
      PROVE  w = Thread /\ tried' = [tried EXCEPT ![config.token] = @ + 1]
  BY <1>2 DEF RenewLoads
<1>3. ASSUME NEW u \in Users, UserActs(u) PROVE tried' = tried
  BY <1>3 DEF UserActs, LeaveLoads, HubEvicts, DropToken, KillCommand, Join, JoinEnrolled, timeVars
<1>4. CASE \/ ClientActs \/ ThreadDies \/ UNCHANGED vars
           \/ \E t \in Tokens : BecomeDue(t) \/ Expire(t)
  BY <1>4 DEF ClientActs, Supervise, Rejected, SwapOrExit, GivesUp, ThreadDies, BecomeDue, Expire,
     vars, timeVars
<1>5. QED  BY <1>1, <1>2, <1>3, <1>4, Actors

\* What is to be saved is kept, dropped, or a token that is minted now.
NewSave(w) ==
    /\ minted' = minted + 1 /\ minted' \in Tokens
    /\ save'[w].token \in {NoToken, minted + 1} /\ old'[w] # minted + 1
    /\ \A v \in Writers \ {w} : save'[v] = save[v] /\ old'[v] = old[v]
    /\ UNCHANGED <<config, timeVars>>

\* Somebody is going to save again what he has read.
SavesAgain(u) ==
    /\ save'[u].token = config.token /\ old'[u] = config.token /\ config.token # NoToken
    /\ \A v \in Writers \ {u} : save'[v] = save[v] /\ old'[v] = old[v]
    /\ UNCHANGED <<minted, config, timeVars>>

SavesKept ==
    /\ minted' = minted
    /\ \A v \in Writers :
          save'[v].token # NoToken => save'[v].token = save[v].token /\ old'[v] = old[v]

\* Every step saves what there is, drops it, saves again what is saved, or mints
\* one token for one writer.
LEMMA Saves ==
  ASSUME TypeOK, [Next]_vars
  PROVE  \/ \E w \in Writers : NewSave(w)
         \/ \E u \in Users : SavesAgain(u)
         \/ SavesKept
<1>0. /\ save \in [Writers -> [alias : Aliases \cup {"nobody"}, token : 0 .. minted]]
      /\ old \in [Writers -> 0 .. minted]
      /\ minted \in Tokens /\ minted \in Nat /\ MaxTokens \in Nat
  BY BoundAssumption DEF TypeOK, Tokens
<1>a. /\ \A w \in Writers : at[w] = "idle" => save[w].token = NoToken /\ old[w] = NoToken
      /\ Empty.token = NoToken
  BY DEF TypeOK, Empty, Content
<1>b. ASSUME NEW w \in Writers, Finish(w), minted' = minted PROVE SavesKept
  BY <1>0, <1>a, <1>b DEF Finish, SavesKept
<1>1. ASSUME NEW w \in Writers, HubRenews(w) PROVE NewSave(w)
  <2>1. minted + 1 \in Tokens  BY <1>0, <1>1 DEF HubRenews, Mint, Tokens
  <2>2. old[w] # minted + 1  BY <1>0
  <2>3. QED  BY <1>0, <1>1, <2>1, <2>2 DEF HubRenews, Mint, NewSave, fileVars
<1>2. ASSUME NEW w \in Writers, RenewLost(w) PROVE NewSave(w) \/ SavesKept
  <2>1. CASE UNCHANGED hubVars
    BY <1>b, <1>2, <2>1 DEF RenewLost, hubVars
  <2>2. ASSUME NEW a, Mint(a) PROVE NewSave(w)
    <3>1. minted + 1 \in Tokens /\ minted' = minted + 1  BY <1>0, <2>2 DEF Mint, Tokens
    <3>2. save' = [save EXCEPT ![w] = Empty] /\ old' = [old EXCEPT ![w] = NoToken]
          /\ UNCHANGED <<config, timeVars>>
      BY <1>2 DEF RenewLost, Finish, fileVars
    <3>3. NoToken # minted + 1  BY <1>0 DEF NoToken
    <3>4. QED  BY <1>0, <1>a, <3>1, <3>2, <3>3 DEF NewSave
  <2>3. QED  BY <1>2, <2>1, <2>2 DEF RenewLost
<1>3. ASSUME NEW w \in Writers, Acts(w), ~HubRenews(w), ~RenewLost(w) PROVE SavesKept
  <2>1. CASE RenewLoads(w)
    BY <1>0, <1>a, <2>1 DEF RenewLoads, SavesKept, hubVars
  <2>2. CASE OpenTmp(w) \/ Flush(w)
    BY <2>2 DEF OpenTmp, Flush, SavesKept, hubVars
  <2>3. CASE RenewRefused(w) \/ Replace(w)
    BY <1>b, <2>3 DEF RenewRefused, Replace, hubVars
  <2>4. CASE RenewCompares(w)
    <3>1. CASE Finish(w)
      BY <1>b, <2>4, <3>1 DEF RenewCompares, hubVars
    <3>2. CASE WillSave(w, [config EXCEPT !.token = save[w].token])
      <4>1. [config EXCEPT !.token = save[w].token].token = save[w].token
        BY DEF TypeOK, Contents, Empty, Content, Garbled
      <4>2. QED  BY <1>0, <2>4, <3>2, <4>1 DEF RenewCompares, WillSave, SavesKept, hubVars
    <3>3. QED  BY <2>4, <3>1, <3>2 DEF RenewCompares
  <2>5. QED  BY <1>3, <2>1, <2>2, <2>3, <2>4 DEF Acts
<1>4. ASSUME NEW u \in Users, NEW a \in Aliases, Join(u, a) PROVE NewSave(u) /\ u \in Writers
  <2>1. u \in Writers  BY DEF Writers
  <2>2. minted + 1 \in Tokens  BY <1>0, <1>4 DEF Join, Mint, Tokens
  <2>3. old[u] # minted + 1  BY <1>0, <2>1
  <2>4. QED  BY <1>0, <1>4, <2>1, <2>2, <2>3 DEF Join, Mint, WillSave, Content, NewSave, fileVars
<1>5. ASSUME NEW u \in Users, LeaveLoads(u) \/ HubEvicts(u) \/ DropToken(u) \/ KillCommand(u)
      PROVE  SavesKept
  <2>1. u \in Writers  BY DEF Writers
  <2>2. CASE LeaveLoads(u)
    BY <1>0, <1>a, <2>1, <2>2 DEF LeaveLoads, SavesKept, hubVars
  <2>3. CASE Finish(u)
    BY <1>b, <1>5, <2>1, <2>3 DEF LeaveLoads, HubEvicts, DropToken, KillCommand, hubVars
  <2>4. CASE HubEvicts(u) /\ UNCHANGED <<old, save>>
    BY <2>4 DEF HubEvicts, SavesKept
  <2>5. CASE WillSave(u, [config EXCEPT !.token = NoToken]) /\ DropToken(u)
    <3> DEFINE d == [config EXCEPT !.token = NoToken]
    <3>1. d.token = NoToken
      BY DEF TypeOK, Contents, Empty, Content, Garbled
    <3>2. save' = [save EXCEPT ![u] = d] /\ old' = old /\ minted' = minted
      BY <2>5 DEF WillSave, DropToken, hubVars
    <3> HIDE DEF d
    <3>3. QED  BY <1>0, <2>1, <3>1, <3>2 DEF SavesKept
  <2>6. QED
    BY <1>5, <2>2, <2>3, <2>4, <2>5 DEF HubEvicts, DropToken, KillCommand
<1>6. ASSUME NEW u \in Users, JoinEnrolled(u) PROVE SavesAgain(u)
  <2>1. u \in Writers  BY DEF Writers
  <2>2. QED
    BY <1>0, <1>6, <2>1 DEF JoinEnrolled, Current, SavesAgain, hubVars, fileVars
<1>7. CASE ThreadDies
  BY <1>b, <1>7 DEF ThreadDies, hubVars, Writers
<1>8. CASE ClientActs \/ (\E t \in Tokens : BecomeDue(t) \/ Expire(t)) \/ UNCHANGED vars
  BY <1>8 DEF ClientActs, Supervise, Rejected, SwapOrExit, GivesUp, BecomeDue, Expire, SavesKept,
     vars, hubVars, writerVars
<1>9. QED  BY <1>1, <1>2, <1>3, <1>4, <1>5, <1>6, <1>7, <1>8, Actors DEF UserActs

\* The thread saves nothing again.
LEMMA RenewsNext ==
  ASSUME TypeOK, ThreadRenews, [Next]_vars
  PROVE  ThreadRenews'
<1> SUFFICES ASSUME save'[Thread].token = old'[Thread], save'[Thread].token # NoToken PROVE FALSE
  BY DEF ThreadRenews, Resaves
<1>1. Thread \in Writers /\ Thread \notin Users  BY ThreadAssumption DEF Writers
<1>2. ASSUME save'[Thread].token = save[Thread].token, old'[Thread] = old[Thread] PROVE FALSE
  BY <1>2 DEF ThreadRenews, Resaves
<1>3. ASSUME NEW w \in Writers, NewSave(w) PROVE FALSE
  BY <1>1, <1>2, <1>3 DEF NewSave
<1>4. ASSUME NEW u \in Users, SavesAgain(u) PROVE FALSE
  BY <1>1, <1>2, <1>4 DEF SavesAgain
<1>5. ASSUME SavesKept PROVE FALSE
  BY <1>1, <1>2, <1>5 DEF SavesKept
<1>6. QED  BY <1>3, <1>4, <1>5, Saves

\* While saves do not overlap, the configuration is replaced by a whole save.
LEMMA Replacing ==
  ASSUME TypeOK, SavesWhole, [Next]_vars, Undisturbed'
  PROVE  \/ config' = config
         \/ \E w \in Writers : Replace(w) /\ config' = save[w] /\ save[w].token # NoToken
<1>0. Undisturbed  BY NothingUndone
<1>1. ASSUME NEW w \in Writers, Flush(w) PROVE config' = config
  BY <1>0, <1>1 DEF Flush, SavesWhole
<1>2. ASSUME NEW w \in Writers, Replace(w), config' # config
      PROVE  config' = save[w] /\ save[w].token # NoToken
  BY <1>0, <1>2 DEF Replace, SavesWhole, fileVars
<1>3. ASSUME NEW w \in Writers, Acts(w), ~Flush(w), ~Replace(w) PROVE config' = config
  BY <1>3 DEF Acts, RenewLoads, HubRenews, RenewRefused, RenewLost, RenewCompares, OpenTmp, fileVars
<1>4. ASSUME NEW u \in Users, UserActs(u) PROVE config' = config
  BY <1>4 DEF UserActs, LeaveLoads, HubEvicts, DropToken, KillCommand, Join, JoinEnrolled, fileVars
<1>5. CASE \/ ClientActs \/ ThreadDies \/ UNCHANGED vars
           \/ \E t \in Tokens : BecomeDue(t) \/ Expire(t)
  BY <1>5 DEF ClientActs, Supervise, Rejected, SwapOrExit, GivesUp, ThreadDies, BecomeDue, Expire,
     vars, fileVars
<1>6. QED  BY <1>1, <1>2, <1>3, <1>4, <1>5, Actors

\* Each part of the invariant is kept.
LEMMA TriedNext ==
  ASSUME TypeOK, TriedWhenDue, [Next]_vars
  PROVE  TriedWhenDue'
<1>1. minted <= minted' /\ minted \in Nat /\ minted' \in Nat
  BY Saves DEF NewSave, SavesAgain, SavesKept, TypeOK, Tokens
<1>2. age \in [Tokens -> {"young", "due", "expired"}] /\ tried \in [Tokens -> 0 .. Checks]
  BY DEF TypeOK
<1>3. ASSUME NEW t \in Tokens, t > minted' PROVE age'[t] = "young"
  <2>1. t > minted  BY <1>1, <1>3 DEF Tokens
  <2>2. age[t] = "young"  BY <2>1 DEF TriedWhenDue
  <2>3. ASSUME NEW s \in Tokens, BecomeDue(s) \/ Expire(s) PROVE age'[t] = age[t]
    BY <1>1, <1>2, <2>1, <2>3, BoundAssumption DEF BecomeDue, Expire, Tokens
  <2>4. QED  BY <2>2, <2>3, Ageing
<1>4. ASSUME NEW t \in Tokens, age'[t] = "young" PROVE tried'[t] = 0
  <2>1. age[t] = "young"
    BY <1>2, <1>4, Ageing DEF BecomeDue, Expire
  <2>2. tried[t] = 0  BY <2>1 DEF TriedWhenDue
  <2>3. ASSUME RenewLoads(Thread) PROVE age[config.token] = "due"
    BY <2>3 DEF RenewLoads
  <2>4. QED  BY <1>2, <2>1, <2>2, <2>3, Trying
<1>5. QED  BY <1>3, <1>4 DEF TriedWhenDue

\* What a writer is going to save stays new: tokens to save differ, and from
\* the saved one.
LEMMA SavesNewNext ==
  ASSUME TypeOK, TriedWhenDue, SavesWhole, SavesNew, [Next]_vars
  PROVE  SavesNew'
<1>0. /\ save \in [Writers -> [alias : Aliases \cup {"nobody"}, token : 0 .. minted]]
      /\ minted \in Tokens /\ minted \in Nat
      /\ age \in [Tokens -> {"young", "due", "expired"}]
      /\ config.token \in 0 .. minted
  BY DEF TypeOK, Tokens, Contents, Empty, Content, Garbled, NoToken
<1> DEFINE Fresh(w) == save[w].token # NoToken /\ ~Resaves(w)
           Goal(w) == /\ age'[save'[w].token] = "young"
                      /\ Undisturbed' => save'[w].token # config'.token
                      /\ \A v \in Writers : save'[v].token = save'[w].token /\ ~Resaves(v)' => v = w
<1>a. SUFFICES ASSUME NEW w \in Writers, Fresh(w)' PROVE Goal(w)
  BY DEF SavesNew
<1>b. Undisturbed' => Undisturbed  BY NothingUndone
<1>c. \A v \in Writers : save[v].token \in 0 .. minted  BY <1>0
<1>d. ASSUME NEW v \in Writers, save'[v].token = save[v].token, old'[v] = old[v]
      PROVE  Resaves(v)' <=> Resaves(v)
  BY <1>d DEF Resaves
<1>1. ASSUME NEW u \in Writers, NewSave(u) PROVE Goal(w)
  <2>1. /\ save'[u].token \in {NoToken, minted + 1} /\ minted + 1 \in Tokens
        /\ config' = config /\ age' = age
        /\ \A v \in Writers \ {u} : save'[v] = save[v] /\ old'[v] = old[v]
    BY <1>1 DEF NewSave, timeVars
  <2>2. age[minted + 1] = "young"  BY <1>0, <2>1 DEF TriedWhenDue
  <2>3. minted + 1 \notin 0 .. minted  BY <1>0
  <2>4. CASE w = u
    <3>1. save'[w].token = minted + 1  BY <1>a, <2>1, <2>4
    <3>2. \A v \in Writers \ {w} : save'[v].token # minted + 1
      BY <1>c, <2>1, <2>3, <2>4
    <3>3. QED  BY <1>0, <2>1, <2>2, <2>3, <3>1, <3>2
  <2>5. CASE w # u
    <3>1. save'[w] = save[w] /\ Fresh(w)  BY <1>a, <1>d, <2>1, <2>5
    <3>2. save'[w].token # NoToken /\ save'[w].token # minted + 1
      BY <1>a, <1>c, <2>3, <3>1
    <3>3. ASSUME NEW v \in Writers, save'[v].token = save'[w].token, ~Resaves(v)' PROVE v = w
      <4>1. v # u  BY <2>1, <3>2, <3>3
      <4>2. save[v].token = save[w].token /\ ~Resaves(v)  BY <1>d, <2>1, <3>1, <3>3, <4>1
      <4>3. QED  BY <3>1, <4>2 DEF SavesNew
    <3>4. QED  BY <1>b, <2>1, <3>1, <3>3 DEF SavesNew
  <2>6. QED  BY <2>4, <2>5
<1>2. ASSUME NEW u \in Users, SavesAgain(u) PROVE Goal(w)
  <2>1. Resaves(u)'  BY <1>2 DEF SavesAgain, Resaves
  <2>2. \A v \in Writers : v # u => save'[v] = save[v] /\ old'[v] = old[v]
    BY <1>2 DEF SavesAgain
  <2>3. config' = config /\ age' = age  BY <1>2 DEF SavesAgain, timeVars
  <2>4. save'[w] = save[w] /\ Fresh(w)  BY <1>a, <1>d, <2>1, <2>2
  <2>5. ASSUME NEW v \in Writers, save'[v].token = save'[w].token, ~Resaves(v)' PROVE v = w
    <3>1. save[v].token = save[w].token /\ ~Resaves(v)  BY <1>d, <2>1, <2>2, <2>4, <2>5
    <3>2. QED  BY <2>4, <3>1 DEF SavesNew
  <2>6. QED  BY <1>b, <2>3, <2>4, <2>5 DEF SavesNew
<1>3. ASSUME SavesKept PROVE Goal(w)
  <2> DEFINE t == save[w].token
  <2>1. save'[w].token = t /\ t # NoToken /\ t \in Tokens
    BY <1>0, <1>a, <1>3, BoundAssumption DEF SavesKept, Tokens, NoToken
  <2>2. Fresh(w)  BY <1>a, <1>d, <1>3 DEF SavesKept
  <2>3. age[t] = "young"  BY <2>2 DEF SavesNew
  <2>4. age'[t] = "young"
    BY <1>0, <2>1, <2>3, Ageing DEF BecomeDue, Expire
  <2>5. ASSUME NEW v \in Writers, save'[v].token = t, ~Resaves(v)' PROVE v = w
    <3>1. save[v].token = t /\ ~Resaves(v)  BY <1>d, <1>3, <2>1, <2>5 DEF SavesKept
    <3>2. QED  BY <2>2, <3>1 DEF SavesNew
  <2>6. ASSUME Undisturbed' PROVE t # config'.token
    <3>1. t # config.token  BY <1>b, <2>2, <2>6 DEF SavesNew
    <3>2. ASSUME NEW v \in Writers, Replace(v), config' = save[v], save[v].token = t PROVE FALSE
      <4>1. save'[v].token = NoToken
        BY <1>0, <3>2 DEF Replace, Finish, Empty, Content, NoToken
      <4>2. v # w  BY <2>1, <4>1
      <4>3. Resaves(v)  BY <2>2, <3>2, <4>2 DEF SavesNew
      <4>4. at[v] = "replace" /\ Undisturbed  BY <1>b, <2>6, <3>2 DEF Replace
      <4>5. save[v] = config  BY <4>3, <4>4 DEF SavesWhole
      <4>6. QED  BY <3>1, <3>2, <4>5
    <3>3. QED  BY <2>6, <3>1, <3>2, Replacing
  <2>7. QED  BY <2>1, <2>4, <2>5, <2>6
<1>4. QED  BY <1>1, <1>2, <1>3, Saves

\* Only a command that has evicted somebody is about to drop a token.
LEMMA DropsNext ==
  ASSUME TypeOK, DropsAfterLeave, [Next]_vars
  PROVE  DropsAfterLeave'
<1> SUFFICES ASSUME NEW w \in Writers, at'[w] = "left" PROVE w # Thread /\ revoked' # {}
  BY DEF DropsAfterLeave
<1>0. /\ at \in [Writers -> {"idle", "renew", "compare", "leave", "left", "open", "flush", "replace"}]
      /\ revoked \subseteq revoked'
  BY NothingUndone DEF TypeOK
<1>1. CASE at[w] = "left"
  BY <1>0, <1>1 DEF DropsAfterLeave
<1>2. CASE at[w] # "left"
  <2>1. ASSUME NEW v \in Writers, Acts(v) PROVE at'[w] # "left"
    BY <1>0, <1>2, <2>1 DEF Acts, RenewLoads, HubRenews, RenewRefused, RenewLost, RenewCompares,
       OpenTmp, Flush, Replace, WillSave, Finish, Goto
  <2>2. ASSUME NEW u \in Users, UserActs(u), ~HubEvicts(u) PROVE at'[w] # "left"
    BY <1>0, <1>2, <2>2 DEF UserActs, LeaveLoads, DropToken, KillCommand, Join, JoinEnrolled, WillSave, Finish,
       Goto, Writers
  <2>3. ASSUME NEW u \in Users, HubEvicts(u), at'[w] = "left" PROVE w = u /\ revoked' # {}
    <3>1. Live(old[u]) /\ w = u
      BY <1>0, <1>2, <2>3 DEF HubEvicts, Finish, Goto, Writers
    <3>2. old[u] \in {t \in 1 .. minted : owner[t] = owner[old[u]]}
      BY <3>1 DEF Live
    <3>3. QED  BY <2>3, <3>1, <3>2 DEF HubEvicts
  <2>4. CASE ClientActs \/ ThreadDies \/ (\E t \in Tokens : BecomeDue(t) \/ Expire(t)) \/ UNCHANGED vars
    BY <1>0, <1>2, <2>4 DEF ClientActs, Supervise, Rejected, SwapOrExit, GivesUp, ThreadDies,
       BecomeDue, Expire, Finish, Goto, vars, writerVars
  <2>5. QED  BY <2>1, <2>2, <2>3, <2>4, Actors, ThreadAssumption
<1>3. QED  BY <1>1, <1>2

\* A client that was refused has a token that never works again.
LEMMA RefusedNext ==
  ASSUME TypeOK, TriedWhenDue, RefusedForGood, [Next]_vars
  PROVE  RefusedForGood'
<1> SUFFICES ASSUME client' = "rejected" PROVE ~Live(use)'
  BY DEF RefusedForGood
<1>0. use \in 1 .. minted /\ minted \in Tokens /\ age \in [Tokens -> {"young", "due", "expired"}]
  BY DEF TypeOK
<1>1. use \in Tokens  BY <1>0, BoundAssumption DEF Tokens
<1>2. revoked \subseteq revoked'  BY NothingUndone
<1>3. age[use] = "expired" => age'[use] = "expired"
  BY <1>0, <1>1, Ageing DEF BecomeDue, Expire
<1>4. use' = use /\ ~Live(use)
  <2>1. ASSUME NEW w \in Writers, Acts(w) PROVE client' = client /\ use' = use
    BY <2>1 DEF Acts, RenewLoads, HubRenews, RenewRefused, RenewLost, RenewCompares, OpenTmp, Flush,
       Replace, clientVars
  <2>2. ASSUME NEW u \in Users, UserActs(u) PROVE client' = client /\ use' = use
    BY <2>2 DEF UserActs, LeaveLoads, HubEvicts, DropToken, KillCommand, Join, JoinEnrolled, clientVars
  <2>3. ASSUME ThreadDies \/ (\E t \in Tokens : BecomeDue(t) \/ Expire(t)) \/ UNCHANGED vars
        PROVE  client' = client /\ use' = use
    BY <2>3 DEF ThreadDies, BecomeDue, Expire, vars, clientVars
  <2>4. ASSUME ClientActs PROVE use' = use /\ ~Live(use)
    BY <2>4 DEF ClientActs, Supervise, Rejected, SwapOrExit, GivesUp, Exits
  <2>5. QED  BY <2>1, <2>2, <2>3, <2>4, Actors DEF RefusedForGood
<1>5. QED  BY <1>0, <1>1, <1>2, <1>3, <1>4 DEF Live

\* Every saver keeps to itself.
LEMMA WholeNext ==
  ASSUME TypeOK, TriedWhenDue, SavesNew, DropsAfterLeave, SavesWhole, [Next]_vars
  PROVE  SavesWhole'
<1> SUFFICES ASSUME Undisturbed', NEW w \in Writers
    PROVE /\ at'[w] \in {"open", "flush", "replace"} => save'[w].token # NoToken
          /\ at'[w] = "flush" => file'[w] = "tmp" /\ tmp' = Empty
          /\ at'[w] = "replace" => tmp' = save'[w]
          /\ at'[w] \in {"flush", "replace"} /\ Resaves(w)' => save'[w] = config'
          /\ \A v \in Writers : {v, w} \subseteq Saving' => v = w
  BY DEF SavesWhole, Saving
<1> USE DEF NoToken
<1>0. /\ at \in [Writers -> {"idle", "renew", "compare", "leave", "left", "open", "flush", "replace"}]
      /\ save \in [Writers -> [alias : Aliases \cup {"nobody"}, token : 0 .. minted]]
      /\ file \in [Writers -> {"closed", "tmp", "config", "gone"}]
      /\ old \in [Writers -> 0 .. minted]
      /\ minted \in Nat
  BY DEF TypeOK, Tokens
<1>1. Undisturbed  BY NothingUndone
<1>2. /\ \A v \in Writers : at[v] \in {"open", "flush", "replace"} => save[v].token # 0
      /\ \A v \in Writers : at[v] = "flush" => file[v] = "tmp" /\ tmp = Empty
      /\ \A v \in Writers : at[v] = "replace" => tmp = save[v]
      /\ \A v \in Writers : at[v] \in {"flush", "replace"} /\ Resaves(v) => save[v] = config
      /\ \A u, v \in Writers : {u, v} \subseteq Saving => u = v
  BY <1>1 DEF SavesWhole
<1>3. ASSUME NEW v \in Writers,
             RenewLoads(v) \/ HubRenews(v) \/ RenewRefused(v) \/ RenewLost(v) \/ RenewCompares(v)
      PROVE /\ at[v] \notin {"open", "flush", "replace"} /\ at'[v] \notin {"flush", "replace"}
            /\ tmp' = tmp /\ file' = file /\ config' = config
            /\ \A u \in Writers \ {v} : at'[u] = at[u] /\ save'[u] = save[u] /\ old'[u] = old[u]
            /\ at'[v] = "open" => save'[v].token # 0
  <2>1. CASE RenewLoads(v) \/ HubRenews(v) \/ RenewRefused(v) \/ RenewLost(v)
    BY <1>0, <1>3, <2>1
       DEF RenewLoads, HubRenews, RenewRefused, RenewLost, Finish, Goto, fileVars
  <2>2. CASE RenewCompares(v)
    <3>1. [config EXCEPT !.token = save[v].token].token = save[v].token
      BY DEF TypeOK, Contents, Empty, Content, Garbled
    <3>2. save[v].token # 0  BY <2>2 DEF RenewCompares, TypeOK
    <3>3. at'[v] = "open" => save'[v].token # 0
      BY <1>0, <2>2, <3>1, <3>2 DEF RenewCompares, WillSave, Finish, Goto
    <3>4. QED  BY <1>0, <2>2, <3>3 DEF RenewCompares, WillSave, Finish, Goto, fileVars
  <2>3. QED  BY <1>3, <2>1, <2>2
<1>4. ASSUME NEW v \in Users, LeaveLoads(v) \/ HubEvicts(v) \/ DropToken(v) \/ JoinEnrolled(v)
                             \/ \E a \in Aliases : Join(v, a)
      PROVE /\ v \in Writers
            /\ at[v] \notin {"open", "flush", "replace"} /\ at'[v] \notin {"flush", "replace"}
            /\ tmp' = tmp /\ file' = file /\ config' = config
            /\ \A u \in Writers \ {v} : at'[u] = at[u] /\ save'[u] = save[u] /\ old'[u] = old[u]
            /\ at'[v] = "open" => save'[v].token # 0
  <2>0. v \in Writers  BY DEF Writers
  <2>1. ~DropToken(v)  BY <1>1, <2>0 DEF DropToken, DropsAfterLeave, Undisturbed
  <2>2. CASE LeaveLoads(v) \/ HubEvicts(v)
    BY <1>0, <2>0, <2>2 DEF LeaveLoads, HubEvicts, Finish, Goto, fileVars
  <2>3. CASE \E a \in Aliases : Join(v, a)
    BY <1>0, <2>0, <2>3 DEF Join, WillSave, Goto, Content, fileVars
  <2>4. CASE JoinEnrolled(v)
    BY <1>0, <2>0, <2>4 DEF JoinEnrolled, Current, Goto, fileVars
  <2>5. QED  BY <1>4, <2>1, <2>2, <2>3, <2>4
<1>5. ASSUME NEW v \in Writers, OpenTmp(v)
      PROVE  /\ Saving = {} /\ at[v] = "open" /\ at' = [at EXCEPT ![v] = "flush"] /\ save' = save
             /\ tmp' = Empty /\ file'[v] = "tmp" /\ ~Outdated(v) /\ UNCHANGED <<old, config>>
  BY <1>0, <1>5 DEF OpenTmp, Commit, Undisturbed, Goto
<1>6. ASSUME NEW v \in Writers, Flush(v)
      PROVE  /\ at[v] = "flush" /\ at' = [at EXCEPT ![v] = "replace"] /\ save' = save
             /\ tmp' = save[v] /\ UNCHANGED <<old, config>>
  BY <1>0, <1>2, <1>6 DEF Flush, Written, Goto
<1>7. ASSUME NEW v \in Writers,
             Replace(v) \/ (v \in Users /\ KillCommand(v)) \/ (v = Thread /\ ThreadDies)
      PROVE  /\ at'[v] = "idle"
             /\ \A u \in Writers \ {v} : at'[u] = at[u] /\ save'[u] = save[u] /\ old'[u] = old[u]
             /\ at[v] = "replace" \/ (tmp' = tmp /\ config' = config /\ \A u \in Writers \ {v} : file'[u] = file[u])
  BY <1>0, <1>7 DEF Replace, KillCommand, ThreadDies, Finish, Goto
<1>8. ASSUME ClientActs \/ (\E t \in Tokens : BecomeDue(t) \/ Expire(t)) \/ UNCHANGED vars
      PROVE  UNCHANGED <<at, save, old, tmp, file, config>>
  BY <1>8 DEF ClientActs, Supervise, Rejected, SwapOrExit, GivesUp, BecomeDue, Expire, vars,
     fileVars, writerVars
<1> DEFINE Goal == /\ at'[w] \in {"open", "flush", "replace"} => save'[w].token # 0
                   /\ at'[w] = "flush" => file'[w] = "tmp" /\ tmp' = Empty
                   /\ at'[w] = "replace" => tmp' = save'[w]
                   /\ at'[w] \in {"flush", "replace"} /\ Resaves(w)' => save'[w] = config'
                   /\ \A v \in Writers : {v, w} \subseteq Saving' => v = w
<1>9. \A v \in Writers : RenewLoads(v) \/ HubRenews(v) \/ RenewRefused(v) \/ RenewLost(v) \/ RenewCompares(v)
        => Goal
  BY <1>2, <1>3 DEF Saving, Resaves
<1>10. \A v \in Users : LeaveLoads(v) \/ HubEvicts(v) \/ DropToken(v) \/ JoinEnrolled(v)
                            \/ (\E a \in Aliases : Join(v, a)) => Goal
  BY <1>2, <1>4 DEF Saving, Resaves
<1>11. \A v \in Writers : OpenTmp(v) => Goal
  BY <1>0, <1>2, <1>5 DEF Saving, Resaves, Outdated
<1>12. \A v \in Writers : Flush(v) => Goal
  BY <1>0, <1>2, <1>6 DEF Saving, Resaves
<1>13. \A v \in Writers :
         Replace(v) \/ (v \in Users /\ KillCommand(v)) \/ (v = Thread /\ ThreadDies) => Goal
  BY <1>2, <1>7 DEF Saving, Resaves
<1>14. ClientActs \/ (\E t \in Tokens : BecomeDue(t) \/ Expire(t)) \/ UNCHANGED vars => Goal
  BY <1>2, <1>8 DEF Saving, Resaves
<1>15. QED  BY <1>9, <1>10, <1>11, <1>12, <1>13, <1>14, Actors DEF Acts, UserActs, Writers

\* The thread never leaves, and what it renews does not expire meanwhile.
LEMMA ThreadNext ==
  ASSUME TypeOK, DropsAfterLeave, ThreadInTime, [Next]_vars
  PROVE  ThreadInTime'
<1> SUFFICES ASSUME at'[Thread] # "idle" PROVE at'[Thread] # "leave" /\ age'[old'[Thread]] # "expired"
  BY DEF ThreadInTime
<1>0. /\ at \in [Writers -> {"idle", "renew", "compare", "leave", "left", "open", "flush", "replace"}]
      /\ old \in [Writers -> 0 .. minted] /\ minted \in Tokens /\ config.token \in 0 .. minted
      /\ age \in [Tokens -> {"young", "due", "expired"}] /\ Thread \in Writers
  BY DEF TypeOK, Contents, Empty, Content, Garbled, NoToken, Tokens, Writers
<1>1. CASE RenewLoads(Thread)
  BY <1>0, <1>1 DEF RenewLoads, Current, Goto
<1>2. CASE ~RenewLoads(Thread)
  <2>1. at[Thread] # "idle" /\ at'[Thread] # "leave" /\ old'[Thread] = old[Thread]
    <3>1. ASSUME NEW w \in Writers, Acts(w)
          PROVE  at[Thread] # "idle" /\ at'[Thread] # "leave" /\ old'[Thread] = old[Thread]
      BY <1>0, <1>2, <3>1 DEF Acts, RenewLoads, HubRenews, RenewRefused, RenewLost, RenewCompares,
         OpenTmp, Flush, Replace, WillSave, Finish, Goto, ThreadInTime
    <3>2. ASSUME NEW u \in Users, UserActs(u)
          PROVE  at'[Thread] = at[Thread] /\ old'[Thread] = old[Thread]
      BY <1>0, <3>2, ThreadAssumption DEF UserActs, LeaveLoads, HubEvicts, DropToken, KillCommand,
         Join, JoinEnrolled, WillSave, Finish, Goto
    <3>3. ASSUME ClientActs \/ (\E t \in Tokens : BecomeDue(t) \/ Expire(t)) \/ UNCHANGED vars
          PROVE  at' = at /\ old' = old
      BY <3>3 DEF ClientActs, Supervise, Rejected, SwapOrExit, GivesUp, BecomeDue, Expire, vars,
         writerVars
    <3>4. ~ThreadDies  BY <1>0 DEF ThreadDies, Finish, Goto
    <3>5. QED  BY <3>1, <3>2, <3>3, <3>4, Actors DEF ThreadInTime
  <2>2. age[old[Thread]] # "expired"  BY <2>1 DEF ThreadInTime
  <2>3. ASSUME NEW t \in Tokens, Expire(t) PROVE FALSE
    BY <2>1, <2>3 DEF Expire
  <2>4. ASSUME NEW t \in Tokens, BecomeDue(t) PROVE age'[old[Thread]] # "expired"
    BY <1>0, <2>2, <2>4 DEF BecomeDue
  <2>5. QED  BY <2>1, <2>2, <2>3, <2>4, Ageing
<1>3. QED  BY <1>1, <1>2

\* Retries outlast what gets lost: a fault of a kind happens once, and the
\* thread tries twice at least.  (The code tries twelve times.)
RetriesSuffice == Checks > 1

\* The saved token goes on working: it expires only after the tries it was
\* given, one of which must have got through.
LEMMA EnrolledNext ==
  ASSUME RetriesSuffice, TypeOK, TriedWhenDue, SavesNew, ThreadRenews, DropsAfterLeave, RefusedForGood,
         SavesWhole, ThreadInTime, Enrolled, [Next]_vars
  PROVE  Enrolled'
<1> SUFFICES ASSUME Undisturbed', Up'
             PROVE  /\ Current(config.token)'
                    /\ tried'[config'.token] <= Failures' + UnderWay'
  BY DEF Enrolled
<1> USE DEF NoToken
<1> DEFINE t == config.token
<1>0. /\ at \in [Writers -> {"idle", "renew", "compare", "leave", "left", "open", "flush", "replace"}]
      /\ old \in [Writers -> 0 .. minted] /\ minted \in Tokens /\ minted \in Nat
      /\ age \in [Tokens -> {"young", "due", "expired"}] /\ Thread \in Writers
      /\ tried \in [Tokens -> 0 .. Checks] /\ Checks \in Nat
      /\ 1 .. minted \subseteq Tokens /\ t \in 0 .. minted
  BY BoundAssumption DEF TypeOK, Contents, Empty, Content, Garbled, Tokens, Writers
<1>1. Undisturbed /\ Up /\ faults \subseteq faults'
  BY NothingUndone
<1>2. t # 0 /\ t \in Tokens /\ age[t] # "expired" /\ tried[t] <= Failures + UnderWay
  BY <1>0, <1>1 DEF Enrolled, Current
<1>3. Failures \in {0, 1} /\ Failures' \in {0, 1} /\ Failures <= Failures'
      /\ UnderWay \in {0, 1} /\ UnderWay' \in {0, 1} /\ tried[t] \in Nat
  BY <1>0, <1>1, <1>2 DEF Failures, UnderWay
<1>4. CASE config' # config
  <2>1. PICK w \in Writers : Replace(w) /\ config' = save[w] /\ save[w].token # 0
    BY <1>1, <1>4, Replacing
  <2>2. age[save[w].token] = "young" /\ save[w].token \in Tokens
    <3>1. at[w] = "replace"  BY <2>1 DEF Replace
    <3>2. ~Resaves(w)  BY <1>1, <1>4, <2>1, <3>1 DEF SavesWhole
    <3>3. QED  BY <1>0, <2>1, <3>2 DEF SavesNew, TypeOK
  <2>3. tried[save[w].token] = 0  BY <2>2 DEF TriedWhenDue
  <2>4. age' = age /\ tried' = tried  BY <2>1 DEF Replace, timeVars
  <2>5. QED  BY <1>3, <2>1, <2>2, <2>3, <2>4 DEF Current
<1>5. CASE config' = config
  <2>1. age'[t] # "expired"
    <3>1. ASSUME NEW s \in Tokens, Expire(s), s = t PROVE FALSE
      <4>1. tried[t] = Checks /\ at[Thread] = "idle"
        BY <1>1, <3>1 DEF Expire
      <4>2. UnderWay = 0
        BY <1>0, <1>2, <4>1 DEF UnderWay, TypeOK
      <4>3. QED  BY <1>0, <1>2, <1>3, <4>1, <4>2 DEF RetriesSuffice
    <3>2. ASSUME NEW s \in Tokens, Expire(s), s # t PROVE age'[t] # "expired"
      BY <1>0, <1>2, <3>2 DEF Expire
    <3>3. ASSUME NEW s \in Tokens, BecomeDue(s) PROVE age'[t] # "expired"
      BY <1>0, <1>2, <3>3 DEF BecomeDue
    <3>4. QED  BY <1>2, <3>1, <3>2, <3>3, Ageing
  <2>2. CASE RenewLoads(Thread)
    <3>1. at[Thread] = "idle" /\ old'[Thread] = t /\ faults' = faults /\ tried'[t] <= tried[t] + 1
      BY <1>0, <1>2, <2>2 DEF RenewLoads, Goto
    <3>2. UnderWay = 0 /\ UnderWay' = 1
      BY <1>0, <1>2, <1>5, <3>1 DEF UnderWay, TypeOK
    <3>3. tried'[t] \in Nat  BY <1>0, <1>2, <2>2 DEF RenewLoads
    <3>4. Failures' = Failures  BY <3>1 DEF Failures
    <3>5. QED  BY <1>2, <1>3, <1>5, <2>1, <3>1, <3>2, <3>3, <3>4 DEF Current
  <2>3. CASE ~RenewLoads(Thread)
    <3>1. tried' = tried  BY <2>3, Trying
    <3>2. CASE old'[Thread] = old[Thread]
      <4>1. UnderWay' = UnderWay  BY <1>5, <3>2 DEF UnderWay
      <4>2. QED  BY <1>2, <1>3, <1>5, <2>1, <3>1, <4>1 DEF Current
    <3>3. CASE old'[Thread] # old[Thread] /\ old[Thread] # t
      <4>1. UnderWay = 0  BY <3>3 DEF UnderWay
      <4>2. QED  BY <1>2, <1>3, <1>5, <2>1, <3>1, <4>1 DEF Current
    <3>4. CASE old'[Thread] # old[Thread] /\ old[Thread] = t
      <4>1. RenewRefused(Thread) \/ RenewLost(Thread) \/ RenewCompares(Thread) \/ Replace(Thread)
        <5>1. ASSUME NEW w \in Writers, Acts(w)
              PROVE  RenewRefused(Thread) \/ RenewLost(Thread) \/ RenewCompares(Thread) \/ Replace(Thread)
          BY <1>0, <2>3, <3>4, <5>1 DEF Acts, RenewLoads, HubRenews, RenewRefused, RenewLost,
             RenewCompares, OpenTmp, Flush, Replace, WillSave, Finish
        <5>2. ASSUME NEW u \in Users, UserActs(u) PROVE FALSE
          BY <1>0, <3>4, <5>2, ThreadAssumption DEF UserActs, LeaveLoads, HubEvicts, DropToken,
             KillCommand, Join, JoinEnrolled, WillSave, Finish
        <5>3. ASSUME ClientActs \/ (\E s \in Tokens : BecomeDue(s) \/ Expire(s)) \/ UNCHANGED vars
              PROVE  FALSE
          BY <3>4, <5>3 DEF ClientActs, Supervise, Rejected, SwapOrExit, GivesUp, BecomeDue, Expire,
             vars, writerVars
        <5>4. ~ThreadDies  BY <1>1 DEF ThreadDies
        <5>5. QED  BY <5>1, <5>2, <5>3, <5>4, Actors
      <4>2. ~RenewRefused(Thread)
        BY <1>0, <1>1, <1>2, <3>4 DEF RenewRefused, Live, Undisturbed
      <4>3. ~(RenewCompares(Thread))
        BY <3>4 DEF RenewCompares, SameCredentials, WillSave
      <4>4. ~Replace(Thread)
        <5>1. ASSUME Replace(Thread) PROVE FALSE
          <6>1. tmp = save[Thread] /\ save[Thread].token # 0 /\ save[Thread].token # t
            BY <1>0, <1>1, <5>1 DEF Replace, SavesWhole, SavesNew, ThreadRenews
          <6>2. tmp # NoFile  BY <6>1 DEF NoFile, Content
          <6>3. config' = save[Thread]  BY <5>1, <6>1, <6>2 DEF Replace
          <6>4. QED  BY <1>5, <6>1, <6>3
        <5>2. QED  BY <5>1
      <4>5. CASE RenewLost(Thread)
        <5>1. Failures = 0 /\ Failures' = 1  BY <4>5 DEF RenewLost, Commit, Failures
        <5>2. QED  BY <1>2, <1>3, <1>5, <2>1, <3>1, <5>1 DEF Current
      <4>6. QED  BY <4>1, <4>2, <4>3, <4>4, <4>5
    <3>5. QED  BY <3>2, <3>3, <3>4
  <2>4. QED  BY <2>2, <2>3
<1>6. QED  BY <1>4, <1>5

\* An enrolled client that nobody disturbs ends only when the network is gone or
\* its configuration is elsewhere.
LEMMA EndsNext ==
  ASSUME TypeOK, RefusedForGood, Enrolled, EndsForAReason, [Next]_vars
  PROVE  EndsForAReason'
<1> SUFFICES ASSUME client' = "ended", Undisturbed',
                    setup'.supervised \/ ("network" \notin faults' /\ setup'.default)
             PROVE  FALSE
  BY DEF EndsForAReason, Undisturbed
<1>1. Undisturbed /\ setup' = setup /\ faults \subseteq faults'
  BY NothingUndone
<1>2. Up  BY <1>1 DEF EndsForAReason, Undisturbed, Up
<1>3. Current(config.token)  BY <1>1, <1>2 DEF Enrolled
<1>4. ClientActs
  <2>1. ASSUME NEW w \in Writers, Acts(w) PROVE FALSE
    BY <1>2, <2>1 DEF Up, Acts, RenewLoads, HubRenews, RenewRefused, RenewLost, RenewCompares,
       OpenTmp, Flush, Replace, clientVars
  <2>2. ASSUME NEW u \in Users, UserActs(u) PROVE FALSE
    BY <1>2, <2>2 DEF Up, UserActs, LeaveLoads, HubEvicts, DropToken, KillCommand, Join, JoinEnrolled, clientVars
  <2>3. ASSUME ThreadDies \/ (\E t \in Tokens : BecomeDue(t) \/ Expire(t)) \/ UNCHANGED vars PROVE FALSE
    BY <1>2, <2>3 DEF Up, ThreadDies, BecomeDue, Expire, vars, clientVars
  <2>4. QED  BY <2>1, <2>2, <2>3, Actors
<1>5. ~Supervise  BY <1>3 DEF Supervise, MayStart
<1>6. ~Rejected  BY DEF Rejected
<1>7. ~GivesUp  BY <1>1 DEF GivesUp, Exits, Commit
<1>8. ~SwapOrExit
  <2>1. ASSUME SwapOrExit PROVE FALSE
    <3>1. client = "rejected" /\ ~setup.supervised /\ ~(Current(Renewed) /\ Renewed # use)
      BY <2>1 DEF SwapOrExit, Exits
    <3>2. Renewed = config.token  BY <1>1, <3>1 DEF Renewed
    <3>3. use = config.token  BY <1>3, <3>1, <3>2
    <3>4. Live(use)
      BY <1>1, <1>3, <3>3 DEF Live, Current, Undisturbed, TypeOK
    <3>5. QED  BY <3>1, <3>4 DEF RefusedForGood
  <2>2. QED  BY <2>1
<1>9. QED  BY <1>4, <1>5, <1>6, <1>7, <1>8 DEF ClientActs

\* A machine starts enrolled.
LEMMA EnrolInit == ASSUME Init PROVE EnrolInv
  BY ThreadAssumption, BoundAssumption
     DEF Init, EnrolInv, TriedWhenDue, SavesNew, ThreadRenews, Resaves, DropsAfterLeave, RefusedForGood, SavesWhole, Saving,
         ThreadInTime, Enrolled, EndsForAReason, Current, Failures, UnderWay, Up, Undisturbed, Empty,
         Content, NoToken, Tokens, Writers

\* While every kind of request gets lost once at most and the thread tries
\* twice or more before a token expires, a client that ends does so for one of
\* the reasons that EndsForAReason names, whatever renewals, joins, restarts
\* and kills interleave.
THEOREM StaysEnrolled ==
  ASSUME RetriesSuffice
  PROVE  Spec => []EndsForAReason
<1>1. TypeOK /\ EnrolInv /\ [Next]_vars => EnrolInv'
  <2> SUFFICES ASSUME TypeOK, EnrolInv, [Next]_vars PROVE EnrolInv'
    OBVIOUS
  <2> USE DEF EnrolInv
  <2>1. TriedWhenDue' /\ SavesNew' /\ ThreadRenews'  BY TriedNext, SavesNewNext, RenewsNext
  <2>2. DropsAfterLeave' /\ RefusedForGood' /\ SavesWhole' /\ ThreadInTime'
    BY DropsNext, RefusedNext, WholeNext, ThreadNext
  <2>3. Enrolled' /\ EndsForAReason'  BY EnrolledNext, EndsNext
  <2>4. QED  BY <2>1, <2>2, <2>3
<1>2. Init => EnrolInv  BY EnrolInit
<1>3. EnrolInv => EndsForAReason  BY DEF EnrolInv
<1>4. QED  BY <1>1, <1>2, <1>3, TypeCorrect, PTL DEF Spec
=============================================================================
