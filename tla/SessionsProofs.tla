--------------------------- MODULE SessionsProofs ---------------------------
(***************************************************************************)
(* What holds of Sessions for every set of users, browsers and calls, in   *)
(* whatever trouble.                                                       *)
(***************************************************************************)
EXTENDS Sessions, SequenceTheorems, TLAPS

LEMMA FunctionIsSeq ==
  ASSUME NEW S, NEW n \in Nat, NEW f \in [1 .. n -> S]
  PROVE  f \in Seq(S) /\ Len(f) = n
<1>1. f \in Seq(S)
  OBVIOUS
<1> QED
  BY <1>1, LenProperties

Browsers(n) == [Browser -> BrowserState(n)]
Calls(n)    == [Browser -> [Call -> CallState(n)]]

\* With more grants, what was well formed stays so.
LEMMA MoreGrants ==
  ASSUME NEW m \in Nat, NEW n \in Nat, m <= n
  PROVE  Browsers(m) \subseteq Browsers(n) /\ Calls(m) \subseteq Calls(n)
<1>1. BrowserState(m) \subseteq BrowserState(n) /\ CallState(m) \subseteq CallState(n)
  BY DEF BrowserState, CallState
<1> QED
  BY <1>1 DEF Browsers, Calls

LEMMA SetCallTyped ==
  ASSUME NEW n, calls \in Calls(n), NEW b \in Browser, NEW c \in Call, NEW state \in CallState(n),
         SetCall(b, c, state)
  PROVE  calls' \in Calls(n)
  BY DEF SetCall, Calls

LEMMA IdleTyped == ASSUME NEW n \in Nat PROVE Idle \in CallState(n)
  BY DEF Idle, CallState, Phase

LEMMA ToTyped ==
  ASSUME NEW n \in Nat, NEW phase \in Phase, NEW arg \in 0 .. n
  PROVE  To(phase, arg) \in CallState(n)
  BY DEF To, CallState

LEMMA CallMovedTyped ==
  ASSUME NEW n, NEW state \in CallState(n), NEW phase \in Phase, NEW arg \in 0 .. n
  PROVE  [state EXCEPT !.phase = phase, !.arg = arg] \in CallState(n)
  BY DEF CallState

LEMMA SuccessorTyped ==
  ASSUME NEW row \in Grant, NEW parent \in Nat
  PROVE  [row EXCEPT !.parent = parent] \in Grant
  BY DEF Grant

LEMMA ClearedTyped ==
  ASSUME NEW n \in Nat, NEW jars \in Browsers(n), NEW b \in Browser
  PROVE  /\ [jars EXCEPT ![b].token = 0] \in Browsers(n)
         /\ [jars EXCEPT ![b].signingIn = Nobody] \in Browsers(n)
         /\ [jars EXCEPT ![b].logout = 0] \in Browsers(n)
  BY DEF Browsers, BrowserState

LEMMA EndSessionTyped ==
  ASSUME NEW n \in Nat, browsers \in Browsers(n), NEW b \in Browser, EndSession(b)
  PROVE  browsers' \in Browsers(n)
  BY DEF EndSession, Browsers, BrowserState

\* The UPDATEs of refresh_tokens set revoked_at and nothing else.
Same(table, other) ==
  /\ other \in Seq(Grant)
  /\ Len(other) = Len(table)
  /\ \A g \in 1 .. Len(table) :
       /\ other[g].user = table[g].user
       /\ other[g].browser = table[g].browser
       /\ other[g].login = table[g].login
       /\ other[g].parent = table[g].parent
       /\ table[g].revoked => other[g].revoked

LEMMA RevokeAllSame ==
  ASSUME NEW u, NEW table \in Seq(Grant)
  PROVE  Same(table, RevokeAll(u, table))
<1> DEFINE other == RevokeAll(u, table)
<1>1. DOMAIN table = 1 .. Len(table) /\ Len(table) \in Nat
  BY LenProperties
<1>2. \A g \in 1 .. Len(table) : table[g] \in Grant
  BY ElementOfSeq
<1>3. other \in [1 .. Len(table) -> Grant]
  BY <1>1, <1>2 DEF RevokeAll, Grant
<1>4. other \in Seq(Grant) /\ Len(other) = Len(table)
  BY <1>1, <1>3, FunctionIsSeq
<1>5. \A g \in 1 .. Len(table) : other[g] = [table[g] EXCEPT !.revoked = @ \/ table[g].user = u]
  BY <1>1 DEF RevokeAll
<1> HIDE DEF other
<1>6. ASSUME NEW g \in 1 .. Len(table)
      PROVE  /\ other[g].user = table[g].user
             /\ other[g].browser = table[g].browser
             /\ other[g].login = table[g].login
             /\ other[g].parent = table[g].parent
             /\ table[g].revoked => other[g].revoked
  <2>1. table[g] \in Grant /\ other[g] = [table[g] EXCEPT !.revoked = @ \/ table[g].user = u]
    BY <1>2, <1>5
  <2> QED
    BY <2>1 DEF Grant
<1> QED
  BY <1>4, <1>6 DEF Same, other

LEMMA RevokeOneSame ==
  ASSUME NEW table \in Seq(Grant), NEW g \in 1 .. Len(table)
  PROVE  /\ Same(table, [table EXCEPT ![g].revoked = TRUE])
         /\ [table EXCEPT ![g].revoked = TRUE][g].revoked
<1>1. DOMAIN table = 1 .. Len(table) /\ Len(table) \in Nat
  BY LenProperties
<1>2. \A h \in 1 .. Len(table) : table[h] \in Grant
  BY ElementOfSeq
<1>3. table \in [1 .. Len(table) -> Grant]
  BY <1>1, <1>2
<1> DEFINE other == [table EXCEPT ![g].revoked = TRUE]
<1>4. other \in [1 .. Len(table) -> Grant]
  BY <1>3 DEF Grant
<1>5. other \in Seq(Grant) /\ Len(other) = Len(table)
  BY <1>1, <1>4, FunctionIsSeq
<1>6. \A h \in 1 .. Len(table) :
        other[h] = IF h = g THEN [table[h] EXCEPT !.revoked = TRUE] ELSE table[h]
  BY <1>3
<1> HIDE DEF other
<1>7. ASSUME NEW h \in 1 .. Len(table)
      PROVE  /\ other[h].user = table[h].user
             /\ other[h].browser = table[h].browser
             /\ other[h].login = table[h].login
             /\ other[h].parent = table[h].parent
             /\ table[h].revoked => other[h].revoked
             /\ h = g => other[h].revoked
  <2>1. table[h] \in Grant
    BY <1>2
  <2>2. other[h] = IF h = g THEN [table[h] EXCEPT !.revoked = TRUE] ELSE table[h]
    BY <1>6
  <2> QED
    BY <2>1, <2>2 DEF Grant
<1>8. other[g].revoked
  BY <1>7
<1> QED
  BY <1>5, <1>7, <1>8 DEF Same, other
-----------------------------------------------------------------------------
(* The table *)

\* What the rows of grants are to each other: tokens are numbered after the
\* login and the parent they come from.
Numbered(table) ==
  \A g \in 1 .. Len(table) : table[g].parent < g /\ table[g].login <= g

Chain(table) ==
  \A g, h \in 1 .. Len(table) :
    g < h /\ table[g].login = table[h].login
      => table[g].revoked /\ table[g].parent # table[h].parent

Orderly(table) == table \in Seq(Grant) /\ Numbered(table) /\ Chain(table)

LEMMA SameOrderly ==
  ASSUME NEW table, Orderly(table), NEW other, Same(table, other)
  PROVE  Orderly(other)
<1>1. Numbered(other)
  BY DEF Orderly, Numbered, Same
<1>2. Chain(other)
  BY DEF Orderly, Chain, Same
<1> QED
  BY <1>1, <1>2 DEF Orderly, Same

\* A row of the longer table is a row of the shorter one or the new one.
LEMMA Appended ==
  ASSUME NEW table \in Seq(Grant), NEW row \in Grant
  PROVE  /\ Append(table, row) \in Seq(Grant)
         /\ Len(table) \in Nat
         /\ Len(Append(table, row)) = Len(table) + 1
         /\ \A g \in 1 .. Len(table) : Append(table, row)[g] = table[g] /\ table[g] \in Grant
         /\ Append(table, row)[Len(table) + 1] = row
  BY AppendProperties, LenProperties, ElementOfSeq

\* A login starts a chain of its own.
LEMMA LoginOrderly ==
  ASSUME NEW table, Orderly(table), NEW row \in Grant,
         row.login = Len(table) + 1, row.parent = 0
  PROVE  Orderly(Append(table, row))
<1> DEFINE longer == Append(table, row)
<1>1. table \in Seq(Grant)
  BY DEF Orderly
<1>2. /\ longer \in Seq(Grant)
      /\ Len(table) \in Nat
      /\ Len(longer) = Len(table) + 1
      /\ \A g \in 1 .. Len(table) : longer[g] = table[g] /\ table[g] \in Grant
      /\ longer[Len(table) + 1] = row
  BY <1>1, Appended
<1> HIDE DEF longer
<1>3. Numbered(longer)
  BY <1>2 DEF Numbered, Orderly
<1>4. ASSUME NEW x \in 1 .. Len(longer), NEW y \in 1 .. Len(longer),
             x < y, longer[x].login = longer[y].login
      PROVE  longer[x].revoked /\ longer[x].parent # longer[y].parent
  <2>1. x \in 1 .. Len(table)
    BY <1>2, <1>4
  <2>2. CASE y \in 1 .. Len(table)
    BY <1>2, <1>4, <2>1, <2>2 DEF Chain, Orderly
  <2>3. CASE y = Len(table) + 1
    <3>1. longer[x].login <= x /\ longer[x].login \in Nat
      BY <1>2, <2>1 DEF Numbered, Orderly, Grant
    <3> QED
      BY <1>2, <1>4, <2>1, <2>3, <3>1
  <2> QED
    BY <1>2, <2>2, <2>3
<1>5. Chain(longer)
  BY <1>4 DEF Chain
<1> QED
  BY <1>2, <1>3, <1>5 DEF Orderly, longer

\* A refresh lengthens the chain of the token it was made with: the token was
\* unrevoked, hence the newest of its chain, and nothing descends from it yet.
LEMMA RotationOrderly ==
  ASSUME NEW table, Orderly(table), NEW g \in 1 .. Len(table), ~table[g].revoked
  PROVE  Orderly(Append([table EXCEPT ![g].revoked = TRUE], [table[g] EXCEPT !.parent = g]))
<1> DEFINE other  == [table EXCEPT ![g].revoked = TRUE]
           row    == [table[g] EXCEPT !.parent = g]
           longer == Append(other, row)
<1>1. table \in Seq(Grant) /\ Len(table) \in Nat /\ table[g] \in Grant
  BY LenProperties, ElementOfSeq DEF Orderly
<1>2. Same(table, other) /\ other[g].revoked
  BY <1>1, RevokeOneSame
<1>3. row \in Grant /\ row.login = table[g].login /\ row.parent = g
  BY <1>1 DEF Grant
<1> HIDE DEF other, row
<1>4. Orderly(other)
  BY <1>2, SameOrderly
<1>5. other \in Seq(Grant) /\ Len(other) = Len(table)
  BY <1>2 DEF Same
<1>6. /\ longer \in Seq(Grant)
      /\ Len(longer) = Len(table) + 1
      /\ \A h \in 1 .. Len(table) : longer[h] = other[h] /\ other[h] \in Grant
      /\ longer[Len(table) + 1] = row
  BY <1>3, <1>5, Appended
<1> HIDE DEF longer
<1>7. Numbered(longer)
  <2>1. table[g].login <= g /\ table[g].login \in Nat
    BY <1>1 DEF Orderly, Numbered, Grant
  <2> QED
    BY <1>1, <1>3, <1>4, <1>5, <1>6, <2>1 DEF Numbered, Orderly
<1>8. ASSUME NEW x \in 1 .. Len(table), other[x].login = row.login
      PROVE  other[x].revoked /\ other[x].parent # row.parent
  <2>1. x <= g
    <3>1. ~ g < x
      BY <1>2, <1>3, <1>8 DEF Orderly, Chain, Same
    <3> QED
      BY <1>1, <3>1
  <2>2. other[x].revoked
    BY <1>1, <1>2, <1>3, <1>8, <2>1 DEF Orderly, Chain, Same
  <2>3. other[x].parent < x /\ other[x].parent \in Nat
    BY <1>4, <1>5, <1>6 DEF Orderly, Numbered, Grant
  <2> QED
    BY <1>1, <1>3, <2>1, <2>2, <2>3
<1>9. ASSUME NEW x \in 1 .. Len(longer), NEW y \in 1 .. Len(longer),
             x < y, longer[x].login = longer[y].login
      PROVE  longer[x].revoked /\ longer[x].parent # longer[y].parent
  <2>1. x \in 1 .. Len(table)
    BY <1>1, <1>6, <1>9
  <2>2. CASE y \in 1 .. Len(table)
    BY <1>4, <1>5, <1>6, <1>9, <2>1, <2>2 DEF Chain, Orderly
  <2>3. CASE y = Len(table) + 1
    BY <1>6, <1>8, <1>9, <2>1, <2>3
  <2> QED
    BY <1>1, <1>6, <2>2, <2>3
<1>10. Chain(longer)
  BY <1>9 DEF Chain
<1> QED
  BY <1>6, <1>7, <1>10 DEF Orderly, longer, other, row
-----------------------------------------------------------------------------
(* The steps *)

IInv == TypeOK /\ Orderly(grants)

LEMMA InitIInv == Init => IInv
<1> SUFFICES ASSUME Init PROVE IInv
  OBVIOUS
<1>1. grants = <<>> /\ Len(grants) = 0 /\ grants \in Seq(Grant)
  BY EmptySeq DEF Init
<1>2. browsers \in Browsers(0) /\ calls \in Calls(0)
  BY DEF Init, Browsers, Calls, BrowserState, CallState, Phase, Idle
<1>3. Orderly(grants)
  BY <1>1 DEF Orderly, Numbered, Chain
<1> QED
  BY <1>1, <1>2, <1>3 DEF Init, IInv, TypeOK, Browsers, Calls

\* The types as the step proofs use them.
LEMMA Types ==
  ASSUME IInv
  PROVE  /\ active \in [User -> BOOLEAN]
         /\ grants \in Seq(Grant) /\ Len(grants) \in Nat
         /\ \A g \in GrantIds : grants[g] \in Grant
         /\ accessExpired \in Nat /\ refreshExpired \in Nat
         /\ browsers \in Browsers(Len(grants))
         /\ calls \in Calls(Len(grants))
         /\ \A b \in Browser : browsers[b] \in BrowserState(Len(grants))
         /\ \A b \in Browser, c \in Call : calls[b][c] \in CallState(Len(grants))
         /\ loggedOut \subseteq Nat
  BY LenProperties, ElementOfSeq DEF IInv, TypeOK, Browsers, Calls, GrantIds

\* A step that leaves the table alone, or only revokes tokens.
LEMMA RevocationsKeepIInv ==
  ASSUME IInv, Same(grants, grants'),
         active' \in [User -> BOOLEAN],
         accessExpired' \in Nat, refreshExpired' \in Nat,
         browsers' \in Browsers(Len(grants)), calls' \in Calls(Len(grants)),
         loggedOut' \subseteq Nat
  PROVE  IInv'
<1>1. Orderly(grants)'
  BY SameOrderly DEF IInv
<1> QED
  BY <1>1 DEF IInv, TypeOK, Same, Browsers, Calls

LEMMA SameAsItself == ASSUME IInv, UNCHANGED grants PROVE Same(grants, grants')
  BY Types DEF Same

\* A step that issues a grant.
LEMMA IssueKeepsIInv ==
  ASSUME IInv, Orderly(grants'), Len(grants') = Len(grants) + 1,
         UNCHANGED <<active, accessExpired, refreshExpired, loggedOut>>,
         browsers' \in Browsers(Len(grants) + 1), calls' \in Calls(Len(grants) + 1)
  PROVE  IInv'
  BY Types DEF IInv, TypeOK, Orderly, Browsers, Calls

LEMMA CheckPasswordStep ==
  ASSUME IInv, NEW b \in Browser, NEW u \in User, CheckPassword(b, u) PROVE IInv'
<1>1. browsers' \in Browsers(Len(grants))
  BY Types DEF CheckPassword, Browsers, BrowserState
<1> QED
  BY <1>1, Types, SameAsItself, RevocationsKeepIInv DEF CheckPassword, serverVars

LEMMA StoreRefreshTokenStep ==
  ASSUME IInv, NEW b \in Browser, StoreRefreshToken(b) PROVE IInv'
<1> DEFINE n   == Len(grants)
           row == [user |-> browsers[b].signingIn, browser |-> b, login |-> n + 1,
                   parent |-> 0, revoked |-> FALSE]
<1>1. n \in Nat /\ browsers[b] \in BrowserState(n) /\ browsers[b].signingIn \in User
  BY Types DEF StoreRefreshToken, BrowserState
<1>2. row \in Grant /\ row.login = n + 1 /\ row.parent = 0
  BY <1>1 DEF Grant
<1>3. grants' = Append(grants, row)
  BY DEF StoreRefreshToken
<1> HIDE DEF row
<1>4. Orderly(grants') /\ Len(grants') = n + 1
  BY <1>2, <1>3, Types, LoginOrderly, Appended DEF IInv
<1>5. calls' \in Calls(n + 1)
  BY <1>1, Types, MoreGrants DEF StoreRefreshToken
<1>6. browsers \in Browsers(n + 1)
  BY <1>1, Types, MoreGrants
<1>7. browsers' \in Browsers(n + 1)
  BY <1>1, <1>6 DEF StoreRefreshToken, Browsers, BrowserState
<1> QED
  BY <1>4, <1>5, <1>7, IssueKeepsIInv DEF StoreRefreshToken

LEMMA RotateRefreshTokenStep ==
  ASSUME IInv, NEW b \in Browser, NEW c \in Call, RotateRefreshToken(b, c) PROVE IInv'
<1> DEFINE n == Len(grants)
           g == calls[b][c].arg
           refused == g = 0 \/ ~Live(g) \/ ~active[grants[g].user]
<1>1. n \in Nat /\ calls[b][c] \in CallState(n) /\ g \in 0 .. n
  BY Types DEF CallState
<1>2. CASE refused
  <2>1. Same(grants, grants')
    <3>1. CASE g = 0
      BY <1>2, <3>1, SameAsItself DEF RotateRefreshToken
    <3>2. CASE g # 0
      BY <1>2, <3>2, Types, RevokeAllSame DEF RotateRefreshToken
    <3> QED
      BY <3>1, <3>2
  <2>2. [calls[b][c] EXCEPT !.phase = "denied", !.arg = 0] \in CallState(n)
    <3>1. "denied" \in Phase /\ 0 \in 0 .. n
      BY <1>1 DEF Phase
    <3> QED
      BY <1>1, <3>1, CallMovedTyped
  <2>3. calls' \in Calls(n)
    BY <1>2, <2>2, Types, SetCallTyped DEF RotateRefreshToken
  <2> QED
    BY <2>1, <2>3, Types, RevocationsKeepIInv DEF RotateRefreshToken
<1>3. CASE ~refused
  <2>1. g \in 1 .. n /\ ~grants[g].revoked
    BY <1>1, <1>3 DEF Live
  <2>2. grants' = Append([grants EXCEPT ![g].revoked = TRUE], [grants[g] EXCEPT !.parent = g])
    BY <1>3 DEF RotateRefreshToken
  <2>3. Orderly(grants')
    BY <2>1, <2>2, RotationOrderly DEF IInv
  <2>4. Len(grants') = n + 1
    <3>1. [grants[g] EXCEPT !.parent = g] \in Grant
      <4>1. grants[g] \in Grant /\ g \in Nat
        BY <1>1, <2>1, Types DEF GrantIds
      <4> QED
        BY <4>1, SuccessorTyped
    <3>2. /\ [grants EXCEPT ![g].revoked = TRUE] \in Seq(Grant)
          /\ Len([grants EXCEPT ![g].revoked = TRUE]) = n
      BY <2>1, Types, RevokeOneSame DEF Same
    <3> QED
      BY <2>2, <3>1, <3>2, Appended
  <2>5. calls \in Calls(n + 1) /\ browsers' \in Browsers(n + 1)
    BY <1>1, Types, MoreGrants DEF RotateRefreshToken
  <2>6. [calls[b][c] EXCEPT !.phase = "granted", !.arg = n + 1] \in CallState(n + 1)
    <3>1. "granted" \in Phase /\ n + 1 \in 0 .. n + 1
      BY <1>1 DEF Phase
    <3>2. calls[b][c] \in CallState(n + 1)
      BY <2>5 DEF Calls
    <3> QED
      BY <3>1, <3>2, CallMovedTyped
  <2>7. calls' \in Calls(n + 1)
    BY <1>3, <2>5, <2>6, SetCallTyped DEF RotateRefreshToken
  <2> QED
    BY <2>3, <2>4, <2>5, <2>7, IssueKeepsIInv DEF RotateRefreshToken
<1> QED
  BY <1>2, <1>3

LEMMA RevokedSame ==
  ASSUME IInv, NEW g \in 0 .. Len(grants), grants' = Revoked(g)
  PROVE  Same(grants, grants')
<1>1. CASE g = 0
  BY <1>1, SameAsItself DEF Revoked
<1>2. CASE g \in 1 .. Len(grants)
  BY <1>2, Types, RevokeOneSame DEF Revoked
<1> QED
  BY <1>1, <1>2, Types

LEMMA LogoutStep ==
  ASSUME IInv, NEW b \in Browser, Logout(b) PROVE IInv'
<1> DEFINE n == Len(grants)
           g == browsers[b].logout - 1
<1>1. n \in Nat /\ browsers[b] \in BrowserState(n) /\ g \in 0 .. n
  BY Types DEF Logout, BrowserState
<1>2. Same(grants, grants')
  BY <1>1, RevokedSame DEF Logout
<1>3. browsers' \in Browsers(n)
  BY <1>1, Types DEF Logout, Browsers, BrowserState
<1>4. loggedOut' \subseteq Nat
  <2>1. CASE g = 0
    BY <2>1, Types DEF Logout
  <2>2. CASE g # 0
    <3>1. grants[g].login \in Nat
      <4>1. g \in GrantIds
        <5>1. \A x \in 0 .. n : x # 0 => x \in 1 .. n
          BY <1>1
        <5> QED
          BY <1>1, <2>2, <5>1 DEF GrantIds
      <4> QED
        BY <4>1, Types DEF Grant
    <3> QED
      BY <2>2, <3>1, Types DEF Logout
  <2> QED
    BY <2>1, <2>2
<1> QED
  BY <1>2, <1>3, <1>4, Types, RevocationsKeepIInv DEF Logout

LEMMA LoseLogoutStep ==
  ASSUME IInv, NEW b \in Browser, LoseLogout(b) PROVE IInv'
<1> DEFINE n == Len(grants)
           g == browsers[b].logout - 1
<1>1. n \in Nat /\ browsers[b] \in BrowserState(n) /\ g \in 0 .. n
  BY Types DEF LoseLogout, BrowserState
<1>2. Same(grants, grants')
  BY <1>1, SameAsItself, RevokedSame DEF LoseLogout
<1>3. browsers' \in Browsers(n)
  BY <1>1, Types DEF LoseLogout, Browsers, BrowserState
<1> QED
  BY <1>2, <1>3, Types, RevocationsKeepIInv DEF LoseLogout

LEMMA ReloadStep ==
  ASSUME IInv, NEW b \in Browser, Reload(b) PROVE IInv'
<1> DEFINE n == Len(grants)
<1>1. n \in Nat /\ browsers[b] \in BrowserState(n) /\ browsers[b].cookie \in 0 .. n
  BY Types DEF BrowserState
<1>2. browsers' \in Browsers(n)
  <2>1. browsers' = [browsers EXCEPT ![b].token = 0, ![b].signingIn = Nobody, ![b].logout = 0]
    BY DEF Reload
  <2>2. browsers \in Browsers(n)
    BY Types
  <2>3. [browsers EXCEPT ![b].token = 0] \in Browsers(n)
    BY <1>1, <2>2, ClearedTyped
  <2>4. [[browsers EXCEPT ![b].token = 0] EXCEPT ![b].signingIn = Nobody] \in Browsers(n)
    BY <1>1, <2>3, ClearedTyped
  <2>5. [[[browsers EXCEPT ![b].token = 0] EXCEPT ![b].signingIn = Nobody] EXCEPT ![b].logout = 0]
          \in Browsers(n)
    BY <1>1, <2>4, ClearedTyped
  <2>6. browsers' = [[[browsers EXCEPT ![b].token = 0]
                        EXCEPT ![b].signingIn = Nobody] EXCEPT ![b].logout = 0]
    BY <2>1
  <2> QED
    BY <2>5, <2>6
<1>3. [To("refreshing", browsers[b].cookie) EXCEPT !.restore = TRUE] \in CallState(n)
  BY <1>1 DEF To, CallState, Phase
<1>4. calls' \in Calls(n)
  BY <1>1, <1>3, IdleTyped, Types DEF Reload, Calls
<1> QED
  BY <1>2, <1>4, Types, SameAsItself, RevocationsKeepIInv DEF Reload, serverVars

\* What a call does, apart from rotating a token, moves the call on and may set
\* or drop the tab's tokens.
LEMMA CallMoves ==
  ASSUME IInv, NEW b \in Browser, NEW c \in Call, NEW state \in CallState(Len(grants)),
         SetCall(b, c, state), browsers' \in Browsers(Len(grants)),
         UNCHANGED <<serverVars, loggedOut>>
  PROVE  IInv'
<1>1. calls' \in Calls(Len(grants))
  BY Types, SetCallTyped
<1> QED
  BY <1>1, Types, SameAsItself, RevocationsKeepIInv DEF serverVars

LEMMA CallStep ==
  ASSUME IInv, NEW b \in Browser, NEW c \in Call,
         Ask(b, c) \/ ReceiveAnswer(b, c) \/ ReceiveGrant(b, c) \/ ReceiveDenial(b, c)
           \/ ReceiveRetryAnswer(b, c) \/ LoseResponse(b, c)
  PROVE  IInv'
<1> DEFINE n == Len(grants)
<1>1. /\ n \in Nat
      /\ browsers[b].cookie \in 0 .. n /\ browsers[b].token \in 0 .. n
      /\ calls[b][c].arg \in 0 .. n
  BY Types DEF BrowserState, CallState
<1>2. EndSession(b) => browsers' \in Browsers(n)
  BY <1>1, Types, EndSessionTyped
<1>3. UNCHANGED browsers => browsers' \in Browsers(n)
  BY Types
<1>4. Idle \in CallState(n)
  BY <1>1, IdleTyped
<1>5. CASE Ask(b, c)
  <2>1. To("asked", browsers[b].token) \in CallState(n)
    BY <1>1, ToTyped DEF Phase
  <2> QED
    BY <1>3, <1>5, <2>1, CallMoves DEF Ask
<1>6. CASE ReceiveAnswer(b, c)
  <2>1. To("refreshing", browsers[b].cookie) \in CallState(n)
    BY <1>1, ToTyped DEF Phase
  <2>2. browsers' \in Browsers(n)
    BY <1>2, <1>3, <1>6 DEF ReceiveAnswer
  <2> QED
    BY <1>4, <1>6, <2>1, <2>2, CallMoves DEF ReceiveAnswer
<1>7. CASE ReceiveGrant(b, c)
  <2>1. \A phase \in {"asked", "retrying"} : [calls[b][c] EXCEPT !.phase = phase] \in CallState(n)
    BY Types DEF CallState, Phase
  <2>2. browsers' \in Browsers(n)
    BY <1>1, <1>7, Types DEF ReceiveGrant, Browsers, BrowserState
  <2> QED
    BY <1>7, <2>1, <2>2, CallMoves DEF ReceiveGrant
<1>8. CASE ReceiveDenial(b, c)
  BY <1>2, <1>4, <1>8, CallMoves DEF ReceiveDenial
<1>9. CASE ReceiveRetryAnswer(b, c)
  BY <1>2, <1>3, <1>4, <1>9, CallMoves DEF ReceiveRetryAnswer
<1>10. CASE LoseResponse(b, c)
  BY <1>2, <1>3, <1>4, <1>10, CallMoves DEF LoseResponse
<1> QED
  BY <1>5, <1>6, <1>7, <1>8, <1>9, <1>10

LEMMA AskLogoutStep ==
  ASSUME IInv, NEW b \in Browser, AskLogout(b) PROVE IInv'
<1>1. browsers[b].cookie \in 0 .. Len(grants) /\ Len(grants) \in Nat
  BY Types DEF BrowserState
<1>2. 1 + browsers[b].cookie \in 0 .. Len(grants) + 1
  BY <1>1
<1>3. browsers' \in Browsers(Len(grants))
  BY <1>2, Types DEF AskLogout, Browsers, BrowserState
<1> QED
  BY <1>3, Types, SameAsItself, RevocationsKeepIInv DEF AskLogout, serverVars

LEMMA SurroundingsStep ==
  ASSUME IInv, (\E u \in User : SwitchUser(u)) \/ ExpireAccess \/ ExpireRefresh
  PROVE  IInv'
<1>1. /\ UNCHANGED <<grants, browsers, calls, loggedOut>>
      /\ active' \in [User -> BOOLEAN]
      /\ accessExpired' \in Nat /\ refreshExpired' \in Nat
  <2>1. CASE \E u \in User : SwitchUser(u)
    BY <2>1, Types DEF SwitchUser
  <2>2. CASE ExpireAccess
    BY <2>2, Types DEF ExpireAccess
  <2>3. CASE ExpireRefresh
    BY <2>3, Types DEF ExpireRefresh
  <2> QED
    BY <2>1, <2>2, <2>3
<1> QED
  BY <1>1, Types, SameAsItself, RevocationsKeepIInv

LEMMA NextIInv == IInv /\ [Next]_vars => IInv'
<1> SUFFICES ASSUME IInv, [Next]_vars PROVE IInv'
  OBVIOUS
<1>1. CASE UNCHANGED vars
  BY <1>1, Types, SameAsItself, RevocationsKeepIInv DEF vars, serverVars
<1>2. ASSUME NEW b \in Browser, NEW u \in User, CheckPassword(b, u) PROVE IInv'
  BY <1>2, CheckPasswordStep
<1>3. ASSUME NEW b \in Browser, StoreRefreshToken(b) \/ AskLogout(b) \/ Logout(b)
                                  \/ LoseLogout(b) \/ Reload(b)
      PROVE  IInv'
  BY <1>3, StoreRefreshTokenStep, AskLogoutStep, LogoutStep, LoseLogoutStep, ReloadStep
<1>4. ASSUME NEW b \in Browser, NEW c \in Call, Ask(b, c) \/ Proceed(b, c) \/ LoseResponse(b, c)
      PROVE  IInv'
  BY <1>4, CallStep, RotateRefreshTokenStep DEF Proceed
<1>5. CASE (\E u \in User : SwitchUser(u)) \/ ExpireAccess \/ ExpireRefresh
  BY <1>5, SurroundingsStep
<1> QED
  BY <1>1, <1>2, <1>3, <1>4, <1>5 DEF Next
-----------------------------------------------------------------------------
LEMMA IInvHolds == Spec => []IInv
  BY InitIInv, NextIInv, PTL DEF Spec

\* The table, the jars and the calls stay well formed: no handler refers to a
\* token that was never issued.
THEOREM TypeCorrect == Spec => []TypeOK
<1>1. IInv => TypeOK
  BY DEF IInv
<1> QED
  BY <1>1, IInvHolds, PTL

\* However many browsers and calls there are and whatever gets lost, of the
\* tokens of one login at most the newest is unrevoked, and no token was ever
\* replaced twice: rotate_refresh_token, a retry or a replay cannot fork a login.
THEOREM LoginsAreChains == Spec => []RotationIsAChain
<1>1. IInv => RotationIsAChain
  BY DEF IInv, Orderly, Chain, RotationIsAChain, GrantIds
<1> QED
  BY <1>1, IInvHolds, PTL
-----------------------------------------------------------------------------
(* Undisturbed sessions *)

\* Refresh token g works and belongs to browser b.
Fresh(b, g) == g \in GrantIds /\ ~grants[g].revoked /\ grants[g].browser = b

\* The jar is at most one answer behind the table.
JarUpToDate(b) ==
  /\ browsers[b].logout = 0
  /\ browsers[b].signingIn # Nobody => browsers[b].token = 0
  /\ browsers[b].token # 0 => browsers[b].cookie # 0
  /\ browsers[b].cookie # 0 /\ (\A c \in Call : calls[b][c].phase # "granted")
       => Fresh(b, browsers[b].cookie)

\* A refresh is made with the cookie the jar still has when it is handled, and
\* what comes back works until the retry has been answered.
CallUpToDate(b, c) ==
  LET call == calls[b][c]
  IN  /\ call.phase # "denied"
      /\ call.phase # "idle" => browsers[b].token # 0
      /\ call.phase = "refreshing" => call.arg = browsers[b].cookie
      /\ call.phase = "granted" =>
           Fresh(b, call.arg) /\ grants[call.arg].parent = browsers[b].cookie
      /\ call.phase \in {"granted", "retrying"} => call.arg > accessExpired /\ call.arg \in GrantIds

Undisturbed ==
  /\ refreshExpired = 0
  /\ \A u \in User : active[u]
  /\ accessExpired <= Len(grants)
  /\ \A b \in Browser : JarUpToDate(b)
  /\ \A b \in Browser, c \in Call : CallUpToDate(b, c)

\* Nothing comes in the way but errors other than 401, and a tab has one call in
\* flight at a time.
Calm    == Trouble \subseteq {"rejected"} /\ \A c, d \in Call : c = d
CalmInv == IInv /\ Undisturbed

LEMMA InitCalm == Init => CalmInv
<1> SUFFICES ASSUME Init PROVE Undisturbed
  BY InitIInv DEF CalmInv
<1>1. grants = <<>> /\ Len(grants) = 0
  BY EmptySeq DEF Init
<1> QED
  BY <1>1 DEF Init, Undisturbed, JarUpToDate, CallUpToDate, Idle

\* A step that leaves the table and the expiry alone.
LEMMA SameTable ==
  ASSUME Undisturbed, UNCHANGED serverVars,
         \A b \in Browser : JarUpToDate(b)', \A b \in Browser, c \in Call : CallUpToDate(b, c)'
  PROVE  Undisturbed'
  BY DEF Undisturbed, serverVars

\* Whoever is not the browser of the step notices nothing of it.
LEMMA OthersUndisturbed ==
  ASSUME Undisturbed, NEW b \in Browser, accessExpired' = accessExpired,
         browsers'[b] = browsers[b], calls'[b] = calls[b],
         \A g \in GrantIds : grants[g].browser = b => g \in GrantIds' /\ grants'[g] = grants[g],
         GrantIds \subseteq GrantIds'
  PROVE  JarUpToDate(b)' /\ \A c \in Call : CallUpToDate(b, c)'
<1>1. \A g : Fresh(b, g) => Fresh(b, g)' /\ grants'[g].parent = grants[g].parent
  BY DEF Fresh
<1> QED
  BY <1>1 DEF Undisturbed, JarUpToDate, CallUpToDate

LEMMA CalmSignIn ==
  ASSUME Calm, CalmInv, NEW b \in Browser,
         (\E u \in User : CheckPassword(b, u)) \/ StoreRefreshToken(b)
  PROVE  Undisturbed'
<1>1. /\ Len(grants) \in Nat /\ grants \in Seq(Grant)
      /\ \A x \in Browser : browsers[x] \in BrowserState(Len(grants))
      /\ browsers \in [Browser -> BrowserState(Len(grants))]
  BY Types DEF CalmInv, Browsers
<1>2. Undisturbed
  BY DEF CalmInv
<1>3. ASSUME NEW u \in User, CheckPassword(b, u) PROVE Undisturbed'
  <2>1. /\ UNCHANGED <<serverVars, calls>> /\ browsers[b].token = 0
        /\ browsers' = [browsers EXCEPT ![b].signingIn = u]
    BY <1>3 DEF CheckPassword
  <2>2. \A x \in Browser : /\ browsers'[x].token = browsers[x].token
                           /\ browsers'[x].cookie = browsers[x].cookie
                           /\ browsers'[x].logout = browsers[x].logout
                           /\ x # b => browsers'[x] = browsers[x]
    BY <1>1, <2>1 DEF BrowserState
  <2>3. \A x \in Browser : \A g : Fresh(x, g)' = Fresh(x, g)
    BY <2>1 DEF Fresh, serverVars, GrantIds
  <2>4. \A x \in Browser : JarUpToDate(x)'
    BY <1>2, <2>1, <2>2, <2>3 DEF Undisturbed, JarUpToDate
  <2>5. \A x \in Browser, c \in Call : CallUpToDate(x, c)'
    BY <1>2, <2>1, <2>2, <2>3 DEF Undisturbed, CallUpToDate, serverVars, GrantIds
  <2> QED
    BY <1>2, <2>1, <2>4, <2>5, SameTable
<1>4. CASE StoreRefreshToken(b)
  <2> DEFINE n   == Len(grants)
             row == [user |-> browsers[b].signingIn, browser |-> b, login |-> n + 1,
                     parent |-> 0, revoked |-> FALSE]
  <2>1. browsers[b].signingIn \in User /\ browsers[b].token = 0
    BY <1>1, <1>2, <1>4 DEF StoreRefreshToken, BrowserState, Undisturbed, JarUpToDate
  <2>2. row \in Grant /\ row.browser = b /\ ~row.revoked
    BY <1>1, <2>1 DEF Grant
  <2>3. grants' = Append(grants, row)
    BY <1>4 DEF StoreRefreshToken
  <2> HIDE DEF row
  <2>4. /\ Len(grants') = n + 1
        /\ \A g \in 1 .. n : grants'[g] = grants[g]
        /\ grants'[n + 1] = row
    BY <1>1, <2>2, <2>3, Appended
  <2>5. GrantIds = 1 .. n /\ GrantIds' = 1 .. n + 1
    BY <2>4 DEF GrantIds
  <2>6. browsers'[b] = [cookie |-> n + 1, token |-> n + 1, signingIn |-> Nobody, logout |-> 0]
    BY <1>1, <1>4 DEF StoreRefreshToken
  <2>7. /\ UNCHANGED <<active, accessExpired, refreshExpired, calls>>
        /\ \A x \in Browser \ {b} : browsers'[x] = browsers[x]
    BY <1>1, <1>4 DEF StoreRefreshToken
  <2>8. \A x \in Browser \ {b} : JarUpToDate(x)' /\ \A c \in Call : CallUpToDate(x, c)'
    BY <1>1, <1>2, <2>4, <2>5, <2>7, OthersUndisturbed
  <2>9. \A c \in Call : calls'[b][c].phase = "idle"
    BY <1>2, <2>1, <2>7 DEF Undisturbed, CallUpToDate
  <2>10. JarUpToDate(b)'
    <3>1. \A g : g = n + 1 => Fresh(b, g)'
      BY <1>1, <2>2, <2>4, <2>5 DEF Fresh
    <3>2. browsers'[b].cookie = n + 1 /\ browsers'[b].logout = 0 /\ browsers'[b].signingIn = Nobody
      BY <2>6
    <3> QED
      BY <1>1, <3>1, <3>2 DEF JarUpToDate
  <2>11. \A c \in Call : CallUpToDate(b, c)'
    BY <2>9 DEF CallUpToDate
  <2> QED
    BY <1>1, <1>2, <2>4, <2>7, <2>8, <2>10, <2>11, Types DEF CalmInv, Undisturbed
<1> QED
  BY <1>3, <1>4

\* The token a calm tab refreshes with is the one the table has for it, so no
\* refresh is ever refused.
LEMMA CalmRotation ==
  ASSUME Calm, CalmInv, NEW b \in Browser, NEW c \in Call, RotateRefreshToken(b, c)
  PROVE  Undisturbed'
<1> DEFINE n == Len(grants)
           g == browsers[b].cookie
           other == [grants EXCEPT ![g].revoked = TRUE]
           row == [grants[g] EXCEPT !.parent = g]
<1>1. /\ n \in Nat /\ grants \in Seq(Grant) /\ GrantIds = 1 .. n
      /\ \A h \in GrantIds : grants[h] \in Grant
      /\ calls[b][c] \in CallState(n)
      /\ calls \in [Browser -> [Call -> CallState(n)]]
  BY Types DEF CalmInv, Calls, GrantIds
<1>2. Undisturbed
  BY DEF CalmInv
<1>3. calls[b][c].phase = "refreshing" /\ calls[b][c].arg = g /\ g # 0
  BY <1>2 DEF RotateRefreshToken, Undisturbed, JarUpToDate, CallUpToDate
<1>4. Fresh(b, g)
  <2>1. \A d \in Call : calls[b][d].phase # "granted"
    BY <1>3 DEF Calm
  <2> QED
    BY <1>2, <1>3, <2>1 DEF Undisturbed, JarUpToDate
<1>5. Live(g) /\ active[grants[g].user]
  BY <1>1, <1>2, <1>4 DEF Live, Fresh, Undisturbed, Grant
<1>6. /\ grants' = Append(other, row)
      /\ SetCall(b, c, [calls[b][c] EXCEPT !.phase = "granted", !.arg = n + 1])
      /\ UNCHANGED <<active, accessExpired, refreshExpired, browsers>>
  BY <1>3, <1>5 DEF RotateRefreshToken
<1>7. /\ row \in Grant /\ row.browser = b /\ ~row.revoked /\ row.parent = g
  <2>1. grants[g] \in Grant /\ ~grants[g].revoked /\ grants[g].browser = b /\ g \in Nat
    BY <1>1, <1>4 DEF Fresh
  <2> QED
    BY <2>1 DEF Grant
<1>8. /\ other \in Seq(Grant) /\ Len(other) = n
      /\ \A h \in 1 .. n : h # g => other[h] = grants[h]
  BY <1>1, <1>4, RevokeOneSame DEF Same, Fresh
<1> HIDE DEF row, other
<1>9. /\ Len(grants') = n + 1 /\ grants'[n + 1] = row
      /\ \A h \in 1 .. n : h # g => grants'[h] = grants[h]
  BY <1>6, <1>7, <1>8, Appended
<1>10. GrantIds' = 1 .. n + 1
  BY <1>9 DEF GrantIds
<1>11. /\ calls'[b][c].phase = "granted" /\ calls'[b][c].arg = n + 1
       /\ \A x \in Browser \ {b} : calls'[x] = calls[x]
  BY <1>1, <1>6 DEF SetCall, CallState
<1>12. \A x \in Browser \ {b} : JarUpToDate(x)' /\ \A d \in Call : CallUpToDate(x, d)'
  <2>1. \A h \in GrantIds : grants[h].browser # b => h \in GrantIds' /\ grants'[h] = grants[h]
    BY <1>1, <1>4, <1>9, <1>10 DEF Fresh
  <2>2. GrantIds \subseteq GrantIds'
    BY <1>1, <1>10
  <2>3. SUFFICES ASSUME NEW x \in Browser \ {b}
                 PROVE  JarUpToDate(x)' /\ \A d \in Call : CallUpToDate(x, d)'
    OBVIOUS
  <2>4. browsers'[x] = browsers[x] /\ calls'[x] = calls[x] /\ accessExpired' = accessExpired
    BY <1>6, <1>11
  <2>5. \A h \in GrantIds : grants[h].browser = x => h \in GrantIds' /\ grants'[h] = grants[h]
    BY <2>1
  <2> QED
    BY <1>2, <2>2, <2>4, <2>5, OthersUndisturbed
<1>13. JarUpToDate(b)'
  BY <1>2, <1>6, <1>11 DEF Undisturbed, JarUpToDate
<1>14. CallUpToDate(b, c)'
  <2>1. \A h : h = n + 1 => Fresh(b, h)' /\ grants'[h].parent = browsers'[b].cookie
    BY <1>1, <1>6, <1>7, <1>9, <1>10 DEF Fresh
  <2>2. browsers'[b].token # 0 /\ n + 1 > accessExpired' /\ n + 1 \in GrantIds'
    <3>1. accessExpired <= n /\ accessExpired \in Nat
      BY <1>2, Types DEF Undisturbed, CalmInv
    <3> QED
      BY <1>1, <1>2, <1>3, <1>6, <1>10, <3>1 DEF Undisturbed, CallUpToDate
  <2> QED
    BY <1>11, <2>1, <2>2 DEF CallUpToDate
<1>15. \A d \in Call : CallUpToDate(b, d)'
  BY <1>14 DEF Calm
<1>16. accessExpired <= Len(grants')
  BY <1>1, <1>2, <1>9, Types DEF Undisturbed, CalmInv
<1> QED
  BY <1>2, <1>6, <1>12, <1>13, <1>15, <1>16 DEF Undisturbed

\* What a calm call does beside rotating the token.
LEMMA CalmCall ==
  ASSUME Calm, CalmInv, NEW b \in Browser, NEW c \in Call,
         Ask(b, c) \/ ReceiveAnswer(b, c) \/ ReceiveGrant(b, c) \/ ReceiveDenial(b, c)
           \/ ReceiveRetryAnswer(b, c)
  PROVE  Undisturbed'
<1> DEFINE n == Len(grants)
<1>1. /\ n \in Nat
      /\ browsers \in [Browser -> BrowserState(n)]
      /\ browsers[b] \in BrowserState(n) /\ calls[b][c] \in CallState(n)
      /\ calls \in [Browser -> [Call -> CallState(n)]]
  BY Types DEF CalmInv, Calls, Browsers
<1>2. Undisturbed /\ JarUpToDate(b) /\ CallUpToDate(b, c)
  BY DEF CalmInv, Undisturbed
<1>3. UNCHANGED serverVars /\ UNCHANGED <<accessExpired, grants>> /\ GrantIds' = GrantIds
  BY DEF Ask, ReceiveAnswer, ReceiveGrant, ReceiveDenial, ReceiveRetryAnswer, serverVars, GrantIds
<1>4. \A x, g : Fresh(x, g)' = Fresh(x, g)
  BY <1>3 DEF Fresh
<1>5. \A x \in Browser \ {b} : browsers'[x] = browsers[x] /\ calls'[x] = calls[x]
  BY <1>1 DEF Ask, ReceiveAnswer, ReceiveGrant, ReceiveDenial, ReceiveRetryAnswer, SetCall, EndSession
<1>6. \A x \in Browser \ {b} : JarUpToDate(x)' /\ \A d \in Call : CallUpToDate(x, d)'
  BY <1>2, <1>3, <1>5, OthersUndisturbed
<1>7. SUFFICES JarUpToDate(b)' /\ CallUpToDate(b, c)'
  <2>1. \A d \in Call : CallUpToDate(b, d)'
    BY <1>7 DEF Calm
  <2> QED
    BY <1>2, <1>3, <1>6, <1>7, <2>1, SameTable
<1>8. \A state : SetCall(b, c, state) => calls'[b][c] = state
  BY <1>1 DEF SetCall
<1>9. \A d \in Call : d = c
  BY DEF Calm
<1>10. CASE Ask(b, c)
  <2>1. /\ calls[b][c].phase = "idle" /\ UNCHANGED browsers /\ browsers[b].token # 0
        /\ calls'[b][c].phase = "asked"
    BY <1>8, <1>10 DEF Ask, To
  <2> QED
    BY <1>2, <1>4, <1>9, <2>1 DEF JarUpToDate, CallUpToDate
<1>11. CASE ReceiveAnswer(b, c)
  <2>1. /\ calls[b][c].phase = "asked"
        /\ \/ calls'[b][c].phase = "idle"
           \/ calls'[b][c].phase = "refreshing" /\ calls'[b][c].arg = browsers[b].cookie
    BY <1>8, <1>11 DEF ReceiveAnswer, To, Idle
  <2>2. /\ browsers'[b].cookie = browsers[b].cookie
        /\ browsers'[b].logout = browsers[b].logout
        /\ browsers'[b].signingIn = browsers[b].signingIn
        /\ \/ browsers'[b].token = browsers[b].token
           \/ browsers'[b].token = 0 /\ calls'[b][c].phase = "idle"
    BY <1>1, <1>8, <1>11 DEF ReceiveAnswer, EndSession, BrowserState, Idle
  <2> QED
    BY <1>2, <1>4, <1>9, <2>1, <2>2 DEF JarUpToDate, CallUpToDate
<1>12. CASE ReceiveGrant(b, c)
  <2> DEFINE g == calls[b][c].arg
  <2>1. /\ calls[b][c].phase = "granted"
        /\ calls'[b][c].phase \in {"asked", "retrying"} /\ calls'[b][c].arg = g
    BY <1>1, <1>8, <1>12 DEF ReceiveGrant, CallState
  <2>2. /\ browsers'[b].cookie = g /\ browsers'[b].token = g
        /\ browsers'[b].logout = browsers[b].logout
        /\ browsers'[b].signingIn = browsers[b].signingIn
    BY <1>1, <1>12 DEF ReceiveGrant, BrowserState
  <2>3. Fresh(b, g) /\ g # 0 /\ g > accessExpired /\ g \in GrantIds
    BY <1>1, <1>2, <2>1 DEF CallUpToDate, Fresh, GrantIds
  <2>4. browsers[b].signingIn = Nobody
    BY <1>2, <2>1 DEF JarUpToDate, CallUpToDate
  <2> QED
    BY <1>2, <1>3, <1>4, <2>1, <2>2, <2>3, <2>4 DEF JarUpToDate, CallUpToDate
<1>13. CASE ReceiveDenial(b, c)
  BY <1>2, <1>13 DEF ReceiveDenial, CallUpToDate
<1>14. CASE ReceiveRetryAnswer(b, c)
  <2>1. /\ calls[b][c].phase = "retrying" /\ calls'[b][c].phase = "idle"
        /\ UNCHANGED browsers \/ EndSession(b)
    BY <1>8, <1>14 DEF ReceiveRetryAnswer, Idle
  <2>2. /\ browsers'[b].cookie = browsers[b].cookie
        /\ browsers'[b].token \in {browsers[b].token, 0}
        /\ browsers'[b].logout = browsers[b].logout
        /\ browsers'[b].signingIn = browsers[b].signingIn
    BY <1>1, <2>1 DEF EndSession, BrowserState
  <2> QED
    BY <1>2, <1>4, <1>9, <2>1, <2>2 DEF JarUpToDate, CallUpToDate
<1> QED
  BY <1>10, <1>11, <1>12, <1>13, <1>14

LEMMA CalmExpiry == ASSUME CalmInv, ExpireAccess PROVE Undisturbed'
<1>1. /\ accessExpired \in Nat /\ Len(grants) \in Nat
      /\ \A b \in Browser, c \in Call : calls[b][c] \in CallState(Len(grants))
  BY Types DEF CalmInv
<1>2. /\ accessExpired' = accessExpired + 1 /\ accessExpired < Len(grants)
      /\ UNCHANGED <<active, grants, refreshExpired, browsers, calls>>
      /\ GrantIds' = GrantIds
  BY DEF ExpireAccess, GrantIds
<1>3. \A b \in Browser : JarUpToDate(b)'
  BY <1>2 DEF CalmInv, Undisturbed, JarUpToDate, Fresh
<1>4. ASSUME NEW b \in Browser, NEW c \in Call PROVE CallUpToDate(b, c)'
  <2>1. CallUpToDate(b, c) /\ calls[b][c].arg \in 0 .. Len(grants)
    BY <1>1 DEF CalmInv, Undisturbed, CallState
  <2>2. calls[b][c].phase \in {"granted", "retrying"} => calls[b][c].arg > accessExpired'
    BY <1>1, <1>2, <2>1 DEF ExpireAccess, CallUpToDate
  <2> QED
    BY <1>2, <2>1, <2>2 DEF CallUpToDate, Fresh
<1> QED
  BY <1>1, <1>2, <1>3, <1>4 DEF CalmInv, Undisturbed

LEMMA CalmNext == Calm /\ CalmInv /\ [Next]_vars => CalmInv'
<1> SUFFICES ASSUME Calm, CalmInv, [Next]_vars PROVE Undisturbed'
  BY NextIInv DEF CalmInv
<1>1. CASE UNCHANGED vars
  BY <1>1 DEF vars, serverVars, CalmInv, Undisturbed, JarUpToDate, CallUpToDate, Fresh, GrantIds
<1>2. ASSUME NEW b \in Browser, (\E u \in User : CheckPassword(b, u)) \/ StoreRefreshToken(b)
      PROVE  Undisturbed'
  BY <1>2, CalmSignIn
<1>3. ASSUME NEW b \in Browser, AskLogout(b) \/ Logout(b) \/ LoseLogout(b) \/ Reload(b)
      PROVE  FALSE
  BY <1>3 DEF AskLogout, Logout, LoseLogout, Reload, Calm, CalmInv, Undisturbed, JarUpToDate
<1>4. ASSUME NEW b \in Browser, NEW c \in Call, Ask(b, c) \/ Proceed(b, c) PROVE Undisturbed'
  BY <1>4, CalmCall, CalmRotation DEF Proceed
<1>5. ASSUME NEW b \in Browser, NEW c \in Call, LoseResponse(b, c) PROVE FALSE
  BY <1>5 DEF LoseResponse, Calm
<1>6. CASE (\E u \in User : SwitchUser(u)) \/ ExpireRefresh
  BY <1>6 DEF SwitchUser, ExpireRefresh, Calm
<1>7. CASE ExpireAccess
  BY <1>7, CalmExpiry
<1> QED
  BY <1>1, <1>2, <1>3, <1>4, <1>5, <1>6, <1>7 DEF Next

\* The access token of a retry has not expired, so the retry succeeds.
LEMMA CalmStaysSignedIn ==
  ASSUME Calm, Trouble = {}, CalmInv, [Next]_vars, NEW b \in Browser,
         browsers[b].token # 0, browsers'[b].token = 0
  PROVE  browsers[b].logout # 0
<1>1. /\ Len(grants) \in Nat /\ accessExpired \in Nat
      /\ browsers \in [Browser -> BrowserState(Len(grants))]
      /\ \A g \in GrantIds : grants[g] \in Grant
  BY Types DEF CalmInv, Browsers
<1>2. CASE UNCHANGED browsers
  BY <1>2
<1>3. ASSUME NEW x \in Browser, NEW u \in User, CheckPassword(x, u) PROVE FALSE
  BY <1>1, <1>3 DEF CheckPassword, BrowserState
<1>4. ASSUME NEW x \in Browser, StoreRefreshToken(x) PROVE FALSE
  BY <1>1, <1>4 DEF StoreRefreshToken
<1>5. ASSUME NEW x \in Browser, AskLogout(x) \/ Logout(x) \/ LoseLogout(x) \/ Reload(x)
      PROVE  FALSE
  BY <1>5 DEF AskLogout, Logout, LoseLogout, Reload, Calm, CalmInv, Undisturbed, JarUpToDate
<1>6. ASSUME NEW x \in Browser, NEW c \in Call, LoseResponse(x, c) PROVE FALSE
  BY <1>6 DEF LoseResponse
<1>7. ASSUME NEW x \in Browser, NEW c \in Call, Proceed(x, c), browsers' # browsers
      PROVE  FALSE
  <2>1. CallUpToDate(x, c)
    BY DEF CalmInv, Undisturbed
  <2>2. CASE ReceiveGrant(x, c)
    <3>1. calls[x][c].arg \in GrantIds
      BY <2>1, <2>2 DEF ReceiveGrant, CallUpToDate
    <3> QED
      BY <1>1, <2>2, <3>1 DEF ReceiveGrant, GrantIds, BrowserState
  <2>3. CASE ReceiveDenial(x, c)
    BY <2>1, <2>3 DEF ReceiveDenial, CallUpToDate
  <2>4. CASE ReceiveRetryAnswer(x, c)
    <3>1. calls[x][c].arg > accessExpired /\ calls[x][c].arg \in GrantIds
      BY <2>1, <2>4 DEF ReceiveRetryAnswer, CallUpToDate
    <3>2. Accepted(calls[x][c].arg)
      BY <1>1, <3>1 DEF Accepted, CalmInv, Undisturbed, Grant
    <3> QED
      BY <1>7, <2>4, <3>2 DEF ReceiveRetryAnswer
  <2> QED
    BY <1>7, <2>2, <2>3, <2>4 DEF Proceed, ReceiveAnswer, RotateRefreshToken
<1> QED
  BY <1>2, <1>3, <1>4, <1>5, <1>6, <1>7 DEF Next, Ask, SwitchUser, ExpireAccess, ExpireRefresh, vars

LEMMA CalmHolds == ASSUME Calm PROVE Spec => []CalmInv
  BY InitCalm, CalmNext, PTL DEF Spec

\* With one call at a time and nothing lost, aborted, expired or switched off,
\* the refresh token of a signed-in tab is never out of step with the table,
\* whatever the other browsers of the same account do and however many errors
\* the retries meet.
THEOREM JarsKeepUp == ASSUME Calm PROVE Spec => []CookieKeepsUp
<1>1. CalmInv => CookieKeepsUp
  <2> SUFFICES ASSUME CalmInv, NEW b \in Browser, browsers[b].token # 0
               PROVE  \/ browsers[b].cookie # 0 /\ Live(browsers[b].cookie)
                      \/ \E c \in Call : /\ calls[b][c].phase = "granted"
                                         /\ Live(calls[b][c].arg)
                                         /\ grants[calls[b][c].arg].parent = browsers[b].cookie
    BY DEF CookieKeepsUp
  <2>1. \A g : Fresh(b, g) => Live(g)
    BY Types DEF Fresh, Live, CalmInv, Undisturbed, GrantIds
  <2>2. JarUpToDate(b) /\ \A c \in Call : CallUpToDate(b, c)
    BY DEF CalmInv, Undisturbed
  <2> QED
    BY <2>1, <2>2 DEF JarUpToDate, CallUpToDate
<1> QED
  BY <1>1, CalmHolds, PTL

\* ... and when the calls themselves succeed too, an expired access token is
\* replaced without the tab ever being signed out.
THEOREM RecoveryIsSilent ==
  ASSUME Trouble = {}, \A c, d \in Call : c = d
  PROVE  Spec => SilentRecovery
<1>1. Calm
  BY DEF Calm
<1>2. CalmInv /\ [Next]_vars =>
        [\A b \in Browser :
           browsers[b].token # 0 /\ browsers'[b].token = 0 => browsers[b].logout # 0]_vars
  BY <1>1, CalmStaysSignedIn
<1> QED
  BY <1>1, <1>2, CalmHolds, PTL DEF Spec, SilentRecovery
=============================================================================
