------------------------ MODULE Authentication_proofs ------------------------
(***************************************************************************)
(* Proofs about Authentication for any number of tabs, environments, keys, *)
(* logins and starts, and for any limits.                                  *)
(***************************************************************************)
EXTENDS Authentication, TLAPS, SequenceTheorems, WellFoundedInduction

-----------------------------------------------------------------------------
(* The inductive invariant.                                                *)

\* The key the stored API key is encrypted with never leaves the key file, and a
\* server that has opened the file holds what is in it.
KeyHeld ==
  /\ secret # NoKey => secret = keyFile
  /\ server.at = "write" => secret = NoKey
  /\ server.at \in {"account", "up"} =>
       keyFile \in Keys /\ server.key = keyFile /\ server.config.key \in {NoKey, keyFile}

\* Every session is of the account's version, hence of its credentials, and the
\* account of a server in server mode is that of its environment.
SessionsCurrent ==
  /\ Enabled => account.user = server.config.user /\ account.password = server.config.password
  /\ \A i \in out : i <= logins
  /\ \A s \in sessions :
       /\ s.id <= logins /\ s.id \notin out
       /\ s.version = account.version
       /\ s.made.user = account.user /\ s.made.password = account.password

\* The tokens of the sessions that would be accepted.
LiveTokens == {s.id : s \in {r \in sessions : r.left > 0 /\ r.version = account.version}}

\* A security token that is not refused together with this cookie.
Agrees(token, c) == token = 0 \/ c = 0 \/ token = c

\* What a tab that is not behind knows of the cookie c.
UpToDate(tab, c, live) ==
  LET d == tab.doing IN
  /\ Agrees(tab.csrf, c)
  /\ d.step = "session" => d.cookie = c \/ c = 0
  /\ d.step = "token" => Agrees(d.token, c) /\ (d.token = 0 => c \notin live)
  /\ d.step = "sent" /\ d.op # "login" =>
       Agrees(d.token, d.cookie) /\ (d.token = 0 => d.cookie \notin live)
  /\ d.step = "answered" /\ d.op = "load" => Agrees(d.token, c)

\* A tab of a browser with the cookie c after n logins.
TabOK(tab, c, n, live) ==
  LET d == tab.doing IN
  /\ tab.page = "login" =>
       /\ tab.csrf = 0
       /\ d.step = "rest" \/ (d.step \in {"sent", "answered"} /\ d.op = "login")
  /\ d.step = "session" => d.cookie <= n
  /\ d.step = "sent" /\ d.op # "login" => d.cookie <= n
  /\ d.step = "answered" => d.token <= n /\ (d.status = 403 => tab.behind)
  /\ ~tab.behind => UpToDate(tab, c, live)

BrowserKnows ==
  /\ cookie <= logins
  /\ \A t \in Tabs : TabOK(tabs[t], cookie, logins, LiveTokens)

IInv == TypeOK /\ KeyHeld /\ SessionsCurrent /\ BrowserKnows

-----------------------------------------------------------------------------
(* Lemmas about the operators.                                             *)

\* The fields of what a tab is doing.
LEMMA DoingFields ==
  ASSUME NEW d \in Doing
  PROVE  /\ d.step = "session" => d.op \in {"load", "save", "logout"} /\ d.cookie \in 0..MaxLogins
         /\ d.step = "token" => d.op \in {"save", "logout"} /\ d.token \in 0..MaxLogins
         /\ d.step = "sent" /\ d.op # "login" =>
              /\ d.op \in {"save", "logout"}
              /\ d.cookie \in 0..MaxLogins /\ d.token \in 0..MaxLogins
         /\ d.step = "sent" /\ d.op = "login" => d.with \in Credentials
         /\ d.step = "answered" => /\ d.op \in {"load", "save", "logout", "login"}
                                   /\ d.status \in {200, 401, 403, 429}
                                   /\ d.token \in 0..MaxLogins
  BY DEF Doing

\* A nonempty set of indexes has a first one.
LEMMA FirstIndex ==
  ASSUME NEW S \in SUBSET Nat, S # {}
  PROVE  /\ (CHOOSE i \in S : \A j \in S : i <= j) \in S
         /\ \A j \in S : (CHOOSE i \in S : \A k \in S : i <= k) <= j
<1>1. PICK i \in S : \A j \in S : <<j, i>> \notin OpToRel(<, Nat)
  BY WFMin, NatLessThanWellFounded
<1>2. \A j \in S : ~(j < i)
  BY <1>1 DEF OpToRel
<1>3. \A j \in S : i <= j
  <2> TAKE j \in S
  <2>1. i \in Nat /\ j \in Nat /\ ~(j < i)
    BY <1>2
  <2> QED
    BY <2>1
<1> QED
  BY <1>1, <1>3

\* A function on an initial segment of the naturals is a sequence.
LEMMA FunctionIsSeq ==
  ASSUME NEW S, NEW n \in Nat, NEW f \in [1..n -> S]
  PROVE  f \in Seq(S) /\ Len(f) = n
<1>1. f \in Seq(S)
  BY SeqDef
<1>2. DOMAIN f = 1..Len(f) /\ Len(f) \in Nat
  BY <1>1, LenProperties
<1> QED
  BY <1>1, <1>2

\* Failed logins that are popped leave a list that is not longer.
LEMMA RecentType ==
  ASSUME NEW S, failures \in Seq(S)
  PROVE  Recent \in Seq(S) /\ Len(Recent) <= Len(failures)
<1> DEFINE young == {i \in DOMAIN failures : failures[i] <= Window}
           first == CHOOSE i \in young : \A j \in young : i <= j
           n == Len(failures)
<1>1. n \in Nat /\ DOMAIN failures = 1..n /\ \A i \in 1..n : failures[i] \in S
  BY LenProperties, ElementOfSeq
<1>2. CASE young = {}
  BY <1>1, <1>2, EmptySeq DEF Recent
<1>3. CASE young # {}
  <2>1. young \in SUBSET Nat
    BY <1>1
  <2>2. first \in young
    BY <1>3, <2>1, FirstIndex
  <2>3. first \in 1..n
    BY <1>1, <2>2
  <2>4. Recent = SubSeq(failures, first, n)
    BY <1>3 DEF Recent
  <2> HIDE DEF young, first, n
  <2>5. \A i \in first..n : failures[i] \in S
    BY <1>1, <2>3
  <2>6. SubSeq(failures, first, n) \in Seq(S)
        /\ Len(SubSeq(failures, first, n)) = IF first <= n THEN n - first + 1 ELSE 0
    BY <1>1, <2>3, <2>5, SubSeqProperties
  <2> QED
    BY <1>1, <2>3, <2>4, <2>6 DEF n
<1> QED
  BY <1>2, <1>3

\* Valid looks for a live token; no session has the number 0.
LEMMA LiveIsValid ==
  ASSUME TypeOK
  PROVE  /\ \A c : Valid(c) <=> c \in LiveTokens
         /\ LiveTokens \subseteq 1..MaxLogins
  BY DEF Valid, LiveTokens, TypeOK, SessionRow, Session

\* A tab stays as it should be if the cookie stays or is dropped and no token up
\* to now comes to life.
LEMMA TabFrame ==
  ASSUME NEW tab \in Tab, NEW c \in 0..MaxLogins, NEW n \in Nat, NEW live,
         NEW m \in Nat, n <= m, c <= n, NEW d \in {c, 0},
         NEW next \in SUBSET (Nat \ {0}), \A i \in next : i \in live \/ n < i,
         TabOK(tab, c, n, live)
  PROVE  TabOK(tab, d, m, next)
<1>1. tab.doing \in Doing
  BY DEF Tab
<1>2. MaxLogins \in Nat
  BY AuthenticationAssumption
<1>3. /\ tab.doing.step = "session" => tab.doing.cookie \in Nat
      /\ tab.doing.step = "sent" /\ tab.doing.op # "login" => tab.doing.cookie \in Nat
      /\ tab.doing.step = "answered" => tab.doing.token \in Nat
  BY <1>1, <1>2, DoingFields
<1>4. \A i \in Nat : i <= n => i <= m /\ (i \in next => i \in live)
  BY <1>2
<1>5. d \notin next \/ (d = c /\ (d \in next => d \in live))
  BY <1>2, <1>4
<1>6. UpToDate(tab, c, live) /\ TabOK(tab, c, n, live) => UpToDate(tab, d, next)
  BY <1>3, <1>4, <1>5 DEF UpToDate, TabOK, Agrees
<1> QED
  BY <1>3, <1>4, <1>6 DEF TabOK

-----------------------------------------------------------------------------
(* The key file and the stored API key.                                    *)

LEMMA KeyStep ==
  ASSUME IInv, [Next]_vars
  PROVE  /\ server' \in Process
         /\ keyFile' \in Keys \cup {NoKey, "empty"} /\ secret' \in Keys \cup {NoKey}
         /\ KeyHeld'
<1> USE DEF IInv, TypeOK, KeyHeld
<1> DEFINE Goal == /\ server' \in Process
                   /\ keyFile' \in Keys \cup {NoKey, "empty"} /\ secret' \in Keys \cup {NoKey}
                   /\ KeyHeld'
<1>1. CASE UNCHANGED <<server, keyFile, secret>>
  BY <1>1
<1>2. ASSUME Start PROVE Goal
  BY <1>2 DEF Start, Process, stored
<1>3. ASSUME OpenKey PROVE Goal
  <2>1. server.at = "key" /\ server.config \in Configs
    BY <1>3 DEF OpenKey, Process
  <2>2. CASE keyFile = NoKey
    BY <1>3, <2>1, <2>2 DEF OpenKey, Process
  <2>3. CASE keyFile # NoKey /\ KeyMatches(server.config)
    <3>1. server' = [at |-> "account", config |-> server.config, key |-> keyFile]
          /\ keyFile' = keyFile /\ secret' = secret
      BY <1>3, <2>3 DEF OpenKey, Opened
    <3>2. keyFile \in Keys /\ server.config.key \in {NoKey, keyFile}
      BY <2>3 DEF KeyMatches
    <3> QED
      BY <2>1, <3>1, <3>2 DEF Process
  <2>4. CASE keyFile # NoKey /\ ~KeyMatches(server.config)
    BY <1>3, <2>1, <2>4 DEF OpenKey, Opened, Process, Down
  <2> QED
    BY <2>2, <2>3, <2>4
<1>4. ASSUME WriteKey PROVE Goal
  <2>1. server.at = "write" /\ server.config \in Configs /\ secret = NoKey
    BY <1>4 DEF WriteKey, Process
  <2>2. server.config.key \in Keys \cup {NoKey}
    BY <2>1, AuthenticationAssumption DEF Config
  <2>3. keyFile' \in Keys /\ server.config.key \in {NoKey, keyFile'}
    BY <1>4, <2>2 DEF WriteKey
  <2>4. server' = [at |-> "account", config |-> server.config, key |-> keyFile']
        /\ secret' = secret
    BY <1>4 DEF WriteKey
  <2> QED
    BY <2>1, <2>3, <2>4 DEF Process
<1>5. ASSUME Initialize PROVE Goal
  <2>1. server' \in Process /\ server.at = "account" /\ server'.at = "up"
        /\ server'.config = server.config /\ server'.key = server.key
    BY <1>5 DEF Initialize, Process
  <2> QED
    BY <1>5, <2>1 DEF Initialize
<1>6. ASSUME Stop PROVE Goal
  BY <1>6 DEF Stop, Process, Down, stored
<1>7. ASSUME NEW t \in Tabs, AnswerSave(t) PROVE Goal
  <2>1. server' = server /\ keyFile' = keyFile /\ server.at = "up"
    BY <1>7 DEF AnswerSave, Up
  <2>2. secret' = secret \/ secret' = keyFile
    BY <1>7, <2>1 DEF AnswerSave
  <2>3. keyFile \in Keys
    BY <2>1
  <2> QED
    BY <2>1, <2>2, <2>3
<1> HIDE DEF Goal
<1>8. Goal
  BY <1>1, <1>2, <1>3, <1>4, <1>5, <1>6, <1>7
     DEF Next, Boot, Serve, Go, vars, stored, Tick, Load, Ask, SignIn, AnswerSession,
         AnswerLogout, AnswerLogin, SendWithToken, Unreachable, Receive, Goal
<1> QED
  BY <1>8 DEF Goal

-----------------------------------------------------------------------------
(* The account and its sessions.                                           *)

\* A request that has been sent names a session that was issued.
LEMMA SentCookie ==
  ASSUME IInv, NEW t \in Tabs, tabs[t].doing.step = "sent", tabs[t].doing.op # "login"
  PROVE  tabs[t].doing.cookie \in 0..MaxLogins /\ tabs[t].doing.cookie <= logins
  BY DoingFields DEF IInv, TypeOK, Tab, BrowserKnows, TabOK

LEMMA SessionsStep ==
  ASSUME IInv, [Next]_vars
  PROVE  /\ account' \in Account /\ sessions' \subseteq SessionRow
         /\ logins' \in 0..MaxLogins /\ out' \subseteq Session
         /\ SessionsCurrent'
<1> USE DEF IInv, TypeOK, SessionsCurrent
<1> DEFINE Goal == /\ account' \in Account /\ sessions' \subseteq SessionRow
                   /\ logins' \in 0..MaxLogins /\ out' \subseteq Session
                   /\ SessionsCurrent'
<1>0. MaxLogins \in Nat /\ Lifetime \in Nat
  BY AuthenticationAssumption
<1>1. CASE UNCHANGED <<server, account, sessions, logins, out>>
  BY <1>1 DEF Enabled, Up
<1>2. ASSUME server'.at # "up", UNCHANGED <<account, sessions, logins, out>> PROVE Goal
  BY <1>2 DEF Enabled, Up
<1>3. ASSUME Start \/ OpenKey \/ WriteKey \/ Stop PROVE Goal
  BY <1>2, <1>3 DEF Start, OpenKey, Opened, WriteKey, Stop, Down, Process, stored, counters
<1>4. ASSUME Initialize PROVE Goal
  <2> DEFINE c == server.config
  <2>1. /\ server.at = "account" /\ c \in Configs /\ server'.at = "up" /\ server'.config = c
        /\ logins' = logins /\ out' = out
    BY <1>4 DEF Initialize, Process, counters
  <2>3. CASE c.mode = "server" /\ (account = NoAccount \/ Changed(c))
    <3>1. /\ account' = [user |-> c.user, password |-> c.password,
                         version |-> account.version + 1]
          /\ sessions' = {}
      BY <1>4, <2>3 DEF Initialize
    <3>2. account' \in Account
      <4>1. c.user \in Names /\ c.password \in Passwords
        BY <2>1 DEF Names, Passwords
      <4>2. account.version + 1 \in Nat
        BY DEF Account
      <4> HIDE DEF c
      <4> QED
        BY <3>1, <4>1, <4>2 DEF Account
    <3> QED
      BY <2>1, <3>1, <3>2
  <2>4. CASE ~(c.mode = "server" /\ (account = NoAccount \/ Changed(c)))
    <3>1. account' = account /\ sessions' = sessions
      BY <1>4, <2>4 DEF Initialize
    <3>2. c.mode = "server" => account.user = c.user /\ account.password = c.password
      BY <2>4 DEF Changed
    <3> QED
      BY <2>1, <3>1, <3>2 DEF Enabled, Up
  <2> QED
    BY <2>3, <2>4
<1>5. ASSUME Tick PROVE Goal
  <2>1. \A s \in sessions :
          [s EXCEPT !.left = IF s.left = 0 THEN 0 ELSE s.left - 1] \in SessionRow
    BY <1>0 DEF SessionRow
  <2>2. UNCHANGED <<server, account, logins, out>>
    BY <1>5 DEF Tick, counters
  <2>3. \A s \in sessions' : \E r \in sessions :
          /\ s = [r EXCEPT !.left = IF r.left = 0 THEN 0 ELSE r.left - 1]
          /\ s.id = r.id /\ s.version = r.version /\ s.made = r.made
    BY <1>5 DEF Tick, SessionRow
  <2> QED
    BY <2>1, <2>2, <2>3 DEF Enabled, Up
<1>6. ASSUME NEW t \in Tabs, AnswerLogout(t) PROVE Goal
  <2> DEFINE c == tabs[t].doing.cookie
  <2>1. c \in 0..MaxLogins /\ c <= logins
    BY <1>6, SentCookie DEF AnswerLogout
  <2>2. UNCHANGED <<server, account, logins>>
    BY <1>6 DEF AnswerLogout
  <2>3. \/ sessions' = sessions /\ out' = out
        \/ sessions' = {s \in sessions : s.id # c} /\ out' = out \cup ({c} \ {0})
    BY <1>6 DEF AnswerLogout, LoggedOut
  <2>4. out' \subseteq Session
    BY <1>0, <2>1, <2>3 DEF Session
  <2> QED
    BY <2>1, <2>2, <2>3, <2>4 DEF Enabled, Up
<1>7. ASSUME NEW t \in Tabs, AnswerLogin(t) PROVE Goal
  <2>1. UNCHANGED <<server, account, out>>
    BY <1>7 DEF AnswerLogin
  <2>2. CASE sessions' = sessions /\ logins' = logins
    BY <2>1, <2>2 DEF Enabled, Up
  <2>3. CASE /\ Enabled /\ logins < MaxLogins /\ logins' = logins + 1
             /\ sessions' = {s \in sessions : s.left > 0} \cup {NewSession}
    <3>1. server.config \in Configs
      BY <2>3 DEF Enabled, Up, Process
    <3>2. logins' \in 0..MaxLogins /\ logins + 1 \in Session /\ logins \in Nat
      BY <1>0, <2>3 DEF Session
    <3>3. NewSession \in SessionRow
      <4>1. [user |-> server.config.user, password |-> server.config.password] \in Credentials
        BY <3>1 DEF Credentials
      <4>2. account.version \in Nat /\ Lifetime \in 0..Lifetime
        BY <1>0 DEF Account
      <4> QED
        BY <3>2, <4>1, <4>2 DEF NewSession, SessionRow
    <3>4. /\ NewSession.id = logins + 1 /\ NewSession.version = account.version
          /\ NewSession.made.user = account.user
          /\ NewSession.made.password = account.password
      BY <2>3 DEF NewSession
    <3>5. logins + 1 \notin out
      BY <3>2
    <3>6. \A s \in sessions : s.id \in Nat
      BY <1>0 DEF SessionRow, Session
    <3>7. \A s \in sessions' : s = NewSession \/ s \in sessions
      BY <2>3
    <3> HIDE DEF NewSession
    <3>8. sessions' \subseteq SessionRow
      BY <3>3, <3>7
    <3>9. \A s \in sessions' :
            /\ s.id <= logins' /\ s.id \notin out
            /\ s.version = account.version
            /\ s.made.user = account.user /\ s.made.password = account.password
      BY <2>3, <3>2, <3>4, <3>5, <3>6, <3>7
    <3>10. \A i \in out : i <= logins'
      BY <1>0, <2>3, <3>2 DEF Session
    <3> QED
      BY <2>1, <3>2, <3>8, <3>9, <3>10 DEF Enabled, Up
  <2> QED
    BY <1>7, <2>2, <2>3 DEF AnswerLogin
<1> HIDE DEF Goal
<1>8. Goal
  BY <1>1, <1>3, <1>4, <1>5, <1>6, <1>7
     DEF Next, Boot, Serve, Go, vars, stored, counters, Load, Ask, SignIn, AnswerSession,
         AnswerSave, SendWithToken, Unreachable, Receive, Goal
<1> QED
  BY <1>8 DEF Goal

\* A token that is not live now is not live later, unless it is a new one.
LEMMA LiveStep ==
  ASSUME IInv, [Next]_vars
  PROVE  /\ logins \in Nat /\ logins' \in Nat /\ logins <= logins'
         /\ LiveTokens' \in SUBSET (Nat \ {0})
         /\ \A i \in LiveTokens' : i \in LiveTokens \/ logins < i
<1> USE DEF IInv, TypeOK
<1>0. MaxLogins \in Nat /\ Lifetime \in Nat
  BY AuthenticationAssumption
<1>1. sessions' \subseteq SessionRow /\ logins' \in 0..MaxLogins
  BY SessionsStep
<1>2. LiveTokens' \in SUBSET (Nat \ {0})
  BY <1>0, <1>1 DEF LiveTokens, SessionRow, Session
<1>3. CASE UNCHANGED <<account, sessions, logins>>
  BY <1>0, <1>2, <1>3 DEF LiveTokens
<1>4. ASSUME Initialize
      PROVE  logins' = logins /\ LiveTokens' \subseteq LiveTokens
  BY <1>4 DEF Initialize, LiveTokens, counters
<1>5. ASSUME Tick
      PROVE  logins' = logins /\ LiveTokens' \subseteq LiveTokens
  <2>1. account' = account /\ logins' = logins
    BY <1>5 DEF Tick, counters
  <2>2. \A s \in sessions' : \E r \in sessions :
          s.id = r.id /\ s.version = r.version /\ (s.left > 0 => r.left > 0)
    <3> TAKE s \in sessions'
    <3>1. PICK r \in sessions : s = [r EXCEPT !.left = IF r.left = 0 THEN 0 ELSE r.left - 1]
      BY <1>5 DEF Tick
    <3>2. r \in SessionRow /\ r.left \in Nat
      BY <1>0 DEF SessionRow
    <3>3. s.id = r.id /\ s.version = r.version
          /\ s.left = IF r.left = 0 THEN 0 ELSE r.left - 1
      BY <3>1, <3>2 DEF SessionRow
    <3> QED
      BY <3>2, <3>3
  <2> QED
    BY <2>1, <2>2 DEF LiveTokens
<1>6. ASSUME NEW t \in Tabs, AnswerLogout(t)
      PROVE  logins' = logins /\ LiveTokens' \subseteq LiveTokens
  BY <1>6 DEF AnswerLogout, LoggedOut, LiveTokens
<1>7. ASSUME NEW t \in Tabs, AnswerLogin(t)
      PROVE  /\ logins' \in {logins, logins + 1}
             /\ LiveTokens' \subseteq LiveTokens \cup {logins + 1}
  BY <1>7 DEF AnswerLogin, LiveTokens, NewSession
<1>8. /\ logins' \in {logins, logins + 1}
      /\ LiveTokens' \subseteq LiveTokens \cup {logins + 1}
  BY <1>3, <1>4, <1>5, <1>6, <1>7
     DEF Next, Boot, Serve, Go, vars, stored, counters, Start, OpenKey, WriteKey, Stop, Load,
         Ask, SignIn, AnswerSession, AnswerSave, SendWithToken, Unreachable, Receive, LiveTokens
<1> QED
  BY <1>0, <1>1, <1>2, <1>8

-----------------------------------------------------------------------------
(* The browser.                                                            *)

\* What the frame lemma needs of a state and its successor.
LEMMA BrowserFrame ==
  ASSUME IInv, [Next]_vars, cookie' \in {cookie, 0}, NEW tab \in Tab,
         TabOK(tab, cookie, logins, LiveTokens)
  PROVE  TabOK(tab, cookie', logins', LiveTokens')
<1>1. /\ logins \in Nat /\ logins' \in Nat /\ logins <= logins'
      /\ LiveTokens' \in SUBSET (Nat \ {0})
      /\ \A i \in LiveTokens' : i \in LiveTokens \/ logins < i
  BY LiveStep
<1>2. cookie \in 0..MaxLogins /\ cookie <= logins
  BY DEF IInv, TypeOK, BrowserKnows
<1> QED
  BY <1>1, <1>2, TabFrame

\* A step after which one tab is as it should be and the cookie is the same.
LEMMA OneTab ==
  ASSUME IInv, [Next]_vars, NEW t \in Tabs, NEW row \in Tab,
         tabs' = [tabs EXCEPT ![t] = row], cookie' = cookie,
         TabOK(row, cookie, logins', LiveTokens')
  PROVE  tabs' \in [Tabs -> Tab] /\ cookie' \in 0..MaxLogins /\ BrowserKnows'
<1> USE DEF IInv, TypeOK
<1>1. tabs' \in [Tabs -> Tab] /\ tabs'[t] = row /\ \A u \in Tabs : u # t => tabs'[u] = tabs[u]
  OBVIOUS
<1>2. \A u \in Tabs : TabOK(tabs[u], cookie', logins', LiveTokens')
  BY BrowserFrame DEF BrowserKnows
<1>3. cookie' <= logins'
  BY LiveStep, AuthenticationAssumption DEF BrowserKnows
<1> QED
  BY <1>1, <1>2, <1>3 DEF BrowserKnows

\* What is known of the acting tab.
LEMMA ActingTab ==
  ASSUME IInv, NEW t \in Tabs
  PROVE  /\ tabs[t] \in Tab /\ tabs[t].doing \in Doing
         /\ TabOK(tabs[t], cookie, logins, LiveTokens)
         /\ cookie \in 0..MaxLogins /\ cookie <= logins
  BY DEF IInv, TypeOK, Tab, BrowserKnows

Kept == tabs' \in [Tabs -> Tab] /\ cookie' \in 0..MaxLogins /\ BrowserKnows'

LEMMA LoadStep ==
  ASSUME IInv, NEW t \in Tabs, Load(t), [Next]_vars
  PROVE  Kept
<1> DEFINE row == [NewPage("app") EXCEPT
                     !.doing = [step |-> "session", op |-> "load", cookie |-> cookie]]
<1>1. cookie \in 0..MaxLogins /\ cookie <= logins /\ MaxLogins \in Nat
  BY ActingTab, AuthenticationAssumption
<1>2. row \in Tab
  <2>1. [step |-> "session", op |-> "load", cookie |-> cookie] \in Doing
    BY <1>1 DEF Doing
  <2>2. 0 \in 0..MaxLogins
    BY <1>1
  <2> QED
    BY <2>1, <2>2 DEF NewPage, Tab
<1>3. row.page = "app" /\ row.csrf = 0 /\ row.doing.step = "session"
      /\ row.doing.cookie = cookie /\ row.doing.op = "load"
  BY DEF NewPage
<1>4. tabs' = [tabs EXCEPT ![t] = row] /\ cookie' = cookie /\ logins' = logins
  BY DEF Load, counters
<1> HIDE DEF row
<1>5. TabOK(row, cookie, logins', LiveTokens')
  BY <1>1, <1>3, <1>4 DEF TabOK, UpToDate, Agrees
<1> QED
  BY <1>2, <1>4, <1>5, OneTab DEF Kept

LEMMA SignInStep ==
  ASSUME IInv, NEW t \in Tabs, SignIn(t), [Next]_vars
  PROVE  Kept
<1>1. PICK c \in Credentials :
        tabs' = [tabs EXCEPT ![t].doing = [step |-> "sent", op |-> "login", with |-> c]]
  BY DEF SignIn
<1> DEFINE row == [tabs[t] EXCEPT !.doing = [step |-> "sent", op |-> "login", with |-> c]]
<1>2. tabs[t] \in Tab /\ tabs[t].page = "login" /\ TabOK(tabs[t], cookie, logins, LiveTokens)
  BY ActingTab DEF SignIn
<1>3. [step |-> "sent", op |-> "login", with |-> c] \in Doing
  BY DEF Doing
<1>4. row \in Tab /\ row.page = "login" /\ row.csrf = tabs[t].csrf
      /\ row.doing.step = "sent" /\ row.doing.op = "login" /\ row.behind = tabs[t].behind
  BY <1>2, <1>3 DEF Tab
<1>5. tabs' = [tabs EXCEPT ![t] = row] /\ cookie' = cookie
  BY <1>1 DEF SignIn
<1> HIDE DEF row
<1>6. TabOK(row, cookie, logins', LiveTokens')
  BY <1>2, <1>4 DEF TabOK, UpToDate, Agrees
<1> QED
  BY <1>4, <1>5, <1>6, OneTab DEF Kept

\* A request is sent with the cookie and with a token that may be missing.
LEMMA SendStep ==
  ASSUME IInv, NEW t \in Tabs, NEW op \in {"save", "logout"}, NEW token \in 0..MaxLogins,
         Send(t, op, token), [Next]_vars, UNCHANGED <<cookie, sessions, account, logins>>,
         tabs[t].page = "app",
         ~tabs[t].behind => Agrees(token, cookie) /\ (token = 0 => cookie \notin LiveTokens)
  PROVE  Kept
<1> DEFINE d == [step |-> "sent", op |-> op, cookie |-> cookie, token |-> token]
           row == [tabs[t] EXCEPT !.doing = d, !.csrf = token]
<1>1. tabs[t] \in Tab /\ cookie \in 0..MaxLogins /\ cookie <= logins
  BY ActingTab
<1>2. d \in Doing
  BY <1>1 DEF Doing
<1>3. /\ d.step = "sent" /\ d.op = op /\ d.cookie = cookie /\ d.token = token
      /\ d.op # "login"
  OBVIOUS
<1>4. tabs' = [tabs EXCEPT ![t].doing = d, ![t].csrf = token]
  BY DEF Send
<1> HIDE DEF d
<1>5. row \in Tab /\ row.page = "app" /\ row.doing = d /\ row.behind = tabs[t].behind
      /\ row.csrf = token
  BY <1>1, <1>2 DEF Tab
<1>6. tabs' = [tabs EXCEPT ![t] = row]
  BY <1>4 DEF IInv, TypeOK
<1> HIDE DEF row
<1>7. LiveTokens' = LiveTokens
  BY DEF LiveTokens
<1>8. TabOK(row, cookie, logins', LiveTokens')
  BY <1>1, <1>3, <1>5, <1>7 DEF TabOK, UpToDate
<1> QED
  BY <1>5, <1>6, <1>8, OneTab DEF Kept

\* A tab asks for the session first.
LEMMA AskSessionStep ==
  ASSUME IInv, NEW t \in Tabs, NEW op \in {"save", "logout"}, [Next]_vars,
         tabs' = [tabs EXCEPT ![t].doing = [step |-> "session", op |-> op, cookie |-> cookie]],
         UNCHANGED <<cookie, sessions, account, logins>>,
         tabs[t].page = "app"
  PROVE  Kept
<1> DEFINE d == [step |-> "session", op |-> op, cookie |-> cookie]
           row == [tabs[t] EXCEPT !.doing = d]
<1>1. /\ tabs[t] \in Tab /\ cookie \in 0..MaxLogins /\ cookie <= logins
      /\ TabOK(tabs[t], cookie, logins, LiveTokens)
  BY ActingTab
<1>2. d \in Doing
  BY <1>1 DEF Doing
<1>3. d.step = "session" /\ d.cookie = cookie
  OBVIOUS
<1> HIDE DEF d
<1>5. row \in Tab /\ row.page = "app" /\ row.doing = d /\ row.behind = tabs[t].behind
      /\ row.csrf = tabs[t].csrf
  BY <1>1, <1>2 DEF Tab
<1>6. tabs' = [tabs EXCEPT ![t] = row]
  BY DEF d
<1> HIDE DEF row
<1>8. TabOK(row, cookie, logins', LiveTokens')
  BY <1>1, <1>3, <1>5 DEF TabOK, UpToDate
<1> QED
  BY <1>5, <1>6, <1>8, OneTab DEF Kept

LEMMA AskStep ==
  ASSUME IInv, NEW t \in Tabs, NEW op \in {"save", "logout"}, Ask(t, op), [Next]_vars
  PROVE  Kept
<1>1. /\ tabs[t].page = "app" /\ UNCHANGED <<cookie, sessions, account, logins>>
  BY DEF Ask, stored, counters
<1>2. CASE Known(tabs[t].csrf)
  <2>1. tabs[t].csrf \in 0..MaxLogins /\ tabs[t].csrf # 0
    BY <1>2, ActingTab DEF Known, Tab
  <2>2. ~tabs[t].behind => Agrees(tabs[t].csrf, cookie)
    BY ActingTab DEF TabOK, UpToDate
  <2> QED
    BY <1>1, <1>2, <2>1, <2>2, SendStep DEF Ask
<1>3. CASE ~Known(tabs[t].csrf)
  BY <1>1, <1>3, AskSessionStep DEF Ask
<1> QED
  BY <1>2, <1>3

LEMMA SendWithTokenStep ==
  ASSUME IInv, NEW t \in Tabs, SendWithToken(t), [Next]_vars
  PROVE  Kept
<1> DEFINE d == tabs[t].doing
<1>1. /\ d.step = "token" /\ UNCHANGED <<cookie, sessions, account, logins>>
      /\ Send(t, d.op, d.token)
  BY DEF SendWithToken, stored, counters
<1>2. d \in Doing /\ tabs[t] \in Tab /\ TabOK(tabs[t], cookie, logins, LiveTokens)
  BY ActingTab
<1>3. d.op \in {"save", "logout"} /\ d.token \in 0..MaxLogins
  BY <1>1, <1>2, DoingFields
<1>4. tabs[t].page = "app"
  BY <1>1, <1>2 DEF TabOK, Tab
<1>5. ~tabs[t].behind => Agrees(d.token, cookie) /\ (d.token = 0 => cookie \notin LiveTokens)
  BY <1>1, <1>2 DEF TabOK, UpToDate
<1> QED
  BY <1>1, <1>3, <1>4, <1>5, SendStep

\* The server answers a tab; the page has not seen the answer yet.
LEMMA AnswerStep ==
  ASSUME IInv, NEW t \in Tabs, [Next]_vars, cookie' = cookie,
         NEW op \in {"load", "save", "logout", "login"}, NEW status \in {200, 401, 403, 429},
         NEW token \in 0..MaxLogins, Answer(t, op, status, token),
         tabs[t].page = "login" => op = "login",
         token <= logins', status = 403 => tabs[t].behind,
         op = "load" /\ ~tabs[t].behind => Agrees(token, cookie)
  PROVE  Kept
<1> DEFINE d == [step |-> "answered", op |-> op, status |-> status, token |-> token]
           row == [tabs[t] EXCEPT !.doing = d]
<1>1. tabs[t] \in Tab /\ TabOK(tabs[t], cookie, logins, LiveTokens)
  BY ActingTab
<1>2. d \in Doing
  BY DEF Doing
<1>3. d.step = "answered" /\ d.op = op /\ d.status = status /\ d.token = token
  OBVIOUS
<1>4. tabs' = [tabs EXCEPT ![t] = row]
  BY DEF Answer
<1> HIDE DEF d
<1>5. row \in Tab /\ row.page = tabs[t].page /\ row.doing = d /\ row.behind = tabs[t].behind
      /\ row.csrf = tabs[t].csrf
  BY <1>1, <1>2 DEF Tab
<1> HIDE DEF row
<1>6. TabOK(row, cookie, logins', LiveTokens')
  BY <1>1, <1>3, <1>5 DEF TabOK, UpToDate
<1> QED
  BY <1>4, <1>5, <1>6, OneTab DEF Kept

LEMMA AnswerSessionStep ==
  ASSUME IInv, NEW t \in Tabs, AnswerSession(t), [Next]_vars
  PROVE  Kept
<1> DEFINE d == tabs[t].doing
           token == IF Enabled /\ Valid(d.cookie) THEN d.cookie ELSE 0
<1>1. /\ d.step = "session" /\ UNCHANGED <<cookie, sessions, account, logins>>
  BY DEF AnswerSession, stored, counters
<1>2. /\ d \in Doing /\ tabs[t] \in Tab /\ TabOK(tabs[t], cookie, logins, LiveTokens)
      /\ cookie \in 0..MaxLogins /\ MaxLogins \in Nat /\ logins \in Nat
  BY ActingTab, LiveStep, AuthenticationAssumption
<1>3. d.op \in {"load", "save", "logout"} /\ d.cookie \in 0..MaxLogins /\ d.cookie <= logins
  BY <1>1, <1>2, DoingFields DEF TabOK
<1>4. token \in 0..MaxLogins /\ token <= logins
  BY <1>2, <1>3
<1>5. tabs[t].page = "app" /\ (~tabs[t].behind => d.cookie = cookie \/ cookie = 0)
  BY <1>1, <1>2 DEF TabOK, UpToDate, Tab
<1>6. CASE d.op = "load"
  <2>1. Answer(t, "load", IF Enabled /\ token = 0 THEN 401 ELSE 200, token)
    BY <1>6 DEF AnswerSession
  <2>2. ~tabs[t].behind => Agrees(token, cookie)
    BY <1>5 DEF Agrees
  <2> QED
    BY <1>1, <1>4, <1>5, <2>1, <2>2, AnswerStep
<1>7. CASE d.op # "load"
  <2> DEFINE e == [step |-> "token", op |-> d.op, token |-> token]
             late == tabs[t].behind \/ ~Enabled
             row == [tabs[t] EXCEPT !.doing = e, !.behind = late]
  <2>1. e \in Doing
    BY <1>3, <1>4, <1>7 DEF Doing
  <2>2. e.step = "token" /\ e.token = token
    OBVIOUS
  <2>3. tabs' = [tabs EXCEPT ![t].doing = e, ![t].behind = late]
    BY <1>7 DEF AnswerSession
  <2>4. late \in BOOLEAN
    BY <1>2 DEF Tab
  <2> HIDE DEF e
  <2>5. row \in Tab /\ row.page = "app" /\ row.doing = e /\ row.behind = late
        /\ row.csrf = tabs[t].csrf
    BY <1>2, <1>5, <2>1, <2>4 DEF Tab
  <2>6. tabs' = [tabs EXCEPT ![t] = row]
    BY <2>3 DEF IInv, TypeOK
  <2>7. ~late => Agrees(token, cookie) /\ (token = 0 => cookie \notin LiveTokens)
    <3>1. 0 \notin LiveTokens /\ (Valid(d.cookie) <=> d.cookie \in LiveTokens)
      BY <1>2, LiveIsValid DEF IInv
    <3> QED
      BY <1>5, <3>1 DEF Agrees
  <2>8. LiveTokens' = LiveTokens /\ cookie' = cookie
    BY <1>1 DEF LiveTokens
  <2> HIDE DEF row, late, token
  <2>9. TabOK(row, cookie, logins', LiveTokens')
    <3>1. late \/ Agrees(tabs[t].csrf, cookie)
      BY <1>2 DEF TabOK, UpToDate, late
    <3> QED
      BY <2>2, <2>5, <2>7, <2>8, <3>1 DEF TabOK, UpToDate
  <2> QED
    BY <2>5, <2>6, <2>8, <2>9, OneTab DEF Kept
<1> QED
  BY <1>6, <1>7

\* A token is refused with a cookie that is accepted: not the tab's own.
LEMMA RefusedIsBehind ==
  ASSUME IInv, NEW t \in Tabs, tabs[t].doing.step = "sent", tabs[t].doing.op # "login",
         Status(tabs[t].doing) = 403
  PROVE  tabs[t].behind
<1> DEFINE d == tabs[t].doing
<1>1. Valid(d.cookie) /\ (d.token = 0 \/ d.token # d.cookie)
  BY DEF Status
<1>2. d.cookie \in LiveTokens /\ 0 \notin LiveTokens
  BY <1>1, LiveIsValid, AuthenticationAssumption DEF IInv
<1> QED
  BY <1>1, <1>2, ActingTab DEF TabOK, UpToDate, Agrees

LEMMA AnswerUnsafeStep ==
  ASSUME IInv, NEW t \in Tabs, AnswerSave(t) \/ AnswerLogout(t), [Next]_vars
  PROVE  Kept
<1> DEFINE d == tabs[t].doing
<1>1. /\ d.step = "sent" /\ d.op \in {"save", "logout"} /\ cookie' = cookie
      /\ Answer(t, d.op, Status(d), 0)
  BY DEF AnswerSave, AnswerLogout
<1>2. tabs[t].page = "app" \/ tabs[t].page = "login"
  BY ActingTab DEF Tab
<1>3. tabs[t].page # "login"
  BY <1>1, ActingTab DEF TabOK
<1>4. Status(d) \in {200, 401, 403, 429}
  BY DEF Status
<1>5. Status(d) = 403 => tabs[t].behind
  BY <1>1, RefusedIsBehind
<1>6. 0 \in 0..MaxLogins /\ 0 <= logins'
  BY LiveStep, AuthenticationAssumption
<1> QED
  BY <1>1, <1>3, <1>4, <1>5, <1>6, AnswerStep

LEMMA AnswerLoginStep ==
  ASSUME IInv, NEW t \in Tabs, AnswerLogin(t), [Next]_vars
  PROVE  Kept
<1>1. cookie' = cookie /\ logins \in Nat /\ logins' \in 0..MaxLogins /\ MaxLogins \in Nat
  BY LiveStep, SessionsStep, AuthenticationAssumption DEF AnswerLogin
<1>2. \/ \E status \in {200, 401, 429} : Answer(t, "login", status, 0)
      \/ logins' = logins + 1 /\ Answer(t, "login", 200, logins + 1)
  BY DEF AnswerLogin
<1>3. 0 \in 0..MaxLogins /\ 0 <= logins' /\ (logins' = logins + 1 => logins + 1 <= logins')
  BY <1>1
<1> QED
  BY <1>1, <1>2, <1>3, AnswerStep

\* A new login page is as it should be with any cookie.
LEMMA LoginPage ==
  ASSUME NEW c, NEW n, NEW live
  PROVE  NewPage("login") \in Tab /\ TabOK(NewPage("login"), c, n, live)
<1>1. 0 \in 0..MaxLogins /\ Rest \in Doing
  BY AuthenticationAssumption DEF Rest, Doing
<1> QED
  BY <1>1 DEF NewPage, Tab, TabOK, UpToDate, Agrees, Rest

\* A tab comes to rest with the page and the token it had.
LEMMA Rests ==
  ASSUME NEW tab \in Tab, NEW c, NEW n, NEW live, TabOK(tab, c, n, live)
  PROVE  /\ [tab EXCEPT !.doing = Rest] \in Tab
         /\ TabOK([tab EXCEPT !.doing = Rest], c, n, live)
<1> DEFINE row == [tab EXCEPT !.doing = Rest]
<1>1. Rest \in Doing /\ Rest.step = "rest"
  BY DEF Rest, Doing
<1>2. row \in Tab /\ row.page = tab.page /\ row.csrf = tab.csrf /\ row.behind = tab.behind
      /\ row.doing = Rest
  BY <1>1 DEF Tab
<1> HIDE DEF row
<1>3. TabOK(row, c, n, live)
  BY <1>1, <1>2 DEF TabOK, UpToDate
<1> QED
  BY <1>2, <1>3 DEF row

LEMMA UnreachableStep ==
  ASSUME IInv, NEW t \in Tabs, Unreachable(t), [Next]_vars
  PROVE  Kept
<1> DEFINE row == IF tabs[t].doing.op = "logout" THEN NewPage("login")
                  ELSE [tabs[t] EXCEPT !.doing = Rest]
<1>1. tabs' = [tabs EXCEPT ![t] = row] /\ cookie' = cookie
  BY DEF Unreachable
<1>2. row \in Tab /\ TabOK(row, cookie, logins, LiveTokens)
  BY ActingTab, LoginPage, Rests
<1> HIDE DEF row
<1>3. TabOK(row, cookie, logins', LiveTokens')
  BY <1>1, <1>2, BrowserFrame
<1> QED
  BY <1>1, <1>2, <1>3, OneTab DEF Kept

\* Another tab has signed in.
Later(tab) == [tab EXCEPT !.behind = tab.behind \/ tab.page = "app"]

LEMMA FallsBehind ==
  ASSUME NEW tab \in Tab, NEW c, NEW d, NEW n, NEW live, TabOK(tab, c, n, live)
  PROVE  Later(tab) \in Tab /\ TabOK(Later(tab), d, n, live)
<1> DEFINE late == tab.behind \/ tab.page = "app"
<1>1. late \in BOOLEAN
  BY DEF Tab
<1>2. /\ Later(tab) \in Tab /\ Later(tab).page = tab.page /\ Later(tab).csrf = tab.csrf
      /\ Later(tab).behind = late /\ Later(tab).doing = tab.doing
  BY <1>1 DEF Tab, Later
<1>3. tab.page \in {"app", "login"}
  BY DEF Tab
<1>4. CASE late
  <2>1. Later(tab).behind = TRUE
    BY <1>2, <1>4
  <2> QED
    BY <1>2, <2>1 DEF TabOK
<1>5. CASE ~late
  <2>1. tab.page = "login" /\ tab.csrf = 0
        /\ (tab.doing.step = "rest" \/ (tab.doing.step \in {"sent", "answered"} /\ tab.doing.op = "login"))
    BY <1>3, <1>5 DEF TabOK
  <2>2. UpToDate(Later(tab), d, live)
    BY <1>2, <2>1 DEF UpToDate, Agrees
  <2>3. tab.doing.step = "answered" => tab.doing.token <= n /\ tab.doing.status # 403
    BY <1>5 DEF TabOK
  <2> QED
    BY <1>2, <2>1, <2>2, <2>3 DEF TabOK
<1> QED
  BY <1>4, <1>5

\* A tab whose answer was to a login starts again with the cookie of the browser.
Reloaded(c) ==
  [NewPage("app") EXCEPT !.doing = [step |-> "session", op |-> "load", cookie |-> c]]

LEMMA StartsAgain ==
  ASSUME NEW c \in 0..MaxLogins, NEW n, NEW live, c <= n
  PROVE  Reloaded(c) \in Tab /\ TabOK(Reloaded(c), c, n, live)
<1> DEFINE d == [step |-> "session", op |-> "load", cookie |-> c]
           row == Reloaded(c)
<1>1. d \in Doing /\ 0 \in 0..MaxLogins
  BY AuthenticationAssumption DEF Doing
<1>2. d.step = "session" /\ d.cookie = c
  OBVIOUS
<1>0. row = [NewPage("app") EXCEPT !.doing = d]
  BY DEF Reloaded
<1> HIDE DEF d, row
<1>3. row \in Tab /\ row.page = "app" /\ row.csrf = 0 /\ ~row.behind /\ row.doing = d
  BY <1>0, <1>1 DEF NewPage, Tab
<1>4. TabOK(row, c, n, live)
  BY <1>2, <1>3 DEF TabOK, UpToDate, Agrees
<1> QED
  BY <1>3, <1>4 DEF row

LEMMA ReceiveStep ==
  ASSUME IInv, NEW t \in Tabs, Receive(t), [Next]_vars
  PROVE  Kept
<1> DEFINE d == tabs[t].doing
           signedIn == d.op = "login" /\ d.status = 200
<1>1. /\ d \in Doing /\ tabs[t] \in Tab /\ TabOK(tabs[t], cookie, logins, LiveTokens)
      /\ cookie \in 0..MaxLogins /\ cookie <= logins /\ 0 \in 0..MaxLogins /\ 0 <= logins
  BY ActingTab, LiveStep, AuthenticationAssumption
<1>2. d.step = "answered" /\ UNCHANGED <<sessions, account, logins>> /\ LiveTokens' = LiveTokens
  BY DEF Receive, stored, counters, LiveTokens
<1>3. d.token \in 0..MaxLogins /\ d.token <= logins
  BY <1>1, <1>2, DoingFields DEF TabOK
<1>4. \A u \in Tabs : tabs[u] \in Tab /\ TabOK(tabs[u], cookie, logins, LiveTokens)
  BY ActingTab
<1>5. CASE signedIn
  <2>1. cookie' \in 0..MaxLogins /\ cookie' <= logins
    BY <1>1, <1>3, <1>5 DEF Receive
  <2>2. \A u \in Tabs :
          tabs'[u] = IF u # t THEN Later(tabs[u]) ELSE Reloaded(cookie')
    BY <1>5 DEF Receive, Later, Reloaded
  <2>3. \A u \in Tabs : tabs'[u] \in Tab /\ TabOK(tabs'[u], cookie', logins, LiveTokens)
    BY <1>4, <2>1, <2>2, FallsBehind, StartsAgain
  <2>4. tabs' \in [Tabs -> Tab]
    <3>1. tabs' = [u \in Tabs |-> tabs'[u]]
      BY DEF Receive
    <3> QED
      BY <2>3, <3>1
  <2> QED
    BY <1>2, <2>1, <2>3, <2>4 DEF Kept, BrowserKnows
<1>6. CASE ~signedIn
  <2> DEFINE page == IF d.status = 401 \/ d.op = "logout" THEN NewPage("login")
                     ELSE [tabs[t] EXCEPT !.doing = Rest,
                                          !.csrf = IF d.op = "load" THEN d.token ELSE @]
  <2>1. cookie' \in {cookie, 0} /\ (d.op # "logout" => cookie' = cookie)
    BY <1>6 DEF Receive
  <2>2. tabs' = [u \in Tabs |->
          IF u # t THEN [tabs[u] EXCEPT !.behind = tabs[u].behind \/ FALSE] ELSE page]
    BY <1>6 DEF Receive
  <2>3. \A u \in Tabs : u # t => tabs'[u] = tabs[u]
    <3> TAKE u \in Tabs
    <3> HAVE u # t
    <3>1. tabs'[u] = [tabs[u] EXCEPT !.behind = tabs[u].behind \/ FALSE]
      BY <2>2
    <3> QED
      BY <1>4, <3>1 DEF Tab
  <2>4. tabs'[t] = page
    BY <2>2
  <2>5. page \in Tab /\ TabOK(page, cookie', logins, LiveTokens)
    <3>1. CASE d.status = 401 \/ d.op = "logout"
      BY <3>1, LoginPage
    <3>2. CASE ~(d.status = 401 \/ d.op = "logout") /\ d.op # "load"
      <4>1. page = [tabs[t] EXCEPT !.doing = Rest]
        BY <1>1, <3>2 DEF Tab
      <4> QED
        BY <1>1, <2>1, <3>2, <4>1, Rests
    <3>3. CASE ~(d.status = 401 \/ d.op = "logout") /\ d.op = "load"
      <4> DEFINE row == [tabs[t] EXCEPT !.doing = Rest, !.csrf = d.token]
      <4>1. page = row /\ cookie' = cookie
        BY <2>1, <3>3
      <4>2. Rest \in Doing /\ Rest.step = "rest"
        BY DEF Rest, Doing
      <4>3. row \in Tab /\ row.page = tabs[t].page /\ row.doing = Rest
            /\ row.csrf = d.token /\ row.behind = tabs[t].behind
        BY <1>1, <1>3, <4>2 DEF Tab
      <4>4. tabs[t].page # "login" /\ (~tabs[t].behind => Agrees(d.token, cookie))
        BY <1>1, <1>2, <3>3 DEF TabOK, UpToDate
      <4> HIDE DEF row
      <4>5. TabOK(row, cookie, logins, LiveTokens)
        BY <4>2, <4>3, <4>4 DEF TabOK, UpToDate
      <4> QED
        BY <4>1, <4>3, <4>5
    <3> QED
      BY <3>1, <3>2, <3>3
  <2> HIDE DEF page
  <2>6. \A u \in Tabs : TabOK(tabs[u], cookie', logins', LiveTokens')
    BY <1>4, <2>1, BrowserFrame
  <2>7. \A u \in Tabs : tabs'[u] \in Tab /\ TabOK(tabs'[u], cookie', logins, LiveTokens)
    BY <1>2, <1>4, <2>3, <2>4, <2>5, <2>6
  <2>8. tabs' \in [Tabs -> Tab]
    <3>1. tabs' = [u \in Tabs |-> tabs'[u]]
      BY DEF Receive
    <3> QED
      BY <2>7, <3>1
  <2>9. cookie' \in 0..MaxLogins /\ cookie' <= logins'
    BY <1>1, <1>2, <2>1
  <2> QED
    BY <1>2, <2>7, <2>8, <2>9 DEF Kept, BrowserKnows
<1> QED
  BY <1>5, <1>6

LEMMA BrowserStep ==
  ASSUME IInv, [Next]_vars
  PROVE  Kept
<1>1. CASE UNCHANGED browser
  <2>1. \A u \in Tabs : TabOK(tabs[u], cookie', logins', LiveTokens')
    BY <1>1, ActingTab, BrowserFrame DEF browser
  <2>2. cookie' <= logins'
    BY <1>1, LiveStep DEF browser, IInv, TypeOK, BrowserKnows
  <2> QED
    BY <1>1, <2>1, <2>2 DEF browser, IInv, TypeOK, BrowserKnows, Kept
<1> QED
  BY <1>1, LoadStep, SignInStep, AskStep, SendWithTokenStep, UnreachableStep, ReceiveStep,
     AnswerSessionStep, AnswerUnsafeStep, AnswerLoginStep
     DEF Next, Boot, Serve, Go, vars, browser, Start, OpenKey, WriteKey, Initialize, Stop, Tick

-----------------------------------------------------------------------------
(* The theorems.                                                           *)

\* The list of failed logins never exceeds the limit that refuses the next one.
LEMMA FailuresStep ==
  ASSUME IInv, [Next]_vars
  PROVE  /\ failures' \in Seq(0..Window + 1) /\ Len(failures') <= FailureLimit
         /\ starts' \in 0..MaxStarts
<1> USE DEF IInv, TypeOK
<1>0. Window \in Nat /\ FailureLimit \in Nat \ {0} /\ MaxStarts \in Nat
  BY AuthenticationAssumption
<1>1. CASE UNCHANGED <<failures, starts>>
  BY <1>1
<1>2. ASSUME Start PROVE failures' = failures /\ starts' \in 0..MaxStarts
  BY <1>0, <1>2 DEF Start
<1>3. ASSUME failures' = << >>, starts' = starts
      PROVE  failures' \in Seq(0..Window + 1) /\ Len(failures') <= FailureLimit
  BY <1>0, <1>3, EmptySeq
<1>4. ASSUME Tick
      PROVE  /\ failures' \in Seq(0..Window + 1) /\ Len(failures') <= FailureLimit
             /\ starts' = starts
  <2>1. failures' = [i \in 1..Len(failures) |->
                       IF failures[i] > Window THEN failures[i] ELSE failures[i] + 1]
    BY <1>4, LenProperties DEF Tick
  <2>2. \A i \in 1..Len(failures) : failures[i] \in 0..Window + 1
    BY ElementOfSeq
  <2>3. Len(failures) \in Nat
    BY LenProperties
  <2> DEFINE n == Len(failures)
             older == [i \in 1..n |-> IF failures[i] > Window THEN failures[i] ELSE failures[i] + 1]
  <2>4. \A i \in 1..n : (IF failures[i] > Window THEN failures[i] ELSE failures[i] + 1)
                          \in 0..Window + 1
    BY <1>0, <2>2
  <2>5. failures' \in Seq(0..Window + 1) /\ Len(failures') = Len(failures)
    <3> HIDE DEF n
    <3>1. older \in [1..n -> 0..Window + 1]
      BY <2>4
    <3>2. failures' = older /\ n \in Nat
      BY <2>1, <2>3 DEF n
    <3> DEFINE Age == 0..Window + 1
    <3> HIDE DEF older, Age
    <3>0. older \in [1..n -> Age]
      BY <3>1 DEF Age
    <3>3. older \in Seq(Age) /\ Len(older) = n
      BY <3>0, <3>2, FunctionIsSeq
    <3>4. failures' \in Seq(0..Window + 1) /\ Len(failures') = n
      BY <3>2, <3>3 DEF Age
    <3> QED
      BY <3>4 DEF n
  <2> QED
    BY <1>4, <2>5 DEF Tick, counters
<1>5. ASSUME NEW t \in Tabs, AnswerLogin(t)
      PROVE  /\ failures' \in Seq(0..Window + 1) /\ Len(failures') <= FailureLimit
             /\ starts' = starts
  <2>1. Recent \in Seq(0..Window + 1) /\ Len(Recent) <= Len(failures) /\ Len(Recent) \in Nat
        /\ Len(failures) \in Nat
    BY RecentType, LenProperties
  <2>2. CASE failures' = failures \/ failures' = Recent
    BY <1>0, <1>5, <2>1, <2>2 DEF AnswerLogin
  <2>3. CASE failures' = << >>
    BY <1>3, <1>5, <2>3 DEF AnswerLogin
  <2>4. CASE Len(Recent) < FailureLimit /\ failures' = Append(Recent, 0)
    <3>1. 0 \in 0..Window + 1
      BY <1>0
    <3>2. failures' \in Seq(0..Window + 1) /\ Len(failures') = Len(Recent) + 1
      BY <2>1, <2>4, <3>1, AppendProperties
    <3> QED
      BY <1>0, <1>5, <2>1, <2>4, <3>2 DEF AnswerLogin
  <2> QED
    BY <1>5, <2>2, <2>3, <2>4 DEF AnswerLogin, Refused, Admitted
<1> QED
  BY <1>1, <1>2, <1>3, <1>4, <1>5
     DEF Next, Boot, Serve, Go, vars, stored, counters, OpenKey, WriteKey, Initialize, Stop,
         Load, Ask, SignIn, AnswerSession, AnswerSave, AnswerLogout, SendWithToken,
         Unreachable, Receive

LEMMA Initial == Init => IInv
<1> SUFFICES ASSUME Init PROVE IInv
  OBVIOUS
<1>1. /\ server = Down /\ keyFile = NoKey /\ secret = NoKey /\ account = NoAccount
      /\ sessions = {} /\ failures = << >> /\ cookie = 0 /\ out = {}
      /\ tabs = [t \in Tabs |-> NewPage("login")] /\ logins = 0 /\ starts = 0
  BY DEF Init
<1>2. \A t \in Tabs : tabs[t] \in Tab /\ TabOK(tabs[t], cookie, logins, LiveTokens)
  BY <1>1, LoginPage
<1>3. << >> \in Seq(0..Window + 1) /\ Len(<< >>) = 0
  BY EmptySeq
<1>4. Down \in Process /\ Down.at = "down"
  BY DEF Down, Process
<1>7. NoAccount \in Account
  BY DEF NoAccount, Account, Names, Passwords
<1>5. TypeOK
  BY <1>1, <1>2, <1>3, <1>4, <1>7, AuthenticationAssumption DEF TypeOK
<1>6. KeyHeld /\ SessionsCurrent /\ cookie <= logins
  BY <1>1, <1>4 DEF KeyHeld, SessionsCurrent, Enabled, Up
<1> QED
  BY <1>2, <1>5, <1>6 DEF IInv, BrowserKnows

LEMMA Invariance == Spec => []IInv
<1>1. IInv /\ [Next]_vars => IInv'
  BY KeyStep, SessionsStep, BrowserStep, FailuresStep DEF IInv, TypeOK, Kept
<1> QED
  BY Initial, <1>1, PTL DEF Spec

\* Every variable keeps its type; no list of failed logins outgrows its limit.
THEOREM TypeCorrect == Spec => []TypeOK
<1>1. IInv => TypeOK
  BY DEF IInv
<1> QED
  BY Invariance, <1>1, PTL

\* Whatever was configured before, a session that is accepted belongs to the
\* credentials in force and was not signed out of.
THEOREM SessionsCorrect == Spec => []AcceptedSessions
<1>1. IInv => AcceptedSessions
  BY DEF IInv, SessionsCurrent, AcceptedSessions
<1> QED
  BY Invariance, <1>1, PTL

\* A server that runs reads the stored API key, wherever an earlier one stopped.
THEOREM SecretCorrect == Spec => []SecretReadable
<1>1. IInv => SecretReadable
  BY DEF IInv, KeyHeld, SecretReadable, Up
<1> QED
  BY Invariance, <1>1, PTL

\* Only a tab that is behind is told that its security token is wrong.
THEOREM TokensCorrect == Spec => []OnlyStaleTokensRefused
<1>1. IInv => OnlyStaleTokensRefused
  BY DEF IInv, BrowserKnows, TabOK, OnlyStaleTokensRefused
<1> QED
  BY Invariance, <1>1, PTL
=============================================================================
