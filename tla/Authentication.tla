--------------------------- MODULE Authentication ---------------------------
(***************************************************************************)
(* Server mode: one account whose credentials come from the environment,   *)
(* its sessions, the throttling of logins, the key file that encrypts the  *)
(* stored API key, and the tabs of one browser, which share the session    *)
(* cookie and keep a security token each.  The server may stop at any      *)
(* step and start with another environment.                                *)
(***************************************************************************)
EXTENDS Integers, Sequences

CONSTANTS
  Tabs,
  Configs,       \* environments: [mode, user, password, key]
  Keys,
  NoKey,         \* APP_ENCRYPTION_KEY is not set; there is no key file
  FailureLimit,  \* failed logins of a window before logins are refused, 5
  Window,        \* how long a failed login counts, 300 s, in ticks
  Lifetime,      \* APP_SESSION_LIFETIME_SECONDS, in ticks
  MaxLogins,     \* bound: successful logins
  MaxStarts      \* bound: starts of the server

Config == [mode : {"server", "development"}, user : STRING, password : STRING,
           key : Keys \cup {NoKey}]

ASSUME AuthenticationAssumption ==
  /\ Tabs # {} /\ Configs \subseteq Config /\ NoKey \notin Keys
  /\ \A c \in Configs : c.mode = "server" => c.key # NoKey
  /\ FailureLimit \in Nat \ {0} /\ Window \in Nat /\ Lifetime \in Nat \ {0}
  /\ MaxLogins \in Nat /\ MaxStarts \in Nat

VARIABLES
  server,    \* the process: where its start-up is, its environment, the key it uses
  keyFile,   \* .secret-key: NoKey, "empty" or a key
  secret,    \* the key the stored API key is encrypted with, or NoKey
  account,   \* the row of users
  sessions,  \* the rows of sessions
  failures,  \* ages of the failed logins of the browser's host, oldest first
  cookie,    \* the browser's session cookie, 0 without
  tabs,      \* the tabs of the browser
  logins,    \* successful logins so far; a session is named by its number
  out,       \* sessions whose sign-out the server has answered
  starts     \* starts so far

stored == <<keyFile, secret, account, sessions>>
browser == <<cookie, tabs>>
counters == <<logins, out, starts>>
vars == <<server, stored, failures, browser, counters>>

Session == 1..MaxLogins
Credentials == {[user |-> c.user, password |-> c.password] : c \in Configs}
NoAccount == [user |-> "", password |-> "", version |-> 0]

\* What a tab is doing: nothing; asking for the session (csrf cached only from
\* its answer); or waiting for the server, then for the page to see the answer.
Doing ==
  [step : {"rest"}]
    \cup [step : {"session"}, op : {"load", "save", "logout"}, cookie : 0..MaxLogins]
    \cup [step : {"token"}, op : {"save", "logout"}, token : 0..MaxLogins]
    \cup [step : {"sent"}, op : {"save", "logout"},
          cookie : 0..MaxLogins, token : 0..MaxLogins]
    \cup [step : {"sent"}, op : {"login"}, with : Credentials]
    \cup [step : {"answered"}, op : {"load", "save", "logout", "login"},
          status : {200, 401, 403, 429}, token : 0..MaxLogins]
Rest == [step |-> "rest"]

\* behind: since the page was loaded another tab has signed in, or the answer
\* that was to name the token came from development mode, which has none.
Tab == [page : {"app", "login"}, csrf : 0..MaxLogins, behind : BOOLEAN, doing : Doing]

\* SecretBox keeps the key it has read or written for as long as it lives.
Process == [at : {"down"}]
             \cup [at : {"key", "write"}, config : Configs]
             \cup [at : {"account", "up"}, config : Configs, key : Keys]
Names == {c.user : c \in Configs} \cup {""}
Passwords == {c.password : c \in Configs} \cup {""}
Account == [user : Names, password : Passwords, version : Nat]
SessionRow == [id : Session, version : Nat, left : 0..Lifetime, made : Credentials]

TypeOK ==
  /\ server \in Process
  /\ keyFile \in Keys \cup {NoKey, "empty"} /\ secret \in Keys \cup {NoKey}
  /\ account \in Account /\ sessions \subseteq SessionRow
  /\ failures \in Seq(0..Window + 1) /\ Len(failures) <= FailureLimit
  /\ cookie \in 0..MaxLogins /\ tabs \in [Tabs -> Tab]
  /\ logins \in 0..MaxLogins /\ out \subseteq Session /\ starts \in 0..MaxStarts

-----------------------------------------------------------------------------
Down == [at |-> "down"]
Up == server.at = "up"
Enabled == Up /\ server.config.mode = "server"
NewPage(page) == [page |-> page, csrf |-> 0, behind |-> FALSE, doing |-> Rest]

Init ==
  /\ server = Down
  /\ keyFile = NoKey /\ secret = NoKey /\ account = NoAccount /\ sessions = {}
  /\ failures = << >>
  /\ cookie = 0 /\ tabs = [t \in Tabs |-> NewPage("login")]
  /\ logins = 0 /\ out = {} /\ starts = 0

\* The lifespan of the application: the key file, then the account.
Start ==
  /\ server = Down /\ starts < MaxStarts
  /\ \E c \in Configs : server' = [at |-> "key", config |-> c]
  /\ starts' = starts + 1
  /\ UNCHANGED <<stored, failures, browser, logins, out>>

\* SecretBox: an existing file must hold the key of the environment.
KeyMatches(c) == keyFile \in Keys /\ c.key \in {NoKey, keyFile}

\* Mutant of Opened: a key of the environment is used in place of the file's.
OpenedWithEnvironment(c) ==
  IF keyFile \in Keys
  THEN [at |-> "account", config |-> c, key |-> IF c.key = NoKey THEN keyFile ELSE c.key]
  ELSE Down

Opened(c) ==
  IF KeyMatches(c) THEN [at |-> "account", config |-> c, key |-> keyFile] ELSE Down

OpenKey ==
  /\ server.at = "key"
  /\ IF keyFile = NoKey
     THEN /\ keyFile' = "empty"
          /\ server' = [server EXCEPT !.at = "write"]
     ELSE /\ server' = Opened(server.config)
          /\ UNCHANGED keyFile
  /\ UNCHANGED <<secret, account, sessions, failures, browser, counters>>

WriteKey ==
  /\ server.at = "write"
  /\ keyFile' \in IF server.config.key = NoKey THEN Keys ELSE {server.config.key}
  /\ server' = [at |-> "account", config |-> server.config, key |-> keyFile']
  /\ UNCHANGED <<secret, account, sessions, failures, browser, counters>>

\* Mutant of Changed: the stored password hash is not verified.
ChangedUser(c) == account.user # c.user

\* AuthService.initialize and reconcile_user, one transaction.
Changed(c) == account.user # c.user \/ account.password # c.password

Initialize ==
  /\ server.at = "account"
  /\ server' = [server EXCEPT !.at = "up"]
  /\ LET c == server.config IN
     IF c.mode = "server" /\ (account = NoAccount \/ Changed(c))
     THEN /\ account' = [user |-> c.user, password |-> c.password,
                         version |-> account.version + 1]
          /\ sessions' = {}
     ELSE UNCHANGED <<account, sessions>>
  /\ UNCHANGED <<keyFile, secret, failures, browser, counters>>

\* The process stops; the throttling is kept in memory only.
Stop ==
  /\ server # Down
  /\ server' = Down /\ failures' = << >>
  /\ UNCHANGED <<stored, browser, counters>>

\* _check_rate_limit and create_session compare with the clock.
Tick ==
  /\ failures' = [i \in DOMAIN failures |->
                    IF failures[i] > Window THEN failures[i] ELSE failures[i] + 1]
  /\ sessions' = {[s EXCEPT !.left = IF s.left = 0 THEN 0 ELSE s.left - 1] : s \in sessions}
  /\ UNCHANGED <<server, keyFile, secret, account, browser, counters>>

-----------------------------------------------------------------------------
(* The server's answers. *)

\* AuthRepository.session: the row of the cookie, unexpired and of this version.
Valid(token) ==
  \E s \in sessions : s.id = token /\ s.left > 0 /\ s.version = account.version

\* authentication_middleware: session first, then the security token.
Status(request) ==
  IF ~Enabled THEN 200
  ELSE IF ~Valid(request.cookie) THEN 401
  ELSE IF request.token = 0 \/ request.token # request.cookie THEN 403
  ELSE 200

Answer(t, op, status, token) ==
  tabs' = [tabs EXCEPT ![t].doing =
             [step |-> "answered", op |-> op, status |-> status, token |-> token]]

\* GET /auth/session, for the header of a page or before an unsafe request.
AnswerSession(t) ==
  LET d == tabs[t].doing
      token == IF Enabled /\ Valid(d.cookie) THEN d.cookie ELSE 0
  IN /\ d.step = "session" /\ Up
     /\ IF d.op = "load"
        THEN Answer(t, "load", IF Enabled /\ token = 0 THEN 401 ELSE 200, token)
        ELSE tabs' = [tabs EXCEPT ![t].doing = [step |-> "token", op |-> d.op, token |-> token],
                                  ![t].behind = @ \/ ~Enabled]
     /\ UNCHANGED <<server, stored, failures, cookie, counters>>

\* An unsafe request: settings are saved, encrypted with the server's key.
AnswerSave(t) ==
  LET d == tabs[t].doing IN
  /\ d.step = "sent" /\ d.op = "save" /\ Up
  /\ Answer(t, "save", Status(d), 0)
  /\ secret' = IF Status(d) = 200 THEN server.key ELSE secret
  /\ UNCHANGED <<server, keyFile, account, sessions, failures, cookie, counters>>

\* delete_session, of whatever the cookie names.
LoggedOut(token) == {s \in sessions : s.id # token}

AnswerLogout(t) ==
  LET d == tabs[t].doing IN
  /\ d.step = "sent" /\ d.op = "logout" /\ Up
  /\ Answer(t, "logout", Status(d), 0)
  /\ IF Status(d) = 200
     THEN sessions' = LoggedOut(d.cookie) /\ out' = out \cup ({d.cookie} \ {0})
     ELSE UNCHANGED <<sessions, out>>
  /\ UNCHANGED <<server, keyFile, secret, account, failures, cookie, logins, starts>>

\* _check_rate_limit pops what is too old off the front; a refused login is not a
\* failure.
Recent ==
  LET young == {i \in DOMAIN failures : failures[i] <= Window}
      first == CHOOSE i \in young : \A j \in young : i <= j
  IN  IF young = {} THEN << >> ELSE SubSeq(failures, first, Len(failures))

Admitted == Len(Recent) < FailureLimit

\* Mutant of Refused: a login that is refused counts as a failure.
RefusedCounts == Append(Tail(Recent), 0)

Refused == Recent

NewSession == [id |-> logins + 1, version |-> account.version, left |-> Lifetime,
               made |-> [user |-> server.config.user, password |-> server.config.password]]

AnswerLogin(t) ==
  LET d == tabs[t].doing IN
  /\ d.step = "sent" /\ d.op = "login" /\ Up
  /\ \/ /\ ~Enabled
        /\ Answer(t, "login", 200, 0) /\ UNCHANGED <<sessions, failures, logins>>
     \/ /\ Enabled /\ ~Admitted
        /\ failures' = Refused
        /\ Answer(t, "login", 429, 0) /\ UNCHANGED <<sessions, logins>>
     \/ /\ Enabled /\ Admitted
        /\ d.with.user # account.user \/ d.with.password # account.password
        /\ failures' = Append(Recent, 0)
        /\ Answer(t, "login", 401, 0) /\ UNCHANGED <<sessions, logins>>
     \/ /\ Enabled /\ Admitted /\ logins < MaxLogins
        /\ d.with.user = account.user /\ d.with.password = account.password
        /\ failures' = << >>
        /\ sessions' = {s \in sessions : s.left > 0} \cup {NewSession}
        /\ logins' = logins + 1
        /\ Answer(t, "login", 200, logins + 1)
  /\ UNCHANGED <<server, keyFile, secret, account, cookie, out, starts>>

-----------------------------------------------------------------------------
(* The tabs. *)

\* A page is opened or reloaded; its header asks for the session.
Load(t) ==
  /\ tabs[t].doing = Rest
  /\ tabs' = [tabs EXCEPT ![t] =
       [NewPage("app") EXCEPT !.doing = [step |-> "session", op |-> "load", cookie |-> cookie]]]
  /\ UNCHANGED <<server, stored, failures, cookie, counters>>

Send(t, op, token) ==
  tabs' = [tabs EXCEPT ![t].doing =
             [step |-> "sent", op |-> op, cookie |-> cookie, token |-> token],
           ![t].csrf = token]

\* Mutant of Known: the token is never asked for.
KnownAlways(token) == TRUE

Known(token) == token # 0

\* ApiClient.request of an unsafe method: ensureCsrfToken, then the request.
Ask(t, op) ==
  /\ tabs[t].page = "app" /\ tabs[t].doing = Rest
  /\ IF Known(tabs[t].csrf)
     THEN Send(t, op, tabs[t].csrf)
     ELSE tabs' = [tabs EXCEPT ![t].doing = [step |-> "session", op |-> op, cookie |-> cookie]]
  /\ UNCHANGED <<server, stored, failures, cookie, counters>>

SendWithToken(t) ==
  /\ tabs[t].doing.step = "token"
  /\ Send(t, tabs[t].doing.op, tabs[t].doing.token)
  /\ UNCHANGED <<server, stored, failures, cookie, counters>>

\* LoginPage: the form, with any credentials.
SignIn(t) ==
  /\ tabs[t].page = "login" /\ tabs[t].doing = Rest
  /\ \E c \in Credentials \ {[user |-> "", password |-> ""]} :
       tabs' = [tabs EXCEPT ![t].doing = [step |-> "sent", op |-> "login", with |-> c]]
  /\ UNCHANGED <<server, stored, failures, cookie, counters>>

\* fetch fails: network_error; signing out goes to the login page regardless.
Unreachable(t) ==
  /\ server = Down /\ tabs[t].doing.step \in {"session", "sent"}
  /\ tabs' = [tabs EXCEPT ![t] = IF @.doing.op = "logout" THEN NewPage("login")
                                 ELSE [@ EXCEPT !.doing = Rest]]
  /\ UNCHANGED <<server, stored, failures, cookie, counters>>

\* The browser takes the cookie of an answer, then the page acts on it: 401
\* leaves for the login page, a login for the page that was asked for.
Receive(t) ==
  LET d == tabs[t].doing
      page == IF d.status = 401 \/ d.op = "logout" THEN NewPage("login")
              ELSE [tabs[t] EXCEPT !.doing = Rest,
                                   !.csrf = IF d.op = "load" THEN d.token ELSE @]
      signedIn == d.op = "login" /\ d.status = 200
  IN /\ d.step = "answered"
     /\ cookie' = CASE signedIn /\ d.token # 0 -> d.token
                    [] d.op = "logout" /\ d.status = 200 -> 0
                    [] OTHER -> cookie
     /\ tabs' = [u \in Tabs |->
          IF u # t THEN [tabs[u] EXCEPT !.behind = @ \/ (signedIn /\ tabs[u].page = "app")]
          ELSE IF signedIn
          THEN [NewPage("app") EXCEPT !.doing = [step |-> "session", op |-> "load", cookie |-> cookie']]
          ELSE page]
     /\ UNCHANGED <<server, stored, failures, counters>>

Serve(t) == AnswerSession(t) \/ AnswerSave(t) \/ AnswerLogout(t) \/ AnswerLogin(t)
Go(t) == SendWithToken(t) \/ Unreachable(t) \/ Receive(t)

Boot == OpenKey \/ WriteKey \/ Initialize

Next ==
  \/ Start \/ Boot \/ Stop \/ Tick
  \/ \E t \in Tabs :
       \/ Load(t) \/ Ask(t, "save") \/ Ask(t, "logout") \/ SignIn(t)
       \/ Serve(t) \/ Go(t)

Spec == Init /\ [][Next]_vars

-----------------------------------------------------------------------------
\* Time passes.
FairSpec == Spec /\ WF_vars(Tick)

\* A session that is accepted was created under the credentials the server runs
\* with now (reconcile_user), whatever was configured in between, and its user
\* has not signed out of it.
AcceptedSessions ==
  Enabled => \A s \in sessions :
    Valid(s.id) => /\ s.made.user = server.config.user
                   /\ s.made.password = server.config.password
                   /\ s.id \notin out

\* A server that runs holds the key that the stored API key was encrypted with,
\* which an earlier server may have generated or taken from another environment,
\* and does not run with another key than its own environment names (SecretBox).
SecretReadable ==
  Up => /\ secret # NoKey => secret = server.key
        /\ server.config.key \in {NoKey, server.key}

\* A tab is told that its security token is wrong only if another tab has
\* signed in since the tab was loaded, or the server was in development mode
\* when the tab asked for its token and is not any more (ensureCsrfToken, and
\* the reload of every page after a login).
OnlyStaleTokensRefused ==
  \A t \in Tabs :
    tabs[t].doing.step = "answered" /\ tabs[t].doing.status = 403 => tabs[t].behind

\* A host that is refused because of failed logins is admitted again, even if
\* the user keeps on trying meanwhile.
RefusalEnds == ~Admitted ~> Admitted

\* Not so: signing out leaves the session alive if the tab's token is stale,
\* since LogoutButton goes to the login page whatever the answer is.
SignedOutAtLogin ==
  [][\A t \in Tabs :
       tabs[t].doing.step = "answered" /\ tabs[t].doing.op = "logout" /\ tabs'[t].doing = Rest
         => tabs[t].doing.status # 403]_vars

\* Not so: a crash between the creation of the key file and its first write
\* leaves an empty file, which no later start accepts.
KeyFileUsable == server = Down => keyFile # "empty"
=============================================================================
