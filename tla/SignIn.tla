-------------------------------- MODULE SignIn --------------------------------
(***************************************************************************)
(* Who the hub lets in: Discord logins (the tables oauth_states, users,    *)
(* user_guilds and sessions), and the check, on every request of a server's*)
(* manager, that the user still manages it (authorize_manage and the cache *)
(* of CachedGuildChecker), with the registration of a server as the        *)
(* request.  Each lock of the database and each question put to Discord is *)
(* a step; people gain and lose rights in between.  Cookies, their         *)
(* signatures, CSRF and PKCE are right or the request is refused; the      *)
(* guild and the member that Discord is asked for count as one answer.     *)
(***************************************************************************)
EXTENDS Naturals, FiniteSets

CONSTANTS
  Users, Servers,
  States,          \* oauth_states rows
  Callbacks,       \* requests for /oauth/callback, and the sessions they mint
  Visits,          \* requests to register a server
  StateLifetime,   \* OAUTH_STATE_MAX_AGE_SECONDS
  SessionLifetime, \* session_hours
  CacheTtl,        \* POSITIVE_CACHE_TTL
  MaxLogins, LoginWindow, \* the login limiter, of one address
  Latency,         \* bound: how long Discord takes to answer
  LastInstant,     \* bound
  NoUser

ASSUME SignInConstants ==
  /\ CacheTtl \in Nat \ {0} /\ Latency \in Nat /\ LastInstant \in Nat \ {0}
  /\ SessionLifetime \in Nat /\ MaxLogins \in Nat \ {0} /\ NoUser \notin Users

VARIABLES
  instant,
  manages,     \* Discord: who holds Manage Server, a set of <<user, server>>
  bots,        \* Discord: the servers the bot is in
  held,        \* history: when each user last managed each server, 0 for never
  logins,      \* RateLimiter.hits of the address: [since, count]
  oauth,       \* States -> [at, issued]
  callback,    \* Callbacks -> [at, user, seen]
  sessions,     \* sessions rows: Callbacks -> [user, expires], user NoUser if there is none
  userGuilds,  \* rows of user_guilds that can_manage_guild accepts
  cache,       \* CachedGuildChecker.cache: [key, at]
  checker,     \* is a bot token configured?
  visit,       \* Visits -> [at, question, user, server, since, asked, verdict]
  registered   \* guilds rows

discord == <<manages, bots>>
clocked == <<instant, held>>
loginVars == <<logins, oauth, callback>>
visitVars == <<cache, visit, registered>>
signInVars ==
  <<discord, clocked, loginVars, sessions, userGuilds, visitVars, checker>>

NoSession == [user |-> NoUser, expires |-> 0]
NewCallback == [at |-> "new", user |-> NoUser, seen |-> {}]
Request(at, question, user, server, asked) ==
  [at |-> at, question |-> question, user |-> user, server |-> server,
   since |-> 0, asked |-> asked, verdict |-> FALSE]
Empty(at) == Request(at, "manage", NoUser, NoUser, 0)

CallbackStages == {"new", "exchanging", "fetched", "stored", "done", "refused"}
VisitStages == {"new", "known", "check", "asking", "answered", "done", "refused"}
CacheKeys == (Users \X Servers) \cup {<<g>> : g \in Servers}

SignInTypeOK ==
  /\ instant \in 1..LastInstant /\ manages \subseteq Users \X Servers /\ bots \subseteq Servers
  /\ held \in [Users \X Servers -> 0..LastInstant]
  /\ logins \in [since : 0..LastInstant, count : 0..MaxLogins]
  /\ oauth \in [States -> [at : {"new", "issued", "consumed", "gone"}, issued : 0..LastInstant]]
  /\ callback \in [Callbacks -> [at : CallbackStages, user : Users \cup {NoUser},
                                seen : SUBSET Servers]]
  /\ sessions \in [Callbacks -> [user : Users \cup {NoUser}, expires : Nat]]
  /\ userGuilds \in [Users -> SUBSET Servers]
  /\ cache \subseteq [key : CacheKeys, at : 1..LastInstant] /\ checker \in BOOLEAN
  /\ visit \in [Visits -> [at : VisitStages, question : {"manage", "bot"},
                          user : Users \cup {NoUser}, server : Servers \cup {NoUser},
                          since : 0..LastInstant, asked : 0..LastInstant, verdict : BOOLEAN]]
  /\ registered \subseteq Servers

SignInInit ==
  /\ instant = 1 /\ manages = Users \X Servers /\ bots = Servers
  /\ held = [x \in Users \X Servers |-> 1]
  /\ logins = [since |-> 0, count |-> 0]
  /\ oauth = [n \in States |-> [at |-> "new", issued |-> 0]]
  /\ callback = [c \in Callbacks |-> NewCallback]
  /\ sessions = [c \in Callbacks |-> NoSession]
  /\ userGuilds = [u \in Users |-> {}]
  /\ cache = {} /\ checker \in BOOLEAN
  /\ visit = [v \in Visits |-> Empty("new")] /\ registered = {}

---------------------------------------------------------------------------
\* Discord and time.

Waits(v) == visit[v].at \in {"asking", "answered"}

Tick ==
  /\ instant < LastInstant
  /\ \A v \in Visits : Waits(v) => instant - visit[v].since < Latency
  /\ instant' = instant + 1
  /\ held' = [x \in Users \X Servers |-> IF x \in manages THEN instant + 1 ELSE held[x]]
  /\ UNCHANGED <<discord, loginVars, sessions, userGuilds, visitVars, checker>>

Promote(u, g) ==
  /\ <<u, g>> \notin manages /\ manages' = manages \cup {<<u, g>>}
  /\ held' = [held EXCEPT ![<<u, g>>] = instant]
  /\ UNCHANGED <<instant, bots, loginVars, sessions, userGuilds, visitVars, checker>>

Demote(u, g) ==
  /\ manages' = manages \ {<<u, g>>} /\ manages' # manages
  /\ UNCHANGED <<bots, clocked, loginVars, sessions, userGuilds, visitVars, checker>>

RemoveBot(g) ==
  /\ g \in bots /\ bots' = bots \ {g}
  /\ UNCHANGED <<manages, clocked, loginVars, sessions, userGuilds, visitVars, checker>>

---------------------------------------------------------------------------
\* Login.

\* RateLimiter::check: a window starts with the first hit after the last one.
WindowOver == logins.count = 0 \/ instant - logins.since >= LoginWindow
WithinLimit == WindowOver \/ logins.count < MaxLogins

Login(n) ==
  /\ oauth[n].at = "new" /\ WithinLimit
  /\ logins' = IF WindowOver THEN [since |-> instant, count |-> 1]
               ELSE [logins EXCEPT !.count = @ + 1]
  /\ oauth' = [oauth EXCEPT ![n] = [at |-> "issued", issued |-> instant]]
  /\ UNCHANGED <<discord, clocked, callback, sessions, userGuilds, visitVars, checker>>

\* A callback is refused if its state is not there, used or too old.
Consumable(n) == oauth[n].at = "issued" /\ instant - oauth[n].issued <= StateLifetime

ConsumeState(c, n, u) ==
  /\ callback[c].at = "new" /\ oauth[n].at # "new"
  /\ IF Consumable(n)
     THEN /\ oauth' = [oauth EXCEPT ![n].at = "consumed"]
          /\ callback' = [callback EXCEPT ![c] = [at |-> "exchanging", user |-> u, seen |-> {}]]
     ELSE /\ callback' = [callback EXCEPT ![c].at = "refused"] /\ UNCHANGED oauth
  /\ UNCHANGED <<discord, clocked, logins, sessions, userGuilds, visitVars, checker>>

\* A callback or a visit that is over has no more to remember.
Over(at) == at \in {"done", "refused"}

StepCallback(c, from, to) ==
  /\ callback[c].at = from
  /\ callback' = [callback EXCEPT ![c] = IF Over(to) THEN [NewCallback EXCEPT !.at = to]
                                         ELSE [@ EXCEPT !.at = to]]
  /\ UNCHANGED <<discord, clocked, logins, oauth, visitVars, checker>>

\* exchange_code, fetch_user and fetch_guilds, of which only the last tells of
\* what may change: Discord lists the user's servers.
FetchGuilds(c) ==
  /\ callback[c].at = "exchanging"
  /\ callback' = [callback EXCEPT ![c] =
       [at |-> "fetched", user |-> @.user, seen |-> {g \in Servers : <<@.user, g>> \in manages}]]
  /\ UNCHANGED <<discord, clocked, logins, oauth, sessions, userGuilds, visitVars, checker>>

\* Discord fails, or the database: the state is used up all the same.
CallbackFails(c) ==
  /\ \E at \in {"exchanging", "fetched", "stored"} : StepCallback(c, at, "refused")
  /\ UNCHANGED <<sessions, userGuilds>>

\* upsert_user and replace_user_guilds
StoreUser(c) ==
  /\ StepCallback(c, "fetched", "stored")
  /\ userGuilds' = [userGuilds EXCEPT ![callback[c].user] = callback[c].seen]
  /\ UNCHANGED sessions

CreateSession(c) ==
  /\ StepCallback(c, "stored", "done")
  /\ sessions' = [sessions EXCEPT ![c] = [user |-> callback[c].user,
                                        expires |-> instant + SessionLifetime]]
  /\ UNCHANGED userGuilds

Logout(c) ==
  /\ sessions[c] # NoSession /\ sessions' = [sessions EXCEPT ![c] = NoSession]
  /\ UNCHANGED <<discord, clocked, loginVars, userGuilds, visitVars, checker>>

Expired(c) == sessions[c].expires <= instant

\* cleanup_auth_rows, hourly
Sweep ==
  /\ sessions' = [c \in Callbacks |-> IF Expired(c) THEN NoSession ELSE sessions[c]]
  /\ oauth' = [n \in States |->
                 IF oauth[n].at = "consumed" \/ (oauth[n].at = "issued"
                                                 /\ oauth[n].issued + StateLifetime <= instant)
                 THEN [at |-> "gone", issued |-> 0] ELSE oauth[n]]
  /\ UNCHANGED <<discord, clocked, logins, callback, userGuilds, visitVars, checker>>

---------------------------------------------------------------------------
\* A manager's request.

StepVisit(v, fields) ==
  /\ visit' = [visit EXCEPT ![v] = fields]
  /\ UNCHANGED <<discord, clocked, loginVars, userGuilds, checker>>
GoTo(v, at) ==
  StepVisit(v, IF Over(at) THEN Empty(at) ELSE [visit[v] EXCEPT !.at = at])

\* get_session deletes the row it finds expired.
LoadSession(v, c, g) ==
  /\ visit[v].at = "new" /\ sessions[c] # NoSession
  /\ IF Expired(c)
     THEN sessions' = [sessions EXCEPT ![c] = NoSession] /\ GoTo(v, "refused")
     ELSE /\ StepVisit(v, Request("known", "manage", sessions[c].user, g, instant))
          /\ UNCHANGED sessions
  /\ UNCHANGED <<cache, registered>>

\* user_guilds, of which can_manage_guild accepts some.
InSnapshot(v) == visit[v].server \in userGuilds[visit[v].user]

ReadSnapshot(v) ==
  /\ visit[v].at = "known"
  /\ GoTo(v, IF InSnapshot(v) THEN "check" ELSE "refused")
  /\ UNCHANGED <<sessions, cache, registered>>

Key(v) ==
  IF visit[v].question = "manage" THEN <<visit[v].user, visit[v].server>> ELSE <<visit[v].server>>
Truth(v) ==
  \/ visit[v].question = "manage" /\ Key(v) \in manages
  \/ visit[v].question = "bot" /\ visit[v].server \in bots

Register(g) == registered' = registered \cup {g}

Awaiting(r, at, since, verdict) ==
  [at |-> at, question |-> r.question, user |-> r.user, server |-> r.server,
   since |-> since, asked |-> r.asked, verdict |-> verdict]

\* What is known is asked next, or the server is registered.
Passes(v) ==
  IF visit[v].question = "manage"
  THEN /\ StepVisit(v, Request("check", "bot", visit[v].user, visit[v].server, 0))
       /\ UNCHANGED registered
  ELSE GoTo(v, "done") /\ Register(visit[v].server)

\* Mutant: an entry is never too old.
AnyAge == cache

\* cached(): what is too old is thrown out first.
Fresh == {e \in cache : instant - e.at < CacheTtl}

CheckCache(v) ==
  /\ visit[v].at = "check" /\ UNCHANGED sessions
  /\ IF ~checker THEN Passes(v) /\ UNCHANGED cache
     ELSE /\ cache' = Fresh
          /\ IF \E e \in Fresh : e.key = Key(v) THEN Passes(v)
             ELSE /\ StepVisit(v, Awaiting(visit[v], "asking", instant, FALSE))
                  /\ UNCHANGED registered

DiscordAnswers(v) ==
  /\ visit[v].at = "asking"
  /\ StepVisit(v, Awaiting(visit[v], "answered", visit[v].since, Truth(v)))
  /\ UNCHANGED <<sessions, cache, registered>>

\* remember(): an answer counts from when it is heard, and only a good one.
Remembers(key) == {e \in cache : e.key # key} \cup {[key |-> key, at |-> instant]}

Hear(v) ==
  /\ visit[v].at = "answered" /\ UNCHANGED sessions
  /\ IF visit[v].verdict THEN Passes(v) /\ cache' = Remembers(Key(v))
     ELSE GoTo(v, "refused") /\ UNCHANGED <<cache, registered>>

\* A failed request is a no; a client may also leave.
VisitFails(v) ==
  /\ visit[v].at \in {"known", "check", "asking", "answered"} /\ GoTo(v, "refused")
  /\ UNCHANGED <<sessions, cache, registered>>

\* What is under way ends, and what is only in memory is lost.
SignInRestarts ==
  /\ cache' = {} /\ logins' = [since |-> 0, count |-> 0]
  /\ callback' = [c \in Callbacks |-> IF callback[c].at \in {"new", "done"} THEN callback[c]
                                      ELSE [NewCallback EXCEPT !.at = "refused"]]
  /\ visit' = [v \in Visits |-> IF visit[v].at \in {"new", "done"} THEN visit[v]
                                ELSE Empty("refused")]
  /\ UNCHANGED <<discord, clocked, oauth, sessions, userGuilds, registered, checker>>

---------------------------------------------------------------------------
SignInNext ==
  \/ Tick \/ Sweep \/ SignInRestarts
  \/ \E u \in Users, g \in Servers : Promote(u, g) \/ Demote(u, g)
  \/ \E g \in Servers : RemoveBot(g)
  \/ \E n \in States : Login(n)
  \/ \E c \in Callbacks :
       \/ \E n \in States, u \in Users : ConsumeState(c, n, u)
       \/ FetchGuilds(c) \/ CallbackFails(c) \/ StoreUser(c)
       \/ CreateSession(c) \/ Logout(c)
  \/ \E v \in Visits :
       \/ \E c \in Callbacks, g \in Servers : LoadSession(v, c, g)
       \/ ReadSnapshot(v) \/ CheckCache(v) \/ DiscordAnswers(v) \/ Hear(v) \/ VisitFails(v)

SignInSpec == SignInInit /\ [][SignInNext]_signInVars

---------------------------------------------------------------------------
\* A request is let through as a manager's in this step.
LetThrough(v) == visit[v].question = "manage" /\ visit'[v].question = "bot"

\* With a bot token, whoever acts as a server's manager was one no longer ago
\* than a cached answer lasts and Discord takes to give it: no snapshot of a
\* login, no answer that comes late and no session that outlives the rights
\* lets a former manager in (authorize_manage, POSITIVE_CACHE_TTL).
ManagersAreCurrent ==
  [][\A v \in Visits :
       LetThrough(v) /\ checker =>
         LET last == held[<<visit[v].user, visit[v].server>>]
         IN  last > 0 /\ instant - last < CacheTtl + Latency]_signInVars

\* "Positive results are cached briefly; negatives never are, so revocation
\* takes effect immediately" (guild_check.rs): who is let through managed the
\* server at some moment since the request arrived.
RevocationIsImmediate ==
  [][\A v \in Visits :
       LetThrough(v) /\ checker =>
         held[<<visit[v].user, visit[v].server>>] >= visit[v].asked]_signInVars

===========================================================================
