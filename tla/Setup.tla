-------------------------------- MODULE Setup --------------------------------
(***************************************************************************)
(* The commands `init` and `login` (internal/setup/setup.go), the requests *)
(* that they make (internal/fizzy/session.go), and the two files that they *)
(* write (internal/config/config.go, Write, Load and SaveSessionToken).    *)
(*                                                                         *)
(* A step of them can fail, be cancelled or be the last before a crash,    *)
(* and what Fizzy did stays.  Both can run at the same time.  A file is   *)
(* truncated first and then written, the config in many small writes.      *)
(*                                                                         *)
(* A person has one email address and is a user in each of some accounts.  *)
(* Left out: the settings that have defaults, people who leave an account, *)
(* two `init` at the same time, and `doctor`, which only reads.            *)
(***************************************************************************)
EXTENDS Naturals, FiniteSets

CONSTANTS
  People,    \* email addresses
  Accounts,
  HomesOf,   \* HomesOf[p]: the accounts that p is in at the start
  Invites    \* the accounts that an invite link is for

VARIABLES
  users,       \* the users of Fizzy: <<person, account>>
  configFile,  \* the config file
  cookies,     \* cookies[u]: what the session_token file of the user u has
  init,        \* the command init: see InitRecord
  logsIn       \* the command login

setupVars == <<users, configFile, cookies, init, logsIn>>

Nobody == "nobody"
AllUsers == People \X Accounts
NoUser == <<Nobody, Nobody>>
PersonOf(u) == u[1]
AccountOf(u) == u[2]

\* config.Config.  Its directory has the name of its bot.
Config == [token : People \cup {Nobody}, bot : AllUsers \cup {NoUser}, trusted : SUBSET AllUsers]
Defaults == [token |-> Nobody, bot |-> NoUser, trusted |-> {}]

\* Write writes base_url and account_slug, token, bot_user_id,
\* trusted_user_ids and repo in this order, and then the rest.
TokenField == 1
BotField == 2
TrustedField == 3
RepoField == 4
Written == 0..RepoField

\* The content after n of them.
Prefix(cfg, n) ==
  [token   |-> IF n >= TokenField THEN cfg.token ELSE Nobody,
   bot     |-> IF n >= BotField THEN cfg.bot ELSE NoUser,
   trusted |-> IF n >= TrustedField THEN cfg.trusted ELSE {}]

\* validate.  A mutant: a config without repo is accepted.
AcceptedWithoutRepo(content, n) == content.token # Nobody /\ content.bot # NoUser
Accepted(content, n) ==
  /\ content.token # Nobody /\ content.bot # NoUser
  /\ n >= RepoField
  /\ content.bot \notin content.trusted

FileHas == Prefix(configFile.cfg, configFile.written)
Loads == Accepted(FileHas, configFile.written)

InitRecord ==
  [at : {"off", "connect", "joined", "loggedIn", "verified", "chosen", "named",
         "connected", "trusted", "writes", "cookie", "filling"},
   cfg : Config, session : People \cup {Nobody}, way : {"invite", "login", "token"},
   account : Accounts \cup {Nobody}]
LoginRecord ==
  [at : {"off", "asks", "verifies", "saves", "filling"},
   bot : AllUsers \cup {NoUser}, session : People \cup {Nobody}]

InitOff == [at |-> "off", cfg |-> Defaults, session |-> Nobody, way |-> "login", account |-> Nobody]
LoginOff == [at |-> "off", bot |-> NoUser, session |-> Nobody]

TypeOK ==
  /\ users \subseteq AllUsers
  /\ configFile.written \in Written /\ configFile.cfg \in Config
  /\ cookies \in [AllUsers -> People \cup {Nobody}]
  /\ init \in InitRecord
  /\ logsIn \in LoginRecord

Init ==
  /\ users = {u \in AllUsers : AccountOf(u) \in HomesOf[PersonOf(u)]}
  /\ configFile = [written |-> 0, cfg |-> Defaults]
  /\ cookies = [u \in AllUsers |-> Nobody]
  /\ init = InitOff /\ logsIn = LoginOff

-----------------------------------------------------------------------------
(* init *)

InitAt(from, to) == init.at = from /\ init' = [init EXCEPT !.at = to]

\* It starts from the config that exists, when that one is good.
BeginInit(way) ==
  /\ init.at = "off"
  /\ init' = [InitOff EXCEPT !.at = "connect", !.way = way,
                             !.cfg = IF Loads THEN FileHas ELSE Defaults]
  /\ UNCHANGED <<users, configFile, cookies, logsIn>>

\* createBotUser: the person, new or not, is a user of the account from now.
Join(p, a) ==
  /\ init.at = "connect" /\ init.way = "invite"
  /\ users' = users \cup {<<p, a>>}
  /\ init' = [init EXCEPT !.at = "joined", !.session = p, !.account = a]
  /\ UNCHANGED <<configFile, cookies, logsIn>>

\* magicLinkLogin: the code went to the mailbox of that person.
LogInJoined ==
  /\ InitAt("joined", "loggedIn")
  /\ UNCHANGED <<users, configFile, cookies, logsIn>>

LogInAs(p) ==
  /\ init.at = "connect" /\ init.way = "login"
  /\ init' = [init EXCEPT !.at = "verified", !.session = p]
  /\ UNCHANGED <<users, configFile, cookies, logsIn>>

Verify ==
  /\ InitAt("loggedIn", "verified")
  /\ UNCHANGED <<users, configFile, cookies, logsIn>>

\* The personal access token of a user; the websocket gets no login.
EnterToken(p) ==
  /\ init.at = "connect" /\ init.way = "token"
  /\ init' = [init EXCEPT !.at = "verified", !.cfg.token = p]
  /\ UNCHANGED <<users, configFile, cookies, logsIn>>

\* chooseAccount: the account of the invite link, or one of the person's.
Known == IF init.session = Nobody THEN init.cfg.token ELSE init.session
ChooseAccount(a) ==
  /\ init.at = "verified"
  /\ <<Known, a>> \in users
  /\ init.way = "invite" => a = init.account
  /\ init' = [init EXCEPT !.account = a,
                          !.at = CASE init.way = "invite" -> "chosen"
                                   [] init.way = "login"  -> "named"
                                   [] init.way = "token"  -> "connected"]
  /\ UNCHANGED <<users, configFile, cookies, logsIn>>

Rename ==
  /\ InitAt("chosen", "named")
  /\ UNCHANGED <<users, configFile, cookies, logsIn>>

\* A mutant: the token of the config that exists stays.
TokenKept == IF init.cfg.token # Nobody THEN init.cfg.token ELSE init.session
NewToken == init.session

CreateAccessToken ==
  /\ init.at = "named"
  /\ init' = [init EXCEPT !.at = "connected", !.cfg.token = NewToken]
  /\ UNCHANGED <<users, configFile, cookies, logsIn>>

\* chooseTrustedUsers: some of the other users of the account.
Candidates(bot) == {u \in users : AccountOf(u) = AccountOf(bot)} \ {bot}

ChooseTrusted(chosen) ==
  LET bot == <<Known, init.account>>
  IN  /\ init.at = "connected"
      /\ chosen # {} /\ chosen \subseteq Candidates(bot)
      /\ init' = [InitOff EXCEPT !.at = "trusted", !.session = init.session,
                     !.cfg = [token |-> init.cfg.token, bot |-> bot, trusted |-> chosen]]
      /\ UNCHANGED <<users, configFile, cookies, logsIn>>

Truncate ==
  /\ InitAt("trusted", "writes")
  /\ configFile' = [written |-> 0, cfg |-> init.cfg]
  /\ UNCHANGED <<users, cookies, logsIn>>

WriteField ==
  /\ init.at = "writes" /\ configFile.written < RepoField
  /\ configFile' = [configFile EXCEPT !.written = @ + 1]
  /\ UNCHANGED <<users, cookies, init, logsIn>>

ConfigWritten ==
  /\ init.at = "writes" /\ configFile.written = RepoField
  /\ init' = IF init.session = Nobody THEN InitOff ELSE [init EXCEPT !.at = "cookie"]
  /\ UNCHANGED <<users, configFile, cookies, logsIn>>

\* SaveSessionToken.
TruncateCookie ==
  /\ InitAt("cookie", "filling")
  /\ cookies' = [cookies EXCEPT ![init.cfg.bot] = Nobody]
  /\ UNCHANGED <<users, configFile, logsIn>>

SaveCookie ==
  /\ init.at = "filling"
  /\ cookies' = [cookies EXCEPT ![init.cfg.bot] = init.session]
  /\ init' = InitOff
  /\ UNCHANGED <<users, configFile, logsIn>>

\* An error, Ctrl-C or a crash.
InitStops ==
  /\ init.at # "off"
  /\ init' = InitOff
  /\ UNCHANGED <<users, configFile, cookies, logsIn>>

-----------------------------------------------------------------------------
(* login *)

BeginLogin ==
  /\ logsIn.at = "off" /\ Loads
  /\ logsIn' = [LoginOff EXCEPT !.at = "asks", !.bot = FileHas.bot]
  /\ UNCHANGED <<users, configFile, cookies, init>>

\* The person at the keyboard gives an address, also the wrong one.
LoginAs(p) ==
  /\ logsIn.at = "asks"
  /\ logsIn' = [logsIn EXCEPT !.at = "verifies", !.session = p]
  /\ UNCHANGED <<users, configFile, cookies, init>>

\* verifySessionUser.  A mutant: any login is taken.
AnyLogin(p, bot) == TRUE
IsClaude(p, bot) == \E a \in Accounts : <<p, a>> \in users /\ <<p, a>> = bot

VerifySessionUser ==
  /\ logsIn.at = "verifies"
  /\ logsIn' = IF IsClaude(logsIn.session, logsIn.bot)
               THEN [logsIn EXCEPT !.at = "saves"] ELSE LoginOff
  /\ UNCHANGED <<users, configFile, cookies, init>>

TruncateLogin ==
  /\ logsIn.at = "saves"
  /\ logsIn' = [logsIn EXCEPT !.at = "filling"]
  /\ cookies' = [cookies EXCEPT ![logsIn.bot] = Nobody]
  /\ UNCHANGED <<users, configFile, init>>

SaveLogin ==
  /\ logsIn.at = "filling"
  /\ cookies' = [cookies EXCEPT ![logsIn.bot] = logsIn.session]
  /\ logsIn' = LoginOff
  /\ UNCHANGED <<users, configFile, init>>

LoginStops ==
  /\ logsIn.at # "off"
  /\ logsIn' = LoginOff
  /\ UNCHANGED <<users, configFile, cookies, init>>

-----------------------------------------------------------------------------

InitCommand ==
  \/ \E way \in {"invite", "login", "token"} : BeginInit(way)
  \/ \E p \in People, a \in Invites : Join(p, a)
  \/ \E p \in People : LogInAs(p) \/ EnterToken(p)
  \/ LogInJoined \/ Verify \/ Rename \/ CreateAccessToken
  \/ \E a \in Accounts : ChooseAccount(a)
  \/ \E chosen \in SUBSET AllUsers : ChooseTrusted(chosen)
  \/ Truncate \/ WriteField \/ ConfigWritten \/ TruncateCookie \/ SaveCookie \/ InitStops

LoginCommand ==
  \/ BeginLogin \/ VerifySessionUser \/ TruncateLogin \/ SaveLogin \/ LoginStops
  \/ \E p \in People : LoginAs(p)

Next == InitCommand \/ LoginCommand

-----------------------------------------------------------------------------
(* Properties *)

\* A config that a command accepts is one that init finished to put together:
\* its token is one of its bot, and it has trusted people, who are users of
\* the account of the bot and not the bot itself; also when init was stopped
\* in the middle of Write over a config of another user.
ConfigIsOfOneUser ==
  Loads =>
    /\ FileHas.token = PersonOf(FileHas.bot)
    /\ FileHas.trusted # {}
    /\ FileHas.trusted \subseteq Candidates(FileHas.bot)

\* The websocket login of a data directory is one of its bot: "the websocket
\* of a different user would give signals for the wrong person" (setup.go,
\* verifySessionUser), also when init changes the config while login waits
\* for the code.
CookieIsBots ==
  \A u \in AllUsers : cookies[u] \in {PersonOf(u), Nobody}
=============================================================================
