# Concordia Federation in TLA+

Models of the Concordia Federation, the central identity and presence service of the
Concordia chat network: an Express and Socket.IO process in front of PostgreSQL. The modules
here state what its sessions, logins, identity tokens, e-mailed links, two-factor
authentication, presence, server list and dashboard promise, model-check the code's behaviour
against it on small instances, and prove nearly all of it for instances of any size.

Paths of the form `sessions.js:54` are relative to `src/src/` and its subdirectories.

## 1. The system

One Node.js process, one database. A handler runs without interruption up to its next
`await`. Each statement against PostgreSQL is an `await` and no handler opens a transaction,
so **a request is a sequence of atomic steps, and the steps of concurrent requests
interleave**. Handlers can fail after any statement (answered 500) and nothing takes up what
they leave. The hard behaviours of the program are all of this kind: read in one statement
and write in a later one, write first and broadcast later, timers against reconnections, and
failures between two statements.

| Component | State | Operations | Talks to |
|---|---|---|---|
| Refresh-token sessions (`services/sessions.js`) | `refresh_tokens` | issue, rotate, revoke one, revoke all of an account | called by the auth and MFA handlers |
| Identity-token revocation (`services/sessions.js`, `middleware/requireAuth.js`) | `revoked_jtis` | revokeJti, isJtiRevoked, (prune, never called) | logout, mfa/verify, every authenticated request, socket handshake |
| Auth handlers (`controllers/authController.js`) | `users` | register, login, refresh, logout, server token | sessions, tokens, mailer |
| Login lockout (`controllers/authController.js`) | `auth_failures` | checkLockout, recordFailure, clearFailures | login, password reset |
| E-mailed links (`authController.js`, `services/mailer.js`) | `email_tokens`, `users.email_verified`, `users.password_hash` | request and confirm a verification, request and confirm a reset | mailer (HTTP), sessions |
| Two-factor authentication (`controllers/mfaController.js`, `services/totp.js`) | `user_mfa`, `revoked_jtis` | setup, enable, disable, verify | login, sessions |
| Token signing (`services/tokens.js`, `config/keys.js`) | key pair loaded once | sign and verify identity, server and MFA tokens | JWKS endpoint |
| Presence (`socket/index.js`) | in memory: `sessions`, `offlineTimers`, callbacks in flight | connect, disconnect, timer, push to the dashboard | `user_settings`, the emitter |
| Status handlers (`controllers/userController.js`) | `user_settings` | setStatus, heartbeat, getStatus | emitter |
| Emitter (`socket/emitter.js`) | none | broadcasts to the presence room and to per-account rooms | Socket.IO |
| Settings (`settingsController.js`) | `user_settings` | read, upsert | emitter (`settings_sync`) |
| Server list (`serversController.js`, `routes/servers.js`) | `user_servers` | read, add; edit and remove are refused by their routes | emitter (`server_list_sync`) |
| Admin (`controllers/adminController.js`) | `users`, `user_settings` | list, update, delete accounts; metrics | emitter, presence |
| Dashboard page (`public/dashboard/app.js`) | in the browser: the list, an edit form, a delete dialog, requests in flight | load, open, type, save, delete | the admin handlers |
| Internal API, metrics, other web pages, key script | counters only | read-only queries, fire-and-forget counters | |

What makes each component correct:

- **Sessions**: one usable token per session; the old token dies before the new one is handed
  out; a session that was ended by logout, reuse, reset, expiry or deletion does not come back.
- **Presence**: every departure is eventually written offline, or the user is back; no timer
  survives the Map entry that could cancel it; observers agree with the table.
- **E-mailed links**: acted on at most once, and only for the account and the purpose they
  were made for; they reach only mailboxes of that account.
- **Two-factor authentication**: an mfa_token opens one session, a backup code works once, 2FA
  is switched on only with a confirmed secret and off only by an accepted code.
- **Lockout**: the fifth wrong password within the window locks the address for the window; requests
  in flight are the only way past it; no failure shortens a lock; a reset ends what an older password opened, but for what
  was past its check when the sweep ran.
- **Identity tokens**: a logout ends its session; a token that a logout listed or time ended is refused for ever, and
  one that a change of key made void comes back only with its key.
- **Server list**: a new server is placed last, positions have no gap, and the last list broadcast is the stored one.
- **Dashboard**: what is typed for one account is never saved for another; the list is current once
  nothing is under way, but for accounts that have registered since; the owner's sessions follow the stored settings.

## 2. The modules

| Module | Models | Source |
|---|---|---|
| `RefreshTokens` | rotation, reuse detection and every handler that mints or ends sessions | `services/sessions.js`, `authController.js`, `adminController.js`, `db/schema.sql` |
| `Session` | the abstract promise of a session | |
| `PasswordReset` | `RefreshTokens` with a record of the sessions each reset was to close | `authController.js:379-411` |
| `EmailTokens` | creating, mailing, redeeming and acting on links, with the admin moving addresses | `authController.js`, `mailer.js`, `adminController.js` |
| `OneShot` | the abstract promise of a single-use token | |
| `Mfa` | `user_mfa`, backup codes, mfa_tokens and their blacklist | `mfaController.js`, `totp.js`, `sessions.js`, `tokens.js` |
| `Presence` | socket registry, offline timers, every writer of a status, both kinds of observer | `socket/index.js`, `userController.js`, `emitter.js`, `adminController.js` |
| `Login` | login with its lockout, the password reset and a clock | `authController.js` |
| `Identity` | identity and server tokens, the blacklist, the signing key, restarts | `tokens.js`, `keys.js`, `requireAuth.js`, `requireAdmin.js`, `sessions.js`, `authController.js` |
| `ServerList` | additions to the list and the broadcasts they start | `serversController.js`, `routes/servers.js`, `emitter.js` |
| `Dashboard` | the page's list, form and dialog against the handlers behind them and the owner's own settings | `dashboard/app.js`, `adminController.js`, `settingsController.js` |
| `<module>Proofs` | the proofs about `RefreshTokens`, `EmailTokens`, `Presence`, `Login`, `Identity`, `Mfa`, `ServerList` and `Dashboard` | |
| `MC<module>` | symmetry sets and the constants of the runs | |

Conventions, the same in each:

- The variables of a module are listed in groups: the tables, the process (one slot per
  request in flight, with the handler's local variables and `pc`, the `await` it stands at),
  the clients or observers, and *history* variables that only properties read.
- One action per statement or synchronous stretch of code. `Start...` is a handler up to the
  point where its first statement has answered; `Fail` is a 4xx, a 500 or a crash at any `await`.
- Tokens, secrets and batches of backup codes are numbers in the order of their INSERT or
  creation. The order is what the properties compare; the bits are not modelled: they are random, and
  only their owner knows them.
- Each `Mut...` definition is a plausible bug in the definition that follows it, and is used
  only to see that some property notices it.

### RefreshTokens

`rows`, `owner`, `revoked`, `replaced_by`, `expired` are the columns of `refresh_tokens`; all
rows have one lifetime, so they expire in the order of their INSERTs and `expired` is a
number. `delivered` is what clients have ever received: a client may present any of it
again at any time, old or revoked tokens included. A rotation goes through
`StartRefresh`, `AcceptToken` (SELECT), `InsertNext`, `RetireRow` (UPDATE), `CheckAccount`
and `Reply`; a revoked token goes to `DetectReuse` and `Sweep`. `DeleteUser` cascades to the
rows, and from then on the foreign key refuses INSERTs: `RowsOwned`, a part of `TypeOK`, says that no row
outlives its account, whatever request was under way. `parent` and `family` record the lineage of a token,
`overlapped` the sessions in which two rotations of one token ran at the same time.

`Session` is what all this promises a client: it receives the next token of an open session only when it has no
other that works, a token that stopped working never works again, and a closed session stays closed. `SessionPromise` is the
refinement: `usable` is what a client still holds of a session and could trade (`Usable`), `closed` the sessions that are
`Over`, `loose` is `overlapped`. Statements that change none of this are stutters, as most are. A token
may reach its client after a sweep has revoked it (`GiveDead`), and an expiry or a sweep ends several tokens and sessions at once (`End`).

### PasswordReset

Adds `cut`, the sessions an account had when a reset swept it, and `missed`, those of them that a refresh stood between its
SELECT and its INSERT for. It restricts nothing: `Handlers` are the steps of `RefreshTokens`. `ResetClosesSessions` is violated;
`OnlyRotationsEscape` says how far that goes, and is a theorem.

### EmailTokens and OneShot

A link is created (`CreateEmailToken`), sent to the address that the handler read *before*
(`SendEmail`), marked used by one `UPDATE ... RETURNING` (`ConfirmLink`) and acted on by a
second statement (`ConfirmEmailVerify`, `ConfirmPasswordReset`). Mail may be lost (`Fail`), links
lapse, the admin moves addresses and deletes accounts at any moment. `effects` counts how
often a link was acted on. `OneShot` is the promise: a token is issued, and then honoured at most once.
`LinkPromise` is the refinement, with `issued <- 1..issued`, `honoured <- effects`; no link is ever `loose`. Because
`honoured` is a counter, acting twice on a link is a step of its own and not a stutter.
`OwnMailOnly` promises no more than an address the account has *had*: a handler reads it once, before it creates the row.
Nor does `ChangesEarned` say that the address marked verified is the one its link was sent to: the code compares no address, and
once the admin has changed it an old link verifies the new one.
The sweep of sessions that ends a reset belongs to `PasswordReset`.

### Mfa

A TOTP code is the code that its secret shows; a client knows it if the secret was made
(`Known`). RFC 6238 and the tolerance of one time step are taken as given. `setup`, `enable`, `disable` and
`verify` are split at each statement; `checkAnyCode` is inlined in the two handlers that call it:
`AcceptTotp` or `FindBackupCode` and then `ConsumeBackupCode`. `doubled` records the mfa_tokens and
backup codes that two requests held at once; `raced` the accounts for which a setup and
an enable overlapped. mfa_tokens and backup codes are both meant to be single-use, and both refine `OneShot`: `TokenPromise` with
`honoured <- sessions`, `CodePromise` with `honoured <- uses`. `doubled` are the `loose` ones.

### Presence

`sessions` and `offlineTimers` are the two Maps. `armed` counts the timers of an account in the event loop: the
Map only knows the last one, which is what makes the question interesting. `updating` and `emitting` count timer callbacks that
await their UPDATE and that have yet to broadcast. `setStatus` is two steps, write and broadcast; the
heartbeat, the admin and a deletion write without a broadcast. `shown` is the last
`status_change` the presence room saw, `adminUsers` and `adminSockets` the last
`admin_presence_update`. `departed` marks an account whose last socket left and of which
nothing has come yet. `idle` and `dnd` travel exactly as `online` does and are left out. `muddled` marks accounts whose last change was silent or
had overlapping writers. A socket that closes stands for the next one opened with the same name.
The username query of a connection outlives its socket (`looking`), as in the code.
`Followed` bounds an instance: accounts outside it connect and disconnect, but their timers do not fire and nobody writes
their status. Timers and writes touch one account at a time, while the dashboard's snapshot is of all of them, so it
takes a second account to see a count that is more than one too high.

### Login

Logins and resets of one address, each at one of its statements: `CheckLockout`, then the SELECT and
bcrypt (`read`), then `recordFailure`, or `clearFailures` and the session that `mint` opens; a reset goes
through `update`, `sweep` and `forget`. With 2FA on, `SignMfaToken` ends the login instead, and `VerifyMfa` opens the session later,
without the password; `StartRefresh` is a rotation up to its INSERT. `mfa_tokens` and `live` are sets of passwords, those behind the tokens
and sessions there are: which token of two with one password makes no difference here, and how often one can be used is the subject of
`Mfa` and `RefreshTokens`. An address without an account is locked like any other, as in the code. Time is relative:
`since` is the age of the last failure, `lockLeft` what is left of the lock, and `Tick` moves both, so the clock needs no
bound. A password is its number; `Wrong` is a guess that is no password, now or ever. `tried` counts
the wrong guesses that bcrypt compared, which is what a lockout is there to bound. Three history variables name what
the code does not promise: a failed `recordFailure` (`lost`), a reset that failed before its sweep (`unswept`), and the passwords that were past
their check when the last sweep ran and could open a session behind it (`escaped`): of a login, refresh or mfa/verify in flight, or of an
mfa_token. `OldPasswordOut` says that nothing else keeps a session of an old password alive.

### Identity

Token *t* is the pair that login and refresh answer with, its JWT and its refresh token; a server token
has no second half. `Accepted(t)` is `verifyIdentityToken` and the blacklist together: key, audience, lifetime, `jti`. A
request is presented, checked, and then runs its handler (logout in two statements, an exchange for a
server token, or any other). `Restart` loads whatever key the environment holds, the same, a new or
an earlier one; the requests in flight are gone. `out` are the tokens that a logout listed or whose time has passed: `BackOnlyWithKey` says that these
stay out under every key, and that any other refused token is accepted again only with the key that signed it. A refresh is its SELECT and the writes after it, because the statements between are the subject of
`RefreshTokens`. `root` names the login a token descends from, `forked` the sessions in which a
rotation found its token revoked meanwhile, `ended` those a logout closed.

### ServerList

`ReadPosition` is `SELECT COALESCE(MAX(position), -1) + 1`, `Insert` the INSERT, the start of `broadcastServerList` and the
answer. `InsertUnanswered` stores the row, loses the answer and so broadcasts nothing. The broadcast is not awaited: `queued` are the ones that wait for their SELECT, `answers` the lists that were
read and not yet emitted, which may be emitted in any order. Rows never go while the account lives,
so a list is known by its length. `EditServer` is all that PATCH and DELETE can do for an
entry of one's own (see the departures below).

### Dashboard

The page has one form, one dialog, one save and one deletion at a time, and any number of
reloads of the list. A save is `SaveName`, `SaveSettings` and `SaveSelect`, the three statements of `updateUser`, and then its answer, which closes
*whatever form is open by then*; a deletion likewise. Each can fail after any statement, also one that was stored and only
its answer lost (`SaveFails`, `DeleteFails`, and `UpdateFails` of the owner's own write). *Lost* means that the handler
is done or has failed and `fetch` fails: nothing catches that, and the button stays off. `name` stands for the columns of
`users` that the form holds and `theme` for those of `user_settings`. Each value that somebody types or picks gets the next number, and `meant` remembers for which account
and column: that makes "never moves to another account" a question about states. The
owner's `PUT /api/settings` writes the same row and broadcasts afterwards; the admin's save broadcasts no `settings_sync`.
`Register` adds an account while the page is open; `late` are those added since the last SELECT of the list. Nothing tells the page, so
the list is compared with `Known`, the accounts that this SELECT could see by the names they have now.
`excused` and `crossed` record what else explains a list or a session that lags.

## 3. The runs

| Run | Module, bounds | Shows |
|---|---|---|
| `refresh_tokens` | `MCRefreshTokens`: 2 accounts (one undeletable), 2 requests, 3 tokens | one usable token per session unless rotations overlap; old one dead before the hand-out; chain well formed; implements `Session` |
| `refresh_fork` | the same | **violated** `OneSuccessor` |
| `reset_sessions` | `PasswordReset`: 1 account, 1 request, 2 tokens | **violated** `ResetClosesSessions` |
| `email_links` | `MCEmailTokens`: 2 accounts, 2 addresses, 2 requests, 2 links | links implement `OneShot`, reach only their account's mailboxes, alone change passwords and verified addresses |
| `mfa` | `MCMfa`: 1 account, 2 requests, 2 secrets, 2 batches of 2 backup codes, 1 mfa_token | mfa_tokens and backup codes implement `OneShot`; used codes gone for good; on and off only by an accepted code |
| `login` | `MCLogin`: 1 address with or without an account, 2 requests, threshold 3, window of 2 ticks, 2 passwords, fairness | the lock matches the count; how many guesses get through; a lock is not cut short, is prolonged only by requests it found in flight, and ends; what a reset leaves alive, of logins, refreshes and mfa_tokens alike |
| `identity` | `MCIdentity`: 1 account, 2 requests, 3 tokens, 2 keys | a logout ends its session; listed and expired tokens stay refused, others return only with their key |
| `presence` | `MCPresence`: 2 accounts, one with 2 sockets and followed through timers and statuses, one with 1 socket; 1 status request, 2 callbacks in flight, 1 crash, fairness | timers, departures (safety and liveness), broadcasts, the dashboard's list of sockets and number of accounts |
| `presence_reconnect` | 1 account, 2 sockets, no crash | **violated** `OfflineOnlyWhenGone` |
| `server_list` | `MCServerList`: 1 account, 3 addresses, 2 requests, fairness | added last unless additions overlap; no gaps; sockets end with the stored list unless a broadcast was lost or overtaken |
| `server_ids` | 1 account, 1 address, 1 request | **violated** `OwnEntriesEditable` |
| `dashboard` | `MCDashboard`: 2 accounts (the admin's, and one that registers meanwhile and whose owner changes settings), 2 settings requests, 2 reloads, 1 chosen value | values stay with their account; the list is current once quiet; the owner's sessions are in step |

Why the bounds are enough to be interesting:

- *Requests = 2* is the least that has a race. Each race of the code that the properties
  exclude by name (`overlapped`, `doubled`, `raced`) is between two requests; a third one
  repeats the part of either. The proofs cover any number.
- *Three refresh tokens* hold a login and two rotations in a row, a fork (one token, two successors), or two
  sessions one of which rotates. Two accounts show that a sweep of one spares the other.
- *Two links, two addresses*: two links of one account, or of two accounts one of which takes over the
  other's address. A smaller instance never has a link to the wrong account.
- *Two secrets and two batches*: an enrolment, and a second one that follows or overlaps it.
  *Two codes in a batch*: one is removed while another is being looked at. Accounts share no row, no code and
  no mfa_token, so one account suffices. One mfa_token is presented by both requests.
- *Threshold 3, window 2*: with two requests a lock needs one failure recorded on its own and two that may
  overlap, so a count can be restarted, carried over or finished by a request that was let in before the lock. Two ticks are the
  least in which a failure can be neither fresh nor out of the window. Addresses share no row.
- *Three identity tokens, two keys*: a login, its rotation and a server token or a second rotation; restarts with the
  same key, with another and with the first one again.
- *Three addresses*: two overlapping additions and one that follows them, which is the least that shows whether a shared
  position leaves a gap behind.
- *Dashboard*: two accounts, so that a form can be reopened for the other while a save is under way, and one of them registers while
  the page is open and can be deleted under the form; two reloads that answer in either order; one typed or picked value is enough to be in the wrong place.
- *Two sockets*: the one opened last need not be the last to close, and a slot is used again after it closes. *Two callbacks in flight*: a slow UPDATE of an earlier
  departure meets a later one. *One status request*: it overlaps with the callbacks, the heartbeat and the admin, who write the same column; two
  that overlap each other are in the proofs. *A second account with one socket*: the least that makes the count of accounts one too high while another is right. `MaxWrites` and `MaxCrashes` appear in the guards of `FireTimer`, `OfflineUpdate` and
  `Crash`, `MaxTokens`, `MaxSecrets` and `MaxBatches` in those of the INSERTs.

Symmetry is used where the members are only compared: requests, reloads, addresses in
`MCEmailTokens`, the codes of a batch in `MCMfa`. It is not used in `presence`, `login` and `server_list`, which have a liveness property.
Deadlock is checked in every run: a client can always log in, connect,
present a token or click again, so no instance may stop.

### Fairness

Three runs assume any. In `presence`, for each account of `Followed`, `FireTimer` is weakly fair, because `setTimeout` fires unless it
is cleared. The answer to the callback's UPDATE is weakly fair *as a disjunction*, `OfflineUpdate` or
`OfflineFails`: node-postgres settles each query one way or the other, and neither outcome is
promised. The same holds of the broadcast after it. Nothing is assumed of users, of the admin, or of
`setStatus` requests. A connected user is never obliged to leave.

In `login` the clock is weakly fair (`Tick`), and nothing else: logins may come or not, and fail at any statement. `LockEnds`
holds because a lock can be prolonged only by requests let in before it, and those run out.

In `server_list` the broadcasts of an account are weakly fair as a whole (`Sync`): a query that was sent is answered or
fails, and its answer is emitted in the same turn. Which of several goes first is left open.

### Where the code departs from what it says

The violated runs; each one is a trace of a few steps.

1. `refresh_fork`. `rotateRefreshToken` reads `revoked_at` (`sessions.js:45`) and sets it two
   statements later (`:65`) with no guard. Two overlapping refreshes both succeed; the
   session has two live tokens, and `replaced_by` keeps the second successor only.
   `RefreshTokens` says exactly how far that goes: `OneHeadUnlessOverlapped` and
   `RotationChain` hold nevertheless.
2. `reset_sessions`. A refresh that has read its token when `revokeAllForUser` sweeps the
   account inserts its successor after the sweep: a session survives the reset.
3. `presence_reconnect`. The callback asks whether the user is back before its `await` and broadcasts
   after it. (The proof of `TimerDiscipline` shows that the question it does ask is always answered
   no: a connection clears the timer, so a timer never fires on a connected user.)
4. `server_ids`. `routes/servers.js` requires the `:id` of PATCH and DELETE to be an integer, while `user_servers.id` is a
   UUID: both are answered 400 for every entry there is, and `updateServer` and `removeServer` are never reached.

The passing properties name the exceptions that the code makes to what one would like to say without them:

- two verifications that overlap open two sessions with one mfa_token, and two requests may
  both use a backup code (`doubled`, where `docs/Federation-API.md:208` says single-use);
- a setup that replaces the row between the SELECT and the UPDATE of an enable switches 2FA on with a secret nobody
  confirmed (`raced`);
- the heartbeat and the admin change a status, and a deletion a user, without a broadcast (`muddled`);
- the admin's change of an address leaves `email_verified` and the links as they were, so that a link to the old address marks the new one
  verified (`ChangesEarned` and `OwnMailOnly` speak of addresses the account has had), where `docs/Federation-API.md:188-189` has it mark the email verified;
- a change of key refuses the tokens of the old one at once, where `docs/Federation-API.md:44-45` lets them finish expiring: `getKeys` holds and
  publishes the one key it found at start-up. Should the old key come back before that, they are good again (`BackOnlyWithKey`);
- a login, refresh or mfa/verify that was past its check of the old password, or an mfa_token signed for it, opens a session behind
  the sweep of a reset (`escaped`);
- the admin's change of a theme reaches no session of the owner's, and overlapping changes may arrive in the other order (`crossed`);
- two overlapping reloads of the dashboard may leave the older list (`excused`); overlapping additions to a server list share a position;
- `unique_users` of the dashboard counts an account whose last socket has just closed until the next push (`UsersCurrent`);
- a registration reaches no open dashboard (`late`); a row whose INSERT was stored and whose answer was lost is in the table and in no
  broadcast (`failed`, `crossed`, `excused`);
- a crash forgets the departures whose timers it kills, since nothing at start-up looks at `user_settings`.

Facts met while reading that no module turns on: identity tokens minted before a logout stay good until they
expire, since only the `jti` of the header is listed; a logout that fails between its two statements is refused when
retried, since its own token is listed by then; sockets are authenticated at their handshake only; a PUT of settings without
a theme always fails (NULL in a NOT NULL column); `pruneRevokedJtis` has no caller.

## 4. The proofs

Each proof module shows `Spec => []Inv` for an inductive invariant (`Inv` or `IInv`) and derives the
theorems from it. They assume only what the modules' `ASSUME`s say: the bounds are
naturals, the null values are not members, sets that are counted are finite, and each socket has an
account. The sets of accounts, requests, sockets and addresses are arbitrary.

**RefreshTokensProofs**: `TypeCorrect`, `OneHead`, `RetiredFirst`, `ChainLinks`, `SessionsStayOver`, `SessionsKeepPromise`, `ResetCloses`.
That a session has one head is not inductive: it depends on who may hand out the next token. The invariant adds

- `LineageOK`: owner and family are inherited, and a parent is older;
- `RowsOwned`, a part of `TypeOK`, needs a lemma of its own (`RowsOwnedStep`): the foreign key at each INSERT, the cascade at the deletion;
- `RequestOK`: what `tok`, `next` and `who` mean at each `await`, in particular that a rotation past its UPDATE
  holds a dead token and an undelivered successor;
- `NextUnique`: no two requests carry the same new token;
- `Cells`: a session without overlap is a single cell. At most one request is pending in it, and
  if there is one, a live head exists only while it has not done its UPDATE, and is the token it presents;
- `BlankRows`: a row that is not issued has no successor, so that a new token starts a chain.

Most steps do nothing to most of this. `StepCases`, `OneActor` and the `...Frame` lemmas say so once, and each
conjunct is then proved against the few actions that touch it. `SessionsStayOver` is an action
property: `OverStep` shows it of every step in a state that satisfies `Inv`.

`SessionsKeepPromise` is the refinement `Spec => Session!Spec`, under the mapping of section 2. `StepSessions` maps each step: an INSERT
of a login opens a session (`OpenStep`), a response gives a token or a dead one (`GiveStep`), the second of two overlapping SELECTs loosens
(`LoosenStep`), and every step that revokes, deletes, expires or ends a request ends tokens and sessions (`EndStep`), or is a stutter. The two facts
that `Inv` has to supply are that a response finds its session with no usable token (`Cells`) and that a session which is over is
still over (`SessionsStayOver`).

`ResetCloses` is about `PasswordReset`: `ResetSpec => []OnlyRotationsEscape`. Its steps are steps of `RefreshTokens`, so `Inv` holds of them too.
`ResetInv` adds that a session of `cut` outside `missed` is clean for good (`SweptClean`: all its rows revoked, no refresh of it before its INSERT). Only
a refresh that has passed its SELECT adds a row to a session, and a sweep leaves none that could start one (`CleanStays`).

**PresenceProofs**: `TypeCorrect`, `TimersMatch`, `DeparturesTracked`, `DeparturesNear`, `ObserversInStep`, `AdminListed`.
`ShownMatches` speaks of quiet moments alone. The invariant needs `BroadcastsInStep`: an account
that is not `muddled` is either up to date, or has exactly one broadcast to come and that one carries the stored status.
`DeparturesNear` is the ranking argument behind `DepartureSettled`: what an unsettled departure has ahead of it (`Ahead`: two for its timer, one for
each UPDATE) never grows, and falls when the timer fires; the answer of an UPDATE settles it, and `DeparturesTracked` says
that one of the two is always to come. It needs `DepartedGone`, that such an account has no socket whose disconnection could arm another timer.

**EmailTokensProofs**: `TypeCorrect`, `MailOwned`, `AllEarned`, and the refinement `LinksOneShot`:
`Spec => OneShot!Spec`. The invariant `IInv` adds `RowsOwned` and `AddressHeld`, what a creating and a redeeming
request know (`CreatorOK`, `RedeemerOK`), that no two requests redeem one link (`RedeemersApart`) and that
only spent links were acted on (`OnlySpentActed`). The last three make a second effect impossible: a redeemer's link is spent and
not acted on, and it is the only redeemer.

**LoginProofs**: `TypeCorrect`, `LockFollowsCount`, `GuessesBounded`, `OldPasswordsOut`, `LocksHold`. `GuessBudget` counts requests, so
its proof is about cardinalities. `InCount` says where each guess is: without a lock, it is in the count or with a
request that is about to record it (`tried <= Counted + |Waiting(record)|`); under a lock, only requests let in before can add
(`tried + |Waiting(read)| <= Budget`). A request moves from one side to the other, and `OneMoves` and `WaitingBound`
say what that does to the number that wait. `OldPasswordOut` is carried by
`AllExcused`: not only a live session, but every password that could still open one (`Outstanding`) is the current one, behind a sweep to come, or
`escaped`; `EarnedHeld` says that a request past its check holds a password.
`LocksHold` has the ranking argument behind `LockEnds`: `LockedFor`, what is left of the lock and a window for each request that was let in before
it, never grows while the address is locked (`checkLockout` lets nobody in; a failure recorded under the lock gives it back its window, and
takes one request away) and falls with every tick.

**IdentityProofs**: `TypeCorrect`, `LogoutsEnd`, `RefusalsStand`. `Descent` (a token names the account of the
login it descends from), `Held` (what a request past the check holds), `OneLive` (a session that is not forked has one live
token) `EndedQuiet` (one that a logout ended has none, and no refresh about to make one) and `OutKept` (what
`out` records is listed or expired, so that no key lets it in).

**MfaProofs**: all seven properties of the run, two of them refinements of `OneShot` (`TokensKeepPromise`, `CodesKeepPromise`), and what they
mean in the terms of the module (`TokensOpenOne`, `CodesAcceptedOnce`). `Held` says what a request has by the time it stands at each statement; `Tokens` and `Codes`
that an mfa_token or a code outside `doubled` is with at most one request, and with none once it was used; `OneOwner` that no
two accounts share a backup code; `Enrolment` that a setup under way beside an enable, or beside 2FA switched on, was recorded as a race.

**ServerListProofs**: `TypeCorrect`, `AddedLast`, `PositionsWithoutGaps`, `QuietIsSynced`. What an addition has read goes stale, but only in one
way: rows are appended. `ReadsHold` says of each pending one that the rows it saw are still the first ones and all in front of
its position, which is 0 or just behind a position in use. `Gapless` (the positions are the numbers
below some *m*) and `BehindSeen` follow through each INSERT. `QuietIsSynced` is the safety half of `AdditionSynced`:
`SentOrOwed` says that the sockets have the stored list, or a broadcast of it is to come, or one failed or was overtaken. Its step for
`Emit` needs `AnswersOld` (no answer is longer than the stored list): one that is not the newest is shorter, and if the newest was shown it overtakes it.

**DashboardProofs**: `TypeCorrect`, `OwnValues`, `ListCurrent`, `OwnerSynced`. `CopiesChosen` extends `NothingInvented` to each copy of
a row, in the list, in answers, in the form and in the save. `ReloadsInStep` is the argument for the list: as long
as nothing excuses it, at most one reload is in flight, and either a change is done whose reload is still
to be asked for (`Owed`), or what has been read is what there was to read (`Known`). `Unborn` says that nothing
speaks of an account before it registers. `OwnerInStep` says that an account outside `crossed` has at most
one broadcast to come, of the theme that is stored.

**Only model-checked**: the liveness properties `DepartureSettled`, `LockEnds` and `AdditionSynced`. They rest on fairness, and
the step from a ranking to an arrival needs ENABLED and an induction over the rank, which are out of the prover's reach; `DeparturesNear`,
`LocksHold` and `QuietIsSynced` prove the part of each that is safety. The violated properties are settled by their traces.
Every other property of a passing run is a theorem. Three theorems state properties that no run lists because a listed one implies them: `SessionsStayOver` (within `SessionPromise`), `TokensOpenOne` and `CodesAcceptedOnce` (within `TokenPromise` and
`CodePromise`). Nor does a run list what `ResetCloses`, `DeparturesNear` and `QuietIsSynced` state: the first is the other side of a violated
property, the last two stand behind liveness properties.

## 5. What is not modelled

- *Cryptography*: EdDSA, JWT parsing, bcrypt, RFC 6238 and `normalizeOrigin` are taken as given; tokens, codes and passwords are
  values that only their owner knows.
- *Rate limiting, CORS, validation, routing*: configuration of libraries, but for the one rule that `server_ids` is about.
- *Internal API and metrics*: read-only queries, and counters nothing reads back for a decision.
- *custom_status and its expiry, nickname and the profile reads*: columns that one request writes and that decide nothing. (As the code has it,
  an empty `custom_status` does not clear the column, and a duration sent without a text clears it.)
- *The other web pages and the key script*: the dashboard's login form, metrics and drawing, and the account pages, call one
  handler each and keep nothing.
- *A retry that looks like a replay* (a lost answer to a refresh, then the old token again) sweeps the account, as the code
  intends; it is an ordinary behaviour of `RefreshTokens` and no property speaks against it.
- *A socket after its token died*: the code never closes one for that reason, so there is no mechanism to check.

## 6. Plan

Done, in this order: `RefreshTokens`, `Presence`, `PasswordReset`, `EmailTokens` with `OneShot`, `Mfa`, `Login`, `Identity`,
`ServerList`, `Dashboard`; a proof module for each but `PasswordReset`, whose theorem is in `RefreshTokensProofs`; `Session`, and the
refinements of `Session` and `OneShot` with their proofs; the rankings behind the liveness properties.

What is left, most useful first:

1. An abstract lock that `Login` refines, with the number of guesses it lets through.
2. `Dashboard` as a refinement of a list that follows the tables, outside `excused`.
3. `Profile`: the columns of `user_settings` with the NULL handling of `setStatus`, against a reference definition of a
   partial update.
4. `Identity` with the statements of a rotation in place of its single step, so that `forked` and `overlapped` become one notion.
