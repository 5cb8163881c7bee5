# md-manager in TLA+

md-manager is a multi-tenant store of Markdown documents for people and agents: a
PostgreSQL schema, a Rust library `crates/db` that holds every operation on it, an HTTP
API and MCP servers in front of it, and a web editor and a command line as clients. All
the state that matters is in the database, and everything that can go wrong with it goes
wrong between two SQL statements. The specifications here model the operations of
`crates/db` as transactions of concurrent requests, statement by statement where another
request can come between.

Paths below are relative to the repository's root; `document.rs`, `social.rs`, `oauth.rs`,
`embedding.rs`, `access.rs` and so on are in `crates/db/src`.

## 1. Inventory

| Component | State | Operations | Interacts with | Hard behaviour | What makes it correct |
|---|---|---|---|---|---|
| Documents (`document.rs`) | `documents`, `document_versions`, `doc_chunks` | create, read, update (conflict, coalescing), append, restore, move, delete, undelete | clients' copies, embedding worker, search | writers interleave around a row lock; autosaves rewrite history in place; creation takes no lock | no gap in the history, checkpoints final, an autosave amended by its author alone, no lost update, the index says what the text says, a quota that concurrent creations overrun by little |
| Chunker (`crates/core/src/chunk.rs`) | none | split a text by headings, fences and size | Documents | boundaries of size and nesting | every byte in one chunk, breadcrumbs of the enclosing headings |
| Three-way merge (`crates/core/src/merge.rs`) | none | merge base, ours, theirs | conflict replies | none of its own (diffy) | the base it is given is what the client started from |
| Members and invitations (`social.rs`) | `organization_members`, `org_invitations` | change a role, remove, invite, revoke, accept by address or by link | authentication | reads and writes in separate statements without locks; joining and marking in separate transactions | an owner remains, only the authorized change roles, closed invitations stay closed, none is spent on nobody |
| Provisioning and sign-in (`social.rs`, `apps/api/src/google.rs`) | `users`, `organizations`, `organization_members` | find a user by subject or address, link, create, join, create a personal organization | Members | concurrent first sign-ins, slug collisions, sign-ins that break off between transactions | one personal organization each, accounts linked only to people of their address, links replaced only in races, whoever is not blocked gets in |
| OAuth authorization server (`oauth.rs`) | requests, codes, access and refresh tokens | request, approve, deny, exchange, refresh, revoke, switch, clean up | Members, MCP | double spending, revocation racing rotation, two tables updated in two statements and in two orders | one live chain per consent, what is dead stays dead, revocation and switching reach the whole family |
| Embedding worker (`embedding.rs`, `apps/api/src/main.rs`) | the bookkeeping columns of `doc_chunks` | copy duplicates, fetch a batch, embed, store, mark failed, change dimension | Documents, provider | the chunk changes while its text is away; poison chunks; restart between DDL statements | every chunk is at last embedded or dead-lettered, vectors belong to their text, attempts end |
| Access control (`access.rs`, `crates/core/src/rbac.rs`) | teams, grants on projects and documents | effective role, grant or deny, found a team, add to it | every operation, lists and searches | three reads with a snapshot each; the order of grants, denials and memberships; one rule written twice | denial vetoes, in lists too, nobody exceeds their role |
| Share links (`share.rs`) | `share_links`, recipients | create, resolve, revoke | Documents, Members | the link, its audience and the document judged in three statements | only who was in the audience since the call began |
| API keys and login (`apikey.rs`, `auth.rs`, `apps/api/src/state.rs`) | `api_keys` | issue, revoke, authenticate | Members | a role read early and used late, for a whole batch of messages; keys that mint keys | a key never exceeds its user nor the key that minted it |
| Categories, tags, projects, audit log, search | one table each | put a tag or category on a document, list and search by them | Documents, access | whether a denial counts in each of them | what denials hide is hidden |
| HTTP API, MCP servers, clients, configuration | none in the database | call the above | | | the client's copy and its version number |

Components call each other inside one process and share only the tables; there are no
messages and no callbacks. Concurrency is that of PostgreSQL sessions at READ COMMITTED.

## 2. Modules

| Module | Models |
|---|---|
| `DocHistory` | the abstract promise: per document, a sequence of snapshots that grows at its end and whose last entry is the text shown |
| `Documents` | `document.rs` and the client's copy; implements `DocHistory` |
| `MCDocuments`, `Documents_proofs` | its instances, its theorems |
| `DocumentQuota` | `Documents` with the history that says how far the quota holds |
| `MCDocumentQuota`, `DocumentQuota_proofs` | its instance, its theorem |
| `Members` | roles and invitations of one organization |
| `MCMembers`, `Members_proofs` | its instances, its theorems |
| `Accounts` | sign-ins with Google, users and their organizations |
| `MCAccounts`, `Accounts_proofs` | its instance, its theorems |
| `Access` | who may do what with one document: roles, teams, grants, denials, keys, share links, lists |
| `MCAccess`, `Access_proofs` | its instance, its theorems |
| `GrantLife` | the abstract promise: per consent, one refresh token that works, renewed until it ends for good |
| `OAuthGrants` | the authorization server for one user and one connector; implements `GrantLife` |
| `MCOAuthGrants`, `OAuthGrants_proofs` | its instances, its theorems |
| `SemanticIndex` | the abstract promise: every chunk is found by its own content at the width of the column, waits, or was given up |
| `EmbeddingWorker` | the embedding queue, its workers and the width of the column; implements `SemanticIndex` |
| `MCEmbeddingWorker`, `EmbeddingWorker_proofs` | its instances, its theorems |

The modules meet where one has as an environment what another has as its subject:
`EmbeddingWorker` lets any edit (`Reindex`) delete and insert chunks as the commits of
`Documents` do; `Access` lets any role change (`SetRole`) as `Members` does, and its
`WriteDocument` stands for the operations of `Documents`; `Accounts` lets a sign-in accept
any invitation, and lets anybody be removed, the last member of an organization included.
Each environment allows more than the other module does.

### Documents

`document`, `versions` and `chunks` are the three tables; `recent` is the clock of the
debounce (whether the latest version is younger than `autosave_debounce_secs`), reset by
`DebounceElapses`. `tx` is each client's open transaction with the row it has locked, and
`base` the copy and version number a client edits (the editor of
`frontend/components/editor.tsx`, the merge loop of an agent).

A write is two steps. `LockDocument` is `lock_document`, `SELECT ... FOR UPDATE`; the
commit then is one action per operation (`UpdateAsNewVersion`, `UpdateCoalesced`,
`UpdateConflict`, `AppendToDocument`, `RestoreVersion`, `MoveDocument`, `DeleteDocument`),
which makes all the writes of the operation from the copy taken at the lock. That the
copy is still right is a theorem, not an assumption. `create_document` takes no lock:
`CountDocuments` and `InsertDocument` are its two statements. `UndeleteDocument` is one
step, since its UPDATE re-checks the row. `Rollback` is every failure in between.

A text is a sequence of sections, each a heading and its body, the first enclosing the
others. That is what `reindex_chunks` and its breadcrumbs can tell apart; how Markdown
becomes sections is left to the planned chunker module. Categories, tags, titles and the
audit log are not read back by any of these operations and are left out.

`DocHistory` knows who writes: an actor begins to write a document (`Begin`) and may quit,
only actors that write it extend it, and `Amend` rewrites the last snapshot only if it is
an autosave of the same actor. So the refinement says that `try_coalesce` never rewrites a
checkpoint nor another actor's autosave. `PathIsFree` is the unique index of live paths: it
is part of the guard of every write of a path, and no property restates it.

`DocumentQuota` adds one variable, `restored`: the live documents that an undeletion made
live. It separates what `create_document` answers for from what `undelete_document` adds
without a count.

### Members

`role` and `invitation` are the two tables, `change` the requests of owners and admins
with all they have read so far, `accept` the sign-ins and opened links. `usedBy` is
history: for whom the INSERT of an invitation was committed, whether it inserted a row or
found one. A change of roles is `Authenticate` (the caller's role is read once, clamped for
an API key, and trusted from then on), `ReadTarget`, `CountOwners` if the target was an
owner, and `WriteRole`. A sign-in is `FindByEmail` or `FindByToken`, then `Admit` and
`MarkAccepted` per invitation, each separately, and may stop anywhere (`EndSignIn`).
`PlainRoles` are member and viewer: nothing in `social.rs` distinguishes the two, and one
of them is enough in the instance.

### OAuthGrants

`grant` is an authorization request and its code, `row` the two token tables, `call` the
transactions in progress; `grantOf` and the field `crossed` are history. The model is
about what READ COMMITTED does to an UPDATE over a family of rows: `Snapshot` finds the
rows that match; `LockRow` locks one of them, in any order, when no other call holds it,
and keeps it if it still matches, and a call that waits for one row keeps those it has;
the second statement takes a snapshot of its own, and `CommitRevoke` or `CommitSwitch`
makes the writes visible. Rows inserted after a snapshot are not in it.
`PresentRefresh` and `Rotate` are the two halves of `refresh_oauth_token` around the time
it holds the presented row. `Rollback` is any failure, the abort of a deadlock included.

Hashing, PKCE and the binding of a code to its redirect decide whether a request is
refused, and a refusal is no step. Calls can wait for each other in a circle: a switch and
a revocation, which lock the two tables in opposite orders; two revocations of one family,
whose UPDATEs lock their rows in different orders; a revocation and a reuse that has locked
the token it presents. The database aborts one of them, which is `Rollback`. For `GrantLife`,
a consent's stage is that of its request, its live token the refresh token that is
neither rotated nor revoked, and its dead ones the rest of its chain. Expired tokens are not told from live ones: no UPDATE
does, and presenting one succeeds for nobody. Memberships are module `Members`' concern:
where the code looks one up, both answers are possible.

### EmbeddingWorker

`chunk` is `doc_chunks` with its bookkeeping columns, `column` the width of the embedding
column, `proc` what each API process is about to do, with its batch. Start-up is
`EmbeddingStore::connect` and `ensure_schema`: `Start` compares the widths, `DropColumn`,
`ResetBookkeeping` and `AddColumn` are the three statements. The loop of
`apps/api/src/main.rs` is `Dedup`, `Fetch`, `EmbedBatch`, then `Store` per chunk, or
`EmbedOne` with `Store` or `MarkFailed` when the provider has refused the batch. Each
statement may fail instead (`DedupFails`, `FetchFails`, `StoreFails`, `MarkFails`), which
the loop logs and survives. `Crash` is the end of a process anywhere, and also the end of
its loop: `truncate` of `crates/embed/src/lib.rs` cuts an error text at a byte that may
lie within a character, and panics. `Reindex` is any edit: rows are deleted and inserted
under new ids. A backoff is whether it has passed; how long it is decides no property, so
rows that have come due again may be fetched in any order. For `SemanticIndex`, a chunk's
content is what its text is hashed to, its answer the content and the width its vector was
made for, and it is skipped when it is a dead letter without a vector.

Facts of the code the model has and no property forbids: a store that fails is not
counted as an attempt, although the comment above the loop speaks of every failure; a copy
by `dedup_by_content_hash` leaves the flag of a dead letter as it is; a process that stops
between the drop of the column and the reset leaves old dead letters for good.

### Access

The tables are `role`, `founded` and `team`, `projectRule` and `rule` (a level, 0 for a
denial, or `Unset`), `live`, `key` and `link`; `call` is a request with all it has read.
`PresentSession` reads the role once; `PresentKey` and `ReadRole` are the two transactions
of a key. `NextMessage` goes on with what was read, as an MCP batch does. An operation on
the document is `ReadTeams`, `ReadGrants`, `ReadDenials` (`effective_doc_role`), then the
operation if the level suffices; `ReadDocument` reads the row first and judges it after,
so it shows a document that was live when its authorization began; lists and searches
are one statement each, with the denials in it; a tag or category is put on a document,
and the documents of a category are listed (`Labelling`), by the role alone; acts of
administration ask for the role alone. A link is `PresentLink`, `PassAudience`,
`ShowDocument`. `SetRole` is module `Members`.

`held` is history: which denials, what reach, which exclusion from an audience have stood
against a call *all along*. The properties are in its terms, because everything is read
before it is used, and a change in between may be missed: what a call does was allowed at
some time since it began, and what was forbidden all along is not done. One gap of three
reads is real and excepted: a denial handed over from a team to a user who joins the team
after their teams were read can be missed. Grants on the document never decide an outcome
of these operations, which ask for an editor at most; they decide the level, which
`ResolveIsBounded` bounds.

### Accounts

`user`, `made` and `member` are the tables `users`, `organizations` and
`organization_members`; `call` the sign-ins in progress. `FindBySub`, `FindByEmail`,
`LinkSub`, `CreateUser`, `AcceptInvitation` (one organization after the other) and
`AcceptInvitations` (no more), `ListOrgs`, `CreatePersonalOrg` and `Enter`
are the statements of `provision_google_user`, each a transaction of its own. `Rejected`
is a unique index that refuses one, `Fail` any other failure. `epoch` is the first six hex
digits of a time-ordered id made now, of which the slug of a personal organization is
made: they change every 4.7 hours. `Bootstrap`, `CreateOrg` and `RemoveMember` are what
others do meanwhile. `personal`, `ever`, `removed` and `entered` are history.

`Blocked` names who is kept out: the address is linked to another Google account;
or the account is in no organization and the slug of its personal one is taken, by
somebody with the same local part who came within the same hours, or by the organization
the person was removed from. Every later sign-in of theirs repeats the INSERT that fails,
until somebody invites them.
`EveryoneUnblockedGetsIn` says that these are the only ways.

## 3. Runs

| Run | Instance | Shows |
|---|---|---|
| `documents_edit` | 1 document, 2 sessions of 2 actors, 3 texts, 2 sections, 3 versions | the editing properties and the refinement to `DocHistory` |
| `documents_lifecycle` | 3 documents, 3 paths, 2 sessions, 1 text, 1 version, a quota of 1 | the bound on the quota's overrun through creation, moves, deletion and undeletion |
| `documents_lost_update` | as `documents_edit` | violation of `NoLostUpdate` |
| `members` | 2 users, 2 requests, 2 sign-ins, 1 invitation | all properties of `Members` but the one below |
| `members_last_owner` | 2 users, 2 requests | violation of `OrganizationKeepsAnOwner` |
| `oauth_grants` | 1 consent, 2 organizations, 2 calls, 2 token pairs | all properties of `OAuthGrants` but the two below, and the refinement to `GrantLife` |
| `oauth_revoke` | as `oauth_grants` | violation of `RevocationsAreComplete` |
| `oauth_switch` | as `oauth_grants` | violation of `PairsStayTogether` |
| `embedding` | 2 processes, 2 widths, 1 stop, 2 chunks, 3 texts of 2 contents, 1 attempt | the safety properties of `EmbeddingWorker` and the refinement to `SemanticIndex` |
| `embedding_settles` | 2 processes, 1 stop, 2 chunks, 2 attempts, batches of 2 | every chunk settles, under fairness |
| `access` | an owner and another user of any role, 1 team, 2 keys, 1 link, 2 calls, 2 changes | all properties of `Access` |
| `accounts` | 2 people, 3 sign-ins, 3 addresses of which 2 differ in case, 2 rows, 2 epochs, 1 failure or change by others | all properties of `Accounts`, liveness under fairness |

**Bounds.** Every race in this code is between two requests over one row or one family,
so two sessions, requests or calls meet all of them. Three versions are a checkpoint, an
autosave above it and one more to end the coalescing; three texts include a change of
heading over an unchanged section and a change of length. Under a quota of one document,
two sessions can create two and an undeletion can make it three, and restores and edits,
which the quota does not concern, are left to `documents_edit` (one version). Two users are enough to lose an
owner by a race, and two sign-ins to race for one invitation. Two token pairs
allow a rotation before, within and after any other call, the reuse of a rotated token and
a second exchange of a code; the same properties also hold with three pairs
(2.5 million states), which takes minutes instead of seconds. `MaxVersions` and
`MaxPairs` stop a model that would otherwise go on for ever; the proofs hold for every
value of them. Documents, paths, users, calls and organizations are permuted by symmetry
where nothing names or orders them.

Two chunks share a batch or a content, and one of them is the poison of the other; three
texts are two of one content under different headings and one of another; two widths are
one change of the column under an older process; one attempt ends at once, so that two
processes overrun it, and `embedding_settles` has the retry. In `access`, two changes are the least that hand a
denial over or mint a key with a key, and two calls the least that change something under
an operation in progress; the owner stays one so that there always is an administrator. The
calls and the keys are permuted by symmetry. In
`accounts`, three sign-ins are two tabs of one person beside another person, who may be
asserted under one of two addresses; one of the three addresses can get a row without a
link, so that two rows are enough for every way (`MCNext`); two epochs are
the collision and its end; one failure or change by others is one more than none, and the
proofs hold for any number.

**Deadlock** is checked for Documents, EmbeddingWorker, Access and Accounts. `Members`
(`Members.cfg`) may stop: an organization that has lost its last owner and admin and has
no open invitation has nothing to do. `OAuthGrants` (its three cfgs) may stop when every
request is denied or expired or all its pairs are used up.

**Fairness.** Documents, Members, OAuthGrants and Access have none: their clients may
vanish at any point, which is what the rollbacks and ends of calls say.
`EmbeddingWorker` assumes weak fairness of each process's loop, which `tokio::spawn` runs
as long as the process lives; of the passing of a backoff, which is time; and strong
fairness of the fetch, the store and the record of a failure: a statement that is tried
over and over succeeds at last, since the database is out of reach for a time and not for
ever. `EveryChunkSettles` further supposes that some process with the width of the column
stays up: nothing in the program restarts a process or a loop that has ended.
`Accounts` assumes weak fairness of each sign-in as a whole: a statement succeeds or fails
at last, failures are bounded by `MaxChanges`, and a person who did not get in tries again.

### What the violations say

* `NoLostUpdate`: a coalesced autosave changes the text of the current version without
  changing its number, so a save that read the version before it still passes
  `expected_version` and overwrites it. `SavesOverCheckpointsLoseNothing` is what remains
  true, and is proved.
* `OrganizationKeepsAnOwner`: the role of the target and the number of owners are read
  without a lock before the write. `OwnersAreLostOnlyToStaleReads` says that there is no
  other way, and is proved.
* `RevocationsAreComplete`: a revocation that waits for a rotation misses the pair the
  rotation inserts. `RevocationsReachWhatTheySaw` is what remains true, and is proved.
* `PairsStayTogether`: a rotation between the two statements of a switch leaves a pair
  with one token in each organization. So does the opposite switch, when it commits there:
  the first statement finds nothing to move yet and the second does.

The repository says otherwise in these places too. No run refutes the sentences; the
properties that pass are worded so that they do not claim them.

* *Single use of an invitation.* `social.rs:351` says of `accept_invitation_by_token`
  "Single-use.", and the test `accept_invitation_by_link_is_single_use`
  (`crates/db/tests/members.rs:101`) redeems one link twice, one time after the other. The
  invitation is read (359-369), the membership committed (375-393) and the invitation
  marked by its id alone after that, so two people who open one link at the same time both
  join. In `Members`: `FindByToken` of two sign-ins, then `Admit` and `MarkAccepted` of
  both. `ClosedInvitationsStayClosed` says what is left: those who did not find it open are
  not admitted. An existing member who opens somebody else's link uses it up as well
  (`AcceptedInvitationsWereUsed` counts their use).
* *Taking over a linked account.* The comment at `social.rs:53-57` says "we REFUSE to take
  over an account already linked to a different Google account". The row is judged at 86-90
  and linked by the UPDATE at 93-96, which does not look at `google_sub` again: of two
  people under one address who both found the row unlinked, the second replaces the link of
  the first. In `Accounts`: `FindByEmail` of two sign-ins, then `LinkSub` of both.
  `LinksAreReplacedOnlyInRaces` says that it takes such an overlap.
* *The list of a category.* `TODO.md:55` says "Hide per-doc-denied docs from list/search
  results (not just on access)". `list_documents_in_category` (`category.rs:152-171`) has no
  such filter: it shows the members of the organization documents they are denied. Nor do
  `add_document_tag` and `categorize_document` ask for anything but the organization role.
  In `Access`: a call with a denial that did "browsed" or "labelled", which `DenialsVeto`
  leaves out openly.
* *A code after a refused exchange.* `oauth.rs:438-439` says any failure consumes the code;
  a wrong verifier or redirect returns before the commit, so the code stays usable. A
  refusal is no step of `OAuthGrants`.
* *Stale breadcrumbs.* A chunk whose content is unchanged at its index is kept also if the
  heading above it was renamed (`reindex_chunks`); `IndexMatchesText` is about contents for
  that reason.
* *The quota of documents* can be exceeded, because `create_document` counts and inserts in
  two statements and `undelete_document` does not count. `QuotaOverrunIsBounded` is what
  remains true, and is proved: creations alone exceed it by less than the number of
  sessions. Undeletions exceed it without bound.
* *Locked out by a slug.* A person in no organization whose personal one's slug is taken
  does not get in until somebody invites them (`Blocked`); nothing in the repository says
  they do.

## 4. Proofs

All theorems are for every value of the constants, under the modules' assumptions, which
say of the constants what the code's types say (finite sets of users, sessions and
processes, null values outside their sets, a size limit that is a number). In `Documents` in
particular they hold for any
assignment `ActorOf` of actors to sessions, so for two tabs of one person too.

**`Documents_proofs`.** The core is `StepOfOneDocument`: every step changes at most one
document, and does one of six things to it (create, extend, amend, hide, show, or leave its
text and history alone), and begins or ends the writing of at most one actor. It rests on
`LockedRowsAreCurrent`, which is inductive with
`TypeOK`: without the lock the copy a transaction writes from could be stale and no step
would be of this form. From it follow `HistoryComplete`, `HistoryAppendOnly`
and, with the index, `IndexMatches`. `CheckpointBases` needs a stronger invariant about
the copies of clients (a copy's version exists, and while that version is a checkpoint the
copy is its text), from which `SavesOverCheckpoints` follows. `Refinement` maps the rows of
`document_versions` to the sequence of `DocHistory` and the actors of the transactions that
hold a row's lock to its writers; the kinds of step are its actions or a stutter. That the
snapshot amended is its writer's own is where the same-actor condition of `try_coalesce` is
needed.

**`DocumentQuota_proofs`.** The documents created and the sessions that have counted are
together fewer than the quota and all sessions: a session that counts finds room and joins
the second set, one that inserts moves from the second to the first, and nothing else adds
to either (`OtherStepsAddNothing`), since an undeletion is put down in `restored`. The
argument is one of cardinalities, for any finite set of sessions.

**`Members_proofs`.** The invariant adds to the type what a request remembers of its
checks (`ChangesAreChecked`: past each check its caller, target and count satisfied it at
the time) and what a sign-in holds (`FoundWereIssued`, `EnteredWereUsed`). The point
of `OwnersLostToStaleReads` is that these facts are about the past only: the write that
empties the set of owners must have been overtaken. `RoleChangesAuthorized` needs that a
request that hands out or touches the role owner is an owner's (`ChangesAreChecked`).

**`OAuthGrants_proofs`.** The invariant is the conjunction of the type,
`OneLiveRefreshPerGrant` and `RotatedTokensAreCurrent` with three facts about transactions:
a row is held by one call (`LocksAreExclusive`), snapshots and locks are of rows that exist
(`RowsWereIssued`), and what a revocation or a switch has found of each row it locked, in
the family or not, is still so (`LockedRowsAreJudged`). The last is what makes
`RevocationsReach` true of all rows at the commit, long after the first was locked: nobody
else writes a row that is held. Steps are grouped by what they write (`CallStep`, `RowStep`,
`PairStep`, `LiveRowsStep`), so each conjunct is argued once for each shape of step.

`Refinement` shows that every step is, for
`GrantLife`, a decision about a consent, a connection, a renewal, the end of some
connections, or a stutter. It needs that a consent has at most one live refresh token
(`OneLiveRefresh`), and that a pair is not issued before it is inserted, so a new one is a
token no consent has had.

**`EmbeddingWorker_proofs`.** `VectorsBelong` needs `WorkIsCurrent`: what a process has
fetched exists or existed and has the text it had, because rows are never updated in place
and ids never used again; the width is compared when the vector is stored, since the
UPDATE fails otherwise. `ExhaustedNotRetried` needs `ExhaustedAreSettled`: a chunk whose
attempts are used up is embedded or a dead letter, which a drop of the column breaks and
the reset restores. Both are argued once per statement over what it makes of one row
(`Dropped`, `Requeued`, `Embedded`, `AfterFailure`). `AttemptsOverrun` adds to a chunk's
attempts the processes that still have it in their batch: a refusal moves one from the
second count to the first (a batch has no chunk twice, `BatchesAreDistinct`), and only the
fetch of a chunk with attempts left adds to the second. `Refinement` maps the statements:
a store or a copy answers, a refusal gives up or stutters, and the three statements of a
change of width are `Drop`, `Requeue` and `Widen`. It rests on `VectorsBelong`, and on
`DeadLettersAreExhausted`: nothing is a dead letter unless attempts are limited.

**`Access_proofs`.** `IInv` is the type with what the fields of a call mean (an idle call
remembers nothing, a key held was issued, the role gone on with is no more than the
key's) and the chains of keys. `HInv` relates the history to it: the role a call goes on
with was within its reach (`RolesWithinReach`), and a denial that has stood since an
operation began is on the user or among the teams it has read, and has brought its level
down once all is read (`DenialsAreMet`). Every step is, for each call, one of a few kinds
(`StepOf`), so the history is argued per call and not per table.

**`Accounts_proofs`.** The invariant adds that a link is remembered
(`LinksAreRemembered`), that a personal organization is under the slug its user's row
gives, which no statement changes (`PersonalSlugsAreFixed`), and how far a sign-in has got
(`CallsAreSettled`): in particular that Google vouches to whoever is about to be linked for
the address of the row (`Vouched`), which never changes. The unique indexes enter as the guards of the shapes a step may have
(`Links`, `Makes`, `MakesUnlinked`, `Founds`).

Every invariant and action property of the passing runs is proved, with the three
refinements; the two liveness properties are model-checked. Some theorems are about
properties no run checks on its own, because a refinement or a stronger property of the same
run includes them or rests on them: `RowLocksHold`, `HistoryAppendOnly`, `OneLiveRefresh`, `EndedGrants` and
`VectorsBelong`.
Only model-checked are the mutual consistency of the definitions with the properties (each
property fails when a plausible slip is put into the code, see the variants at the head of
each module) and the violations, which are refutations by example. Liveness, ENABLED and
recursively computed values are outside what the prover can do and stay with TLC.

## 5. Not modelled

* Row-level security: each operation runs in the scope of one organization, which is the
  scope of each module.
* Hashing, signatures, tokens as strings, HTTP, the MCP protocol, the terminal and the web
  pages: no state of their own that these properties could tell apart.
* The audit log, and which tags, categories and projects there are: single statements that
  no modelled operation reads back. The lists of a document's tags, categories and share
  links go by the organization role alone and are not actions of their own.
* The role on a project alone (creation of documents in it), and more than one document or
  organization in `Access`: denials are on documents, one by one.
* That removal from the organization leaves the rows of a member's teams is in `Access`
  (`SetRole` leaves `team`), and shows only when the member comes back.
* Search ranking, the embedding provider, the length of backoffs, rate limits.
* The splitting of Markdown (see the plan) and the three-way merge, which is a library's.

## 6. Plan

Done, in the order of importance: Documents with `DocHistory` and `DocumentQuota`, Members,
OAuthGrants with `GrantLife`, EmbeddingWorker with `SemanticIndex`, Access, Accounts, each
with its proofs. What would come next:

1. `Chunker`: `chunk_markdown_with` as recursive functions over lines, checked over all
   short texts for coverage, order, size and breadcrumbs, and the abstraction `Documents`
   uses derived from it.
2. Compositions instead of environments: Documents with EmbeddingWorker (chunks replaced
   under the worker), OAuthGrants and Access with Members (a token dies with the
   membership).
3. In `Access`, several documents and projects, with creation in a project.
