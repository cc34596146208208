# Multicorn 2: a TLA+ model

Multicorn is a PostgreSQL extension that lets foreign data wrappers (FDWs) be written in Python. A C
library (`src/src/`) implements PostgreSQL's FDW callbacks and forwards them to *wrapper instances*, Python
objects of a class derived from `multicorn.ForeignDataWrapper` (`src/python/multicorn/`). The repository
also ships a dozen wrappers.

This directory holds TLA+ modules translated from that code, TLC configurations that check them on small
instances, and proofs of the most important results for all instances. `PROJECT.json` maps every
definition to the lines that it models.

## 1. The system

| Component | State it keeps | Operations | Interacts with |
|---|---|---|---|
| Instance cache (`python.c`) | `InstancesHash`: per table the instance, the options and columns it was built from, `xact_depth` | `getCacheEntry`, `getInstance`, `begin_remote_xact` | called by planner, scan and modify; calls `get_class`, `__init__`, `begin`, `sub_begin` |
| Transaction callbacks (`multicorn.c`) | a cursor over `InstancesHash` | `multicorn_xact_callback`, `multicorn_subxact_callback` | called by PostgreSQL; call `pre_commit`, `commit`, `rollback`, `sub_commit`, `sub_rollback` |
| Error reporting (`errors.c`) | PostgreSQL's stack of pending reports | `errorCheck` | after every call into Python; throws |
| Transaction-aware base class (`__init__.py`) | `current_transaction_state` | `insert`, `update`, `delete`, `rollback` | base of `FilesystemFdw` |
| Filesystem wrapper (`fsfdw/`) | operations of the transaction, `invisible_files`, `updated_content`, cache of locked descriptors | `execute`, `end_scan`, `insert`, `update`, `delete`, `pre_commit`, `rollback` | the directory, shared with every other backend |
| Filesystem patterns (`structuredfs.py`) | none | pattern parser, `from_filename`, `get_items` | filesystem wrapper |
| Scan execution (`multicorn.c`, `python.c`) | the Python iterator, buffered quals | Begin, Iterate, ReScan, End, `execute` | instance cache, conversion |
| Planning (`multicorn.c`, `query.c`) | `MulticornPlanState`, serialised into the plan | sizes, paths, sort and limit pushdown | instance (`can_sort`, `can_limit`, `get_path_keys`) |
| Qualifiers (`query.c`) | none | `extractRestrictions` and what it calls | planning, scan execution |
| Modification (`multicorn.c`) | modify state | insert, batch insert, update, delete | instance, conversion |
| Conversion (`python.c`) | conversion info | Datum to object and back | scan execution, modification |
| SQLAlchemy wrapper (`sqlalchemyfdw.py`) | a connection and a remote transaction per instance | all transaction hooks, `insert`, `update`, `delete`, `execute`, `can_sort`, `import_schema` | the remote database, which may refuse, forget or lose the answer |
| RSS wrapper (`rssfdw.py`) | the rows of the last fetch and their date | `execute` | the feed |
| IMAP wrapper (`imapfdw.py`) | the connection | `imap_agent`, `execute`, `extract_conditions` | the mail server, which hangs up |
| LDAP wrapper (`ldapfdw.py`) | none between scans | `execute` | the directory server |
| XML wrapper (`xmlfdw.py`) | the handler's rows, row, tag and depth | SAX callbacks, `execute` | the parser |
| Metadata cache (`fsfdw/docutils_meta.py`) | an ordered dictionary under a lock | `mtime_lru_cache` | reStructuredText wrapper, the files |
| Schema import (`__init__.py`, `multicorn.c`) | none | `import_schema`, `to_statement` | PostgreSQL's parser, the wrapper that reads the types back |
| Test wrapper (`testfdw.py`) | none | `execute` | the regression tests |

**What is hard.** A backend is single-threaded, so the C side has no races; its difficulty is *errors*.
Any call into Python may raise, `errorCheck()` turns that into a `longjmp` out of the loop, and PostgreSQL
then enters another callback loop over the same half-updated table: what is left of the first loop decides
whether the second one is right. The filesystem wrapper has the opposite problem: several backends share a
directory, and their only coordination is `flock`, taken after `open` on a name that may have been removed
in between. Planning has a third: the work of a query (filter, sort, limit) is divided between PostgreSQL and
Python by callbacks that each see a part of it, and the division is right only if the parts add up. The wrappers for
remote services have a fourth: they translate (quals, sort keys, types, names) into a language in which almost
the same operators mean something slightly different, and they hold a connection or a cache that the other side
can invalidate at any time.

**What makes it correct.**

* Instance cache and callbacks: each instance goes through `begin`, properly nested `sub_begin` /
  `sub_commit` / `sub_rollback`, `pre_commit`, and one of `commit` and `rollback`; all instances hear the
  same verdict; none commits before all have voted; no entry stays open when the transaction is over; an
  instance in use was built from the current options and columns; no pointer to a freed object is followed.
* Filesystem wrapper: a transaction is atomic; it sees its own changes and nothing else; nothing is left
  behind; an insert never overwrites; readers are not disturbed.
* Planning and scan execution: however the sort, the limit and the filter are divided, the query's answer is
  one it may have; a path's claimed order holds for its rows; `can_limit` is asked only when the wrapper does
  the whole query; rescans start afresh with the current parameters; iterators are released exactly once.
* Qualifiers: a wrapper that applies the qualifiers it is given drops no row that PostgreSQL would keep.
* SQLAlchemy wrapper: a change of a committed local transaction is committed remotely; remote databases change only
  while the local transaction can still be aborted; no remote transaction outlives the local one.
* Translations: the remote side returns at least the rows that the query asks for, in the order that was claimed;
  a generated statement says what the definition says; file names and columns determine each other.
* Caches and connections: never older than promised, never more than the limit, and no failure sticks.

`PROJECT.json` lists under `hazards` the places where this can go wrong and a test would hardly notice.

## 2. The modules

| Module | What it is |
|---|---|
| `PgXact` | PostgreSQL's transaction manager, external: nesting levels, savepoints, handler blocks, COMMIT, PREPARE, errors and the order in which the callbacks' events are delivered |
| `HookProtocol` | Abstract specification: what the transaction hooks promise to the author of a wrapper |
| `InstanceCache` | `getCacheEntry`, `begin_remote_xact` and both callbacks on top of `PgXact` |
| `InstanceCacheProofs` | Theorems and proofs about `PgXact` and `InstanceCache` |
| `FsFdw` | `FilesystemFdw` and `Item.open` / `read` / `write`, for several backends on one directory |
| `FsFdwProofs`, `FsAtomicProofs` | Theorems and proofs: any number of backends; one backend and what its transactions mean |
| `Pushdown` | The planner's callbacks: columns, sort and limit pushdown, the plan |
| `ScanExec` | `Pushdown` extended by the executor's callbacks, the iterator and the query's answer |
| `Quals` | `query.c`'s extraction of qualifiers from a clause, and their evaluation in `execute` |
| `ScanExecProofs`, `QualsProofs` | Theorems and proofs |
| `SqlAlchemyFdw` | The SQLAlchemy wrapper as a participant of `HookProtocol`, with a remote database that fails |
| `ImapFdw`, `RssFdw`, `XmlFdw`, `MetaCache` | The state of four wrappers: connection, cache with a life time, SAX handler, cache under a lock |
| `WrapperProofs` | Theorems and proofs about `SqlAlchemyFdw`, `MetaCache`, `RssFdw` and `XmlFdw` |
| `RemoteQuals`, `SortedScans`, `SchemaImport`, `StructuredFs` | Pure translations, each next to a reference: what the other side makes of the result |
| `TranslationProofs`, `NameProofs` | Theorems and proofs about the translations and about all wrappers together: sorting and quals; schemas and file names |
| `MCInstanceCache`, `MCFsFdw`, `MCScanExec`, `MCQuals`, `MCWrappers` | Model values, queries, clauses, texts and symmetry for TLC |

### PgXact

A transaction state is one record. `level` is what `GetCurrentTransactionNestLevel()` returns. `unwind` and
`after` say which levels the running command still has to end and what comes then, so that a COMMIT with
three savepoints open delivers the events of levels 4, 3, 2 and then the transaction's own. `Throw(x, c)` is
an ERROR whose report takes `c` entries of the error-report stack: a handler block catches it; otherwise
the main loop aborts the level, or the level *around* one that was just being released. Reports of errors
thrown while aborting stay on the stack until the abort is over; a full stack (five entries in the server)
is a PANIC, and so is an error after the transaction id was marked committed.

### InstanceCache

One variable per field of `CacheEntry` (`value`, `depth`, `entOptions`, `entColumns`), plus `refs` for the
Python reference count, `todo` for what is left of the running `hash_seq_search` loop, and history
variables for what the instances have been told. `value` distinguishes an absent entry, uninitialised
memory, NULL, a live instance and a freed one. The lists of options and of columns are abstracted to one
value each; `compareOptions` and `compareColumns` tell exactly whether they are equal. A call into Python
has one action in which it returns and one in which it raises; the constant `Raising` says which calls may.
`reportException` costs two stack entries (it calls `errstart` twice), `reportMulticornException` one.

The planner's reference to an instance is never given back, the executor's is; `GetInstanceReturns` covers
both, and `MaxRefs` bounds the leak. Two references behave like any larger number: only the step from one
to zero frees the instance.

Left out: `FATAL` reports; the `WARNING` branch of `reportException`, which needs a transaction block
already marked aborted, while the callbacks run before it is marked; changes of the current role, which act
through the user mapping's options and are therefore the same as `Alter`.

### FsFdw

A row is a file name with a content; the columns in the name determine it. The methods are cut where
another backend can interfere: `Item.open` is an open step (`OpenShared`, `OpenExclusive`), then a lock step
that waits for `flock`; `pre_commit` and `rollback` replay one operation at a time. `hand[b]` is the inode
of the descriptor between `os.open` and `flock`. A cached descriptor refers to an *inode*, which may have
been unlinked, and may have been closed behind the cache's back (kind `"closed"`: `open` closes the shared
descriptor, and then fails). What a transaction means (`Intended`) is given by the last operation on each file. Statements are those of
`Statements`: `"recreate"` lets a transaction name a
file again that it created, moved or deleted; `"clobber"` lets it name one that its running scan has read.

Left out: null contents; errors of `_item_from_dml` on column values (no state has changed when they are
raised); creation of directories; reuse of a closed descriptor's number by the process before the
transaction ends (it would make `close` hit another file instead of raising); changes of the directory that
do not come from this wrapper.

### Pushdown and ScanExec

`Pushdown` has one action per planner callback, in the order in which PostgreSQL calls them
(`GetForeignRelSize`, `GetForeignPaths`, the upper paths for sort and final, `GetForeignPlan`), and `ScanExec`
one per executor callback. A query is a record of its shape, where its WHERE clause is (the difference that
`add_foreign_final_paths` can see), ORDER BY, LIMIT and OFFSET. A path key is `[att, how, var]`: `how` stands
for direction, position of nulls and collation. `planstate` is `MulticornPlanState`; `private` says whether
`fdw_private` of the current upper relation is set, on which every early return of the upper-path callbacks
rests; `told` records the calls of `can_limit`. A whole-row reference asks for all `Attributes`. Costs are left out: the planner may take any path.

The wrapper's part of the contract (external): `can_sort` answers with a prefix of what it is given, `execute`
honours that prefix of the sort keys it is passed, applies a limit that `can_limit` accepted, and may apply or
ignore qualifiers. The rest of a plan (Sort and Limit nodes, the filter) is PostgreSQL's. `es.p_iterator` is
the C field, `refs` counts the references taken on iterators minus those dropped. A statement may be executed
again with its plan or planned anew; any call into Python may raise.

Left out: set-returning functions in the target list and `UPDATE`/`DELETE` (both end the limit pushdown before
anything changes); the layout of the serialised plan state apart from its sort keys; rows that the iterator yields as `None`; negative
limits.

### Quals

A clause is a record of its kind, operator and operands; an operand is a column, a constant, a parameter or
another expression, with what the code asks about it (its relation, whether it is volatile, the casts that
`unnestClause` strips). `IsTrue` is the reference: PostgreSQL's three-valued semantics of the clause.
`extractRestrictions` and `qualdefToPython` are the code. `Keeps` reads a qualifier as strictly as a wrapper
can. Operators are strict, and are equality and inequality where they are so named; comparison under a collation
that differs from the wrapper's is not represented. Values may change at every rescan.

### SqlAlchemyFdw

The module extends `HookProtocol`, so hooks arrive in every order that the protocol allows and in no other; that
the C code keeps to it is what `HooksFollowProtocol` says. `session[t]` is the remote end of the instance's
connection, `work` the changes of open remote transactions, `remote` what the databases have committed. On the
local side `kept`, `saved`, `committed` and `undone` follow the changes through savepoints, COMMIT and ROLLBACK.
`Failing` says what may go wrong: connecting, a statement, the remote COMMIT, its answer, the remote ROLLBACK, the
local server after `pre_commit`, a crash. With `Doomed` a failed statement dooms the remote transaction, whose
COMMIT then returns normally and does nothing. Reading a result is a statement like any other; the
connection's options are left out.

### The other wrappers

* `ImapFdw`: `imap_agent` is the agent; `Use` and `UseRaises` are one pass through the property together with the
  command that follows. The network and the server are external. A new agent is assigned before it logs in, as in
  the code.
* `RssFdw`: a version of the feed stands for its rows; `ended` records when a version was replaced, which is what
  the age of an answer is measured by. The fetch is cut between reading and storing.
* `XmlFdw`: one action per SAX callback and one for the end of a buffer, which may be anywhere. `wanted` is the
  reference: the rows of the document as its tree defines them.
* `MetaCache`: cut at the two locked sections. The metadata of a file is the number of times it was written.

### The translations

Text is a sequence of characters over a small alphabet: ordinary letters and the characters that decide what the
result means. For LIKE these are `%`, `_` and the backslash; for a filter `(`, `)`, `*`, `/` and the backslash; for search
criteria the double quote too; for a statement both quotes and the comma; for a pattern brackets and the slash. Spaces,
control characters, NUL and the metacharacters of regular expressions are left out. Each module has the translation and, marked external, a reading of the result by the other
side: `Like`, `SqlTrue`, `Filtered` (an LDAP server's reading of a filter), `Meets` (an IMAP server's of a criterion),
`RemoteKey` (a database's of an ORDER BY term), `Lex` (PostgreSQL's of a statement), `vformat` and `Match` (Python's
of a pattern). An IMAP criterion carries its argument as it is sent: `InQuotes` escapes nothing, `IsString` and
`StringText` say whether the server can read it and as what, and a search with a criterion that is `Refused` fails. A space
after a quote in the value would begin another search key, which is why spaces are named among what is left out.
`MCWrappers` makes each call a step, so that TLC evaluates every property on every combination of
arguments. Left out: collations; operators that SQLAlchemy translates like the ones listed; the encoding of texts;
`_parse_url_from_options`.

No operator is declared `RECURSIVE`: a loop over a text is a function `before[i]` of what it has made when it comes to
place i, a reading of a text is one from its place i on. The conditions that `extract_conditions` returns are a set, all
of which a mail must meet, and each is the set of its alternatives: the order in which they are sent, and how often, is left
out. In the same way LDAP's `Filtered` and LIKE's `Like` are sets of places from which on a text matches, which leaves
open how a server looks for one.

## 3. The runs

### Passing

| Run | Instance | Checks |
|---|---|---|
| `hooks_protocol` | 2 tables, 2 options, 2 column lists, 3 levels; everything but `commit` may raise; no PREPARE, no ALTER in a transaction | `TypeOK`, `IdleClean`, `OneVerdict`, and that `InstanceCache` implements `HookProtocol` |
| `hooks_anything` | 2 tables, 2 options, 2 levels; everything may raise, PREPARE, ALTER in a transaction | `InStep`, `VotesFirst`, `Fresh`, `ToldOnce`, and `CallbacksEnd` under fairness |
| `fs_atomic` | 1 backend, 2 names, 2 contents, 3 operations | `TypeOK`, `Atomic`, `ReadYourWrites`, `CleanIdle`, `InsertIsNew` |
| `fs_one_file` | 2 backends, 1 name, 2 contents, 1 operation each, all statements | `NoDeadlock`, `ReadsStable`, and no deadlock of the whole system |
| `fs_contention` | 2 backends, 2 names, 2 operations each; insert, rename, clobber | `PopsCached` |
| `query_answers` | 3 rows, 2 columns, 2 scans per statement, three shapes, five orders, LIMIT absent, null, 0 to 2 or an expression, OFFSET likewise, WITH TIES | `TypeOK`, `RightAnswer`, `ClaimsKept`, `LimitOnlyWhole`, `RefsSettled` |
| `quals_sound` | 1 column, 2 values and null, 5 operators, one without commutator; every pair of operands | `NothingLost`, `QualsOnColumns` |
| `wrappers` | SQLAlchemy: 2 tables, 1 row each, every failure; metadata cache: 2 threads, 3 files, 2 entries, 1 write each; RSS: life time 2, fetch 1, clock to 5, 3 versions; XML: 2 columns, 9 events, depth 4; texts of up to three characters; 3 tables with foreign keys | `NoLostWrite`, `Released`, `AppliedBeforeVerdict`; `NotStale`, `CacheSound`; `NotTooOld`; `RowsOfDocument`; `ImapRecovers` under fairness; the properties of the translations (below); `TypeOK` |

The properties of the translations: `KeepsRows` (no row that the query asks for is lost remotely: `SqlKeepsRows`,
`LdapKeepsRows`, `ImapKeepsRows`, and `FetchesFound` for the ranges to fetch), `SortsAndCutsAsAsked`
(`SqlSortsAsClaimed`: rows come in the claimed order, NULLs included, whatever the dialect; `TestCutsAsAsked`: OFFSET
and LIMIT), `ImportsFaithfully` (`ImportsWhatIsAsked`, `StatementReads`, `TypeSurvives`), `NamesAreRows` (`RoundTrip`
and `InsertedIsFound`), `FixedAsListed` and `GoesWhereAsked` (file names). Each part names in its comment the
arguments for which the code does not keep it; the table of further behaviours says what happens then.

*Why the bounds are enough.* Two tables are the least for which one hook can have returned when another
raises, and the loops treat entries alike. Three levels give a subtransaction inside a subtransaction,
which is where a level is aborted together with the one around it. The proofs below remove these bounds
for the safety properties. Five report entries are the server's own number. For files, two names allow a
rename; three operations allow insert, rename and delete of one row; inodes are as many as can be referred
to at the same time, or one fewer (a create then waits, which removes no other behaviour). Symmetry is
used only in runs of safety properties, over sets whose members the specification never tells apart.
For queries, three rows are the least with a tie on each column and a proper middle for OFFSET 1 LIMIT 1; two
columns give orders in which one key alone is not enough; two scans are one rescan, and a rescan forgets all
but the plan. Two values and null tell any two of the operators apart, and a clause yields at most one
qualifier, on one column. `Int32Bits` is 3, and the bounds of `query_answers` stay below it.
For the wrappers: two instances are the least for which one remote commit can have succeeded when the other
fails, and the proofs remove this bound; two threads and three files fill a cache of two entries with a race on one key;
a third thread repeats what the second does. The clock runs for two life times of
an RSS cache and a fetch. Nine events are a document of two rows, one with a column in two pieces of text. Texts
of three characters have two special characters and an ordinary one in every order, and the theorems about quals and
statements are about texts of any length; patterns have up to four pieces, enough for two fields with a separator and an escaped bracket.

*Deadlock checking* is off in `fs_contention`: two clients may lock two files in opposite orders and wait
for ever; `NoDeadlock` says that they never do so over one name, and `fs_one_file` checks it. It is off in
`wrappers`, where a document ends and the rows that can be written run out. It is on everywhere else; with one name the file wrapper never stops.

*Fairness.* `FairSpec` assumes weak fairness of `BeginRemoteXact` and `Callback` only: a backend that is
inside multicorn's code goes on executing it. Nothing is assumed of clients. `CallbacksEnd` says that the
loops end even if hooks raise for ever: `rollback` clears `xact_depth` before `errorCheck`, and a
`sub_rollback` that keeps raising fills the report stack and ends in a PANIC. In `wrappers` weak fairness of
`StartScan` and of `Use \/ UseRaises` means that the client tries its query again and that PostgreSQL runs it;
`ImapRecovers` needs no fairness of the network, only that it stays up from some moment on. The server may hang up
as often as it likes between two commands, and once more after each.

### Violations

Each of these checks one property that a comment, a document or a test states, and TLC shows a behaviour of
the code that violates it. The quotations are in `PROJECT.json` under `findings`.

| Run | What happens |
|---|---|
| `prepare_leaves_open` | PREPARE TRANSACTION is announced to no instance; the entry stays open into the next transaction |
| `class_error_bad_pointer` | an instance is cached, its table's options are altered, and `get_class` raises after `getCacheEntry` has released the stale instance: the next access follows the pointer to the freed one (`NoFreedInstance`) |
| `fs_recreate` | a file is committed; DELETE, INSERT of the same file, ROLLBACK: it is lost. The run begins with the file and has no statements but those |
| `limit_under_view` | a WHERE clause that came from a view is below `jointree->quals`: `can_limit` is asked all the same |

### Further behaviours outside the stated properties

The modules also define properties that hold only under the restrictions named with them. TLC violates
each of them in seconds on the instance given here (two tables or two backends, one name or two, other
constants as in the listed configurations; for a translation, with the exception that the property's comment
names taken out of it); they mark the limits of what the passing runs claim.

| Property | Constants | What happens |
|---|---|---|
| `NoneLost` | `Events = {"alterInXact"}` | ALTER of an option inside a transaction replaces the instance, which never hears how the transaction ended (`python.c:602`) |
| `NoneMerged` | `Raising = {"sub_commit"}`, `Events = {"savepoint"}` | one `sub_commit` returns, the next raises; the first instance is not told that the level is rolled back (`multicorn.c:1188`) |
| `OneVerdict` | `Raising = {"commit"}` | `commit` raises: one instance has committed, the others are told to roll back (`multicorn.c:1226`) |
| `NoPanic` | `Raising = {"rollback", "sub_rollback"}`, `Events = {"savepoint"}` | two report entries per exception, not flushed while aborting: the report stack overflows (`errors.c:90`) |
| `InsertIsNew` | `Statements = {"insert", "recreate"}` | the second INSERT of a file in one transaction is accepted (`structuredfs.py:228`) |
| `ReadYourWrites` | `Statements = {"rename", "clobber"}` | a refused rename leaves its content in `updated_content`; the next transaction reads it (`structuredfs.py:243`) |
| `LockedExists` | 2 backends, `Statements = {"delete"}` | `delete` holds the lock of a file that was unlinked while it waited (`structuredfs.py:249`) |
| `Settled` | 2 backends, `Statements = {"update", "abort"}` | ROLLBACK of an update writes back a content older than another backend's commit (`fsfdw/__init__.py:421`); without `"abort"` it holds |
| `RightAnswer` | `Queries <- MCViewQueries` | the wrapper limits before PostgreSQL filters: rows are missing (`multicorn.c`, `add_foreign_final_paths`) |
| `RightAnswer` | limits of `2^Int32Bits` and more | LIMIT is an `int8`, read with `DatumGetInt32`: the query is limited to the low bits of its limit (`multicorn.c:552`) |
| `RefsSettled` | `AnalyzeToo = TRUE` | EXPLAIN ANALYZE explains after the scan: `execute` overwrites `p_iterator`, whose reference is lost (`python.c:1019`) |
| `NoneSettled` | as `query_answers` | `execute` returned `None`: its reference is dropped there, and by ReScan or End once more (`python.c:1030`) |
| `NothingLost` | operands with `cast = "convert"` | `unnestClause` strips an array cast that converts the elements: the wrapper compares with the unconverted ones (`query.c:170`) |
| `NoLostWrite` | `Doomed = TRUE` | a statement fails, the client goes on after ROLLBACK TO, and the remote COMMIT of the doomed transaction discards what was written before (`sqlalchemyfdw.py:389`) |
| `NotStale` | `SameTick = TRUE` | a second write within one tick of the clock goes unnoticed (`docutils_meta.py:62`) |
| `ImapRecovers` | `LoginRefused = TRUE` | the agent was assigned before it logged in: `select_folder` raises `IMAP4.error` from then on, and only `IMAP4.abort` connects again (`imapfdw.py:188`) |
| `RowsOfDocument` | `Nested = TRUE` | the inner of two nested elements ends the row of the outer (`xmlfdw.py:45`), and an inner column ends the outer's text (`xmlfdw.py:48`) |
| `ImapKeepsRows` | a double quote or a backslash in the value | neither is escaped: `a"` is sent as `TEXT "a""`, which the server cannot read, and the query fails; `a\` takes the closing quote with it (`imapfdw.py:237`). A flag is sent without quotes and must be an atom (`imapfdw.py:231`) |
| `ImapKeepsRows` | `<>`, NOT LIKE, `<> ALL` | lines 59 to 61 list them as pushed. On the payload and on `FROM` they become NOT of a *substring* search, which leaves out the mails that contain the text and are not equal to it (`imapfdw.py:217`); on another header the prefix replaces the NOT and they become a search *for* the text (`imapfdw.py:246`) |
| `ImapKeepsRows` | otherwise without `ImapTranslates` | IS NULL becomes a search for the text "None", or no search at all; `= ANY` drops the alternatives it cannot translate (`imapfdw.py:127`); an empty text answers the whole query with no rows (`imapfdw.py:245`); a flag is compared with a name that has no backslash |
| `LdapKeepsRows` | `_` or a backslash in a LIKE pattern, `= ANY` | only `%` is translated (`ldapfdw.py:196`); a list is put into the filter as Python prints it (`ldapfdw.py:199`) |
| `LdapKeepsRows` | `IS NULL`, a column of an array type | `None` has no `translate`: the filter is `(cn=None)`, which the entries without the attribute do not meet; the value of an array column is a list and printed like one (`ldapfdw.py:199`) |
| `SqlKeepsRows` | `escapes = FALSE`, pattern with a backslash | the remote LIKE takes the backslash for itself (`sqlalchemyfdw.py:335`) |
| `ImportsWhatIsAsked` | a foreign key into another schema | the table is defined with the options of the imported schema (`sqlalchemyfdw.py:513`) |
| `RoundTrip` | `{{{{`, a pattern that is not `Plain` | the tokenizer reads one bracket where `string.Formatter` makes two; `{{{a}`, which the formatter knows, is refused (`structuredfs.py:78`) |
| `RoundTrip` | `{a}}`, a pattern that is not `Plain` | after a field the tokenizer takes a single `}` for an escaped one: the directory is made and lists files, and every `filename` that is made from an item raises ValueError (`structuredfs.py:81`) |
| `FixedAsListed` | `{a}_{b}`, both fixed | `x_x_x` is found for values under which it is not listed (`structuredfs.py:186`) |
| `GoesWhereAsked` | UPDATE of filename and columns | the new filename is ignored (`fsfdw/__init__.py:351`), though line 350 says "Keep everything to not bypass conflict detection" |
| `TestCutsAsAsked` | LIMIT 0, or OFFSET without LIMIT | unsorted rows are not cut, sorted ones raise `TypeError` (`testfdw.py:113`) |

The remote transaction of the SQLAlchemy wrapper is committed before the local one, and the sub hooks do nothing.
So the reverse of `NoLostWrite` is not promised: a failure after `pre_commit`, a lost answer, a crash between the two
commits, and a ROLLBACK TO leave remote changes that the local transaction has undone.

Two more limits follow from reading the code and are not represented: `computeDeparsedSortGroup` matches keys by
column number only (`query.c:763`), so two collations of one column in ORDER BY are mixed up; and a negative
LIMIT is passed on as if it were absent, where PostgreSQL raises an error.

## 4. The proofs

All theorems hold for every set of tables, options and columns, every bound on nesting and on the report
stack, and every choice of `Raising` and `Events` (for queries: every set of queries, table and number of
rescans; for qualifiers: every set of values, operators and clauses) unless the theorem says otherwise. They
assume `PgXactAssumption`, `CacheAssumption`, `FsAssumption`, `NullAssumption`, `SqlAssumption`, `MetaAssumption`,
`ImapAssumption`, `RssAssumption`, `XmlAssumption`, `BitsAssumption`, `QueriesAssumption`, `TableAssumption`, `OuterAssumption`,
`ValsAssumption`, `OpsAssumption` and `ClausesAssumption`, which TLC evaluates in the runs of the modules that state
them. They say that the constants have their types and that a value standing for "none" (`NULL`, `NoTag`, `NoRows`) is
not one of the others. `QueriesAssumption` also says that path keys are `Canonical`: PostgreSQL keeps no key on a column
that an earlier key sorts on. It leaves out ORDER BY of one column under two collations, the case of `query.c:763` in
section 3.

*Invariant of the instance cache.* None of the properties is inductive. `IInv` adds to them
`Coherent(xact)` (which combinations of phase, level, `unwind` and `after` the transaction manager can be
in), `TodoSound` (what the loop's cursor has not reached still qualifies for the event, and what it has
passed has been dealt with), `ToldSound` (an instance that heard the end is out of the transaction) and
`NoPrepare`. `TodoSound` carries the argument: when a loop is left by an error and another one is entered,
`todo` is computed anew from the depths, and `InStep` says that the depths are right at every moment, not
only between callbacks.

* `InstanceCacheProofs`, the transaction manager: each transaction-manager operator maps coherent states to coherent states, and bounds the
  level by what it was; `ThrowOK` and `DeliveredOK` are the two lemmas that everything rests on.
* `InstanceCacheProofs`: one lemma per group of actions (`ClientStep`, `GetCacheEntryStep`,
  `BeginRemoteXactStep`, `SubEndStep`, `EndHookStep`, `CallbackReturnsStep`, ...), combined in `Invariance`;
  then `TypeCorrect`, `StaysInStep`, `VotesComeFirst`, `AlwaysFresh` and, without PREPARE,
  `CleanBetweenTransactions`.
* `InstanceCacheProofs`, the hooks: `HeardOnce` (an action property), and in a *calm* environment (no PREPARE, no ALTER
  in a transaction, `commit` does not raise: each of the three is needed, by `prepare_leaves_open` and the
  behaviours listed for `NoneLost` and `OneVerdict` above) `HooksRefineProtocol`, the
  refinement of `HookProtocol`, and `SameVerdict`. They need `Engaged`: a participant stays in the cache and
  one loop decides for all.
* `ScanExecProofs`: `TypeCorrect`, `LimitAskedForWhole` and, without EXPLAIN ANALYZE, `ReferencesSettle`.
  The invariant adds `WholeSoFar` (why `private` implies that the wrapper does the whole query so far) and
  `OneReference` (the node has an iterator exactly when it owns one reference, and only between Begin and End).
* `ScanExecProofs`, the answer: `ClaimsHold` and, for the queries of `Covered`, `AnswersRight`. Two more invariants.
  `PlanningOK` says what callbacks leave for each other: what `can_sort` promised are the first of the wanted keys,
  and a path or a plan claims all of them or nothing. It needs `SameColumn` (`computeDeparsedSortGroup`, which joins
  the two lists by column number, gives back the first n of canonical keys when the wrapper answered those) and
  `KeysBack` (the sort survives the serialised plan). A plan is then one of two: `BasePlan`, where PostgreSQL still
  sorts unless the claim covers ORDER BY and still limits, and `FinalPlan`, where it does nothing because the
  wrapper has the whole sort and the limit of a plain query (`WholePushed`). `ExecOK` says that what was returned
  are the rows that the query wants (`Wants`) among those read so far, in the order read (`Filtered`), and that
  those read are a window of rows that include all wanted ones, in the order of the plan's sort keys (`Fetched`). At the end of the scan
  the rest is about sequences: dropping columns keeps an order on the columns that are left (`ColumnsInOrder`) and
  commutes with LIMIT and OFFSET, WITH TIES too (`ColumnsCut`); what is sorted by some keys is sorted by the first
  of them (`PrefixInOrder`); the window that the wrapper applies is the one that PostgreSQL's Limit node lets
  through (`WindowCuts`). The arrangement that the scan returned is thereby one of those the query allows.
* `QualsProofs`: `WrapperMayFilter` and `ColumnsOnly`, the first for clauses without converting casts. The
  lemmas say what each function keeps: `UnnestValue`, `SwapMeaning` (the commuted operator relates the swapped
  operands), `OpExprKept`, `ArrayKept`, `TestKept`; `StaysInStep` says that what was sent was evaluated with the
  values of this scan.

* `FsFdwProofs`, for any number of backends, files and operations and every choice of `Statements`:
  `FsTypeCorrect`, `FsReadsStable` (an action property), `FsNoDeadlock` and `FsPopsCached`.
  The first needs `WellFormed`: what each call has opened and where in the operations each loop is
  (`CallOK`, `PhaseOK`, `OpsOK`). The locks need `LockInv`, which adds `Exclusive` (an exclusive descriptor of one
  backend and any descriptor of another never have the same *inode*; names say nothing, they come and go between
  `open` and `flock`), `OneName` (on the disk, in a cache or in hand an inode is reached under one name: a file removed
  and made again is another inode as long as anybody refers to the first) and `HandOK` (a backend that waits for an exclusive lock has nothing cached under that name that
  is open, or the same inode). `FsPopsCached` needs `CachedOK`: every file that the rest of `pre_commit` is going
  to close is cached (`StillCached`), because whatever two operations remove is made again between
  them (`MadeBetween`), and a made file is locked (`FilesHeld`).
* `FsAtomicProofs`, for one backend whose transactions name a file once (`Alone`, `NamesOnce`): `FsAtomic`,
  `FsReadYourWrites`, `FsCleanIdle` and `FsInsertIsNew`. `AtomicInv` follows each file through the
  transaction: `Life` (nothing touches it before it is made or after it is removed), `FirstOld` (the first update has
  kept the committed content, which rollback writes last), `Linked` (cached descriptors lead to the files that have the
  names), `Shown` (what a scan shows is what the last operation on the file has for it) and `Applied` (how far the
  disk is from the table: behind the point that `pre_commit` has reached, or back to the one that `rollback` has).
  "The last operation on n" is said without recursion, as the operation after which n is `Untouched`; that and the
  definition of `Intended` by the last operation are what makes the proof possible.
* `WrapperProofs`, SQLAlchemy: `CommittedIsRemote`, `NothingStaysOpen` and `VerdictComesLast`, for remote databases that
  undo a failed statement alone (`~Doomed`; otherwise the first is false). `SqlInv` adds to the properties `OpenIsHeld`
  (an open remote transaction is one that an instance in the local transaction holds), `WorkIsOpen`
  (remote work belongs to open transactions), `VotedIsDone` (an instance that has voted holds no transaction),
  `KeptSomewhere` (as long as the local transaction may still commit, also after a ROLLBACK TO, its changes are
  remote or in open work) and `Verdict` (only what has voted is told to commit, only a failure to roll back).
  `KeptSomewhere` and `Verdict` together make the step in which the local transaction becomes durable preserve
  `NoLostWrite`.
* `WrapperProofs`, caches and the XML handler: `MetaCacheSound` and `MetaNotStale` for any number of threads and files
  (an entry's metadata lies between the modification it was read for and the content: `Fits`; the same of what
  each thread has in hand: `CallerOK`); `RssNotTooOld` (a fetch that is under way was begun at most `FetchTime` ago,
  and what it has read was current then); `XmlRowsOfDocument` for documents whose rows do not nest: the handler's
  row, tag and text are those of the element that is open (`HandlerOK`), and what it has delivered together with what
  waits in `parsed_rows` is what the document says (`Delivered`).

* `TranslationProofs`, types: `WrappersTyped`, the type invariant of the composed specification, whatever fails and
  whatever the document. The only strengthening it needs is in `XmlFdw`: `root_seen` counts the elements that are open,
  which is why it does not become negative.
* `TranslationProofs`, sorting and cutting: `SqlSorts`, for every dialect and all keys and rows. `TermMeansKey` says
  that each term of the ORDER BY means its key, by what `SORT_SUPPORT` says of the dialects (`DialectsKnown`). `TestCuts`
  for tables of any length: the rows that Python's `sorted` returns are all rows and as many, so that OFFSET and
  LIMIT are about the same rows with and without a sort key.
* `TranslationProofs`, quals. `SqlKeepsAllRows`: each clause accepts what its operator accepts, with ANY, ALL or
  neither; a pattern without a backslash means the same whether or not the remote LIKE escapes (`LikeEscapes`,
  downwards from the end of the pattern). `LdapKeepsAllRows`: `FilterAt` says at which place of the filter the translation
  of each character of the value begins, `Walk` which places of an attribute LIKE or equality comes to with it;
  the server, which reads the filter, comes to the same places (`WalkIsFiltered`), because it reads an escaped character as
  that character and finds a `*` only where a `%` was. `ImapKeepsAllRows`: what is like a pattern contains the pattern without its wildcards at both ends (`Trimmed`),
  if no other is inside (`TrimmedInside`), and still does when the case is ignored (`LoweredInside`); a search for a part of the
  text finds it. `QuotedIsRead` is where the values without a quote or a backslash come in: the server reads such a text
out of its quotes as it was put in. `AllAreFetched`: the ranges made so far
  together with the one that is open hold the messages that the loop has passed and no others (`CompactedTo`).
* `NameProofs`, IMPORT FOREIGN SCHEMA. `ImportedAsAsked` for every database (`IsDatabase`: foreign keys refer to tables
  that exist, and keys are columns). `TypesSurvive`: each kind of type through `Convert`, `FormatType` and
  `_get_column_type`. `StatementsAreRead` for definitions of any length with any characters in their names. A
  `Fragment` is a piece of text with the tokens that the lexer makes of it and the states in which it begins and
  ends; fragments compose (symbols, quoted names with doubled quotes, literals, lists with commas), and a statement
  is composed of them as `to_statement` does it.
* `NameProofs`, files: `WrittenWhereAsked` for every pattern, with values and names of any length. What `from_filename`
  returns is one function on the directory's properties or none, and none of its values has a slash: those are the two facts
  that the comparison in `_item_from_dml` rests on.
* The theorems `SortsAndCuts`, `RowsAreKept`, `ImportsAreFaithful` and `FilesGoWhereAsked` say that the composed
  specification keeps the invariant of the run. Each applies the ones above to the calls of `MCWrappers`; the ones
  above hold for arguments of any length.

*Recursive functions.* The library's induction theorems have an operator as parameter, and the existence of a
function that is defined by recursion is one of them. `TranslationProofs` does without: `Least` (a set of
numbers has a least element, from the well-foundedness of <) gives `Upwards` and `Downwards`, which are
induction over the *set* of the places with the property, and `Recursion` and `RecursionAfter` say that a function on 1 .. n
whose value at i is given by its value at the place before (or by those after) exists and is the one that
`CHOOSE` finds. So each loop has a lemma that says what it is at the first place and at the next.

*Hypotheses of these theorems*, each with the behaviour that TLC finds without it (section 3): `NamesOnce`
(`fs_recreate`, and `InsertIsNew`, `ReadYourWrites` in the table above), `Alone` (`Settled`),
`~Doomed` (`NoLostWrite`), `~SameTick` (`NotStale`), `~Nested` (`RowsOfDocument`), and `Covered`: no WHERE clause of
a view (`limit_under_view`) and no limit or offset that `DatumGetInt32` changes. `FsPopsCached` has another kind of
hypothesis, about the behaviour: as long as no `rollback` raises halfway (`NoRollbackFails`). One that does leaves
`current_transaction_state` with operations whose descriptors are gone, and the next `pre_commit` replays them.

The theorems about translations have the hypotheses that say what an argument is: a text is a sequence over some
alphabet, in which "NULL" and Python's None are no characters; to the characters of a statement belong those that it adds
(`IsAlphabet`); `TextValues` and `ImapQuals` say that an operator without ANY or ALL has one value unless it is
an operator on arrays. `TestCuts` is about at most one sort key and columns that are not null, as in
`testfdw.py`. `WrappersTyped` needs a file for the cache to be about. What else the properties exclude is in
their definitions, with the behaviours listed in section 3.

*Only model-checked*: `CallbacksEnd` and `ImapRecovers` (liveness is out of the prover's reach); `NamesAreRows` and
`FixedAsListed`: they relate two readers of one pattern, tokenizer and formatter, at places that differ wherever a
bracket is escaped, and a regular expression's choice of where a name is cut; the induction over both has not been
carried out.

## 5. Plan

1. (done) `PgXact`, `HookProtocol`, `InstanceCache`; proofs of the invariant and of the refinement.
2. (done) `FsFdw`, checked for one and for two backends.
3. (done) `Pushdown` and `ScanExec`: from planning to the answer, with rescans and errors; first proofs.
4. (done) `Quals`: extraction of qualifiers against three-valued semantics; proof that no row is lost.
5. (done) Wrappers: the SQLAlchemy wrapper on top of `HookProtocol`, with proofs; RSS, IMAP, XML and the metadata
   cache; the translations of quals, sort keys, schemas and file names.
6. (done) Proofs about `FsFdw`, locks first and then what a transaction means; the caches and the XML handler; the
   answer of a scan.
7. (done) Proofs about the translations: types, sorting, quals, schemas, and where files go.
8. Proofs: `NamesAreRows` and `FixedAsListed`; the reverse of `NothingLost` for clauses that are passed on whole.
9. `Modify`: batch insert, row identity, and the rows handed to Python.
10. Planning with the instance cache: `InstanceCache` replacing the instance between planning and execution.

## 6. Not modelled, and why

Conversion of values is dominated by calls to PostgreSQL's type functions and carries no state. Option validation is
one call. The executor's modification callbacks pass a row to Python and one back; what happens to it there is the
wrappers' part. The CSV, process, statistics, git, Google and geocoding wrappers read an external source row by row
and keep no state between scans; of the LDAP wrapper only the filter and the rows are modelled, of the test wrapper
only `execute`. Crash recovery of the filesystem wrapper does not exist in the code: a crash leaves the files as they
are. `PROJECT.json` lists every component with its status.
