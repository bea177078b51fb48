# CDS-RDM in TLA+

CDS-RDM is CERN's repository for documents, built on InvenioRDM.  InvenioRDM
supplies records, drafts, communities, requests, pidstore and search; this
repository adds CERN's own logic on top: report numbers that are issued after a
committee approved a document, CDS report numbers typed in by users, the INSPIRE
harvester, synchronisation with the library catalogue and with CERN's people,
and redirection from the old CDS.

This directory holds TLA+ models of that logic, TLC configurations that
model-check them on small instances, and proofs that TLAPS checks.  Paths below
are relative to the repository's root; `cds_rdm/` stands for `site/cds_rdm/`.

## 1. Inventory

| Part | State it keeps | Operations | Hard behaviour |
|---|---|---|---|
| Committee approval (`cds_rdm/requests/committee_approval.py`) | the request (status, topic, number), `permission_flags.committee_approval` and the grants on the parent record, pidstore rows of type `apprn` | submit, accept, decline, cancel | overlapping accepts, a pending check that asks a search index, two requests on one version |
| Referee access (`cds_rdm/generators.py`) | none; reads grants and version indexes | `CommitteeRefereeVersionGrant.needs` | versions published during a review |
| Publish public (`cds_rdm/requests/views.py`) | draft, public copy, marker on the source's parent, links between the two | `publish_public_record` | several commits in one request, a draft that its owner may use in between, failures, stale parent written back |
| Operator deletion (`cds_rdm/cli.py`) | versions, parents, pidstore | `cds-admin delete` | numbers freed while another version still carries them; the versions of a family are taken from a search index |
| CDS report numbers (`cds_rdm/components.py`, `cds_rdm/tasks.py`) | pidstore rows of type `cdsrn`, owned by parents | save, publish, `sync_alternate_identifiers` | several tasks of one family, publish against task |
| `apprn` guard (`cds_rdm/components.py`) | identifiers in metadata | create, update, publish | metadata and parent may disagree |
| Catalogue sync (`cds_rdm/clc_sync/`) | one entry per record: status, catalogue pid, `auto_sync` | create, update, delete, publish hook, task | synchronous import and a task after it, old copies written back, unique pids |
| Names (`cds_rdm/tasks.py`, `cds_rdm/utils.py`) | names vocabulary, one entry per CERN user and per ORCID | user sync, merge | harvest and sync write the same names |
| Harvest reader (`cds_rdm/inspire_harvester/reader.py`) | ids seen, pass number | paginated read, repeated passes | a result set that changes between pages |
| Harvest writer (`cds_rdm/inspire_harvester/writer.py`, `load/`) | drafts, files, versions | match, create, edit, new version, file sync | failure between draft and publish, drafts that curators have open |
| Update engine (`cds_rdm/inspire_harvester/update/`) | none; merges an entry into a record | one strategy per field, conflicts | repeated harvests next to curators' corrections, people of one name, dates of different precision |
| Transformation (`cds_rdm/inspire_harvester/transform/`) | a context that mappers share | type detection, mapper policy, mappers, split into versions | values shared out between mappers, errors of lookups |
| Legacy redirects, DOI transitions (`cds_rdm/legacy/`, `cds_rdm/pids.py`) | none; read-only | resolve, redirect, validate | versions and moved pids |
| Front end, templates, deployment | none of the services' | | not modelled |

How they interact: the approval workflow and publish-public share the parent
record (number, marker, grants); deletion removes rows and parents that both rely
on.  Saving and publishing run the service components in one transaction and
queue background tasks (CDS report numbers, catalogue sync) that run after the
commit.  The harvester is one more client of the record service, next to the
users.  Search indexes follow the database after a delay.

What makes each part correct: report numbers are issued once, in order, and each
document's number is the one its referees accepted; a closed request stays
closed; referees can read what they review; an internal document has one public
copy, which carries an accepted number and is never under review itself; a CDS
report number belongs to the family that published it and is registered exactly
while it is in use.  A harvest creates no record the index shows, leaves no debris
behind, publishes whole versions in the community, and overwrites a curator's work
only where it read the record before; merging settles, loses no identifier, subject,
person or affiliation that was curated (a person's role it does replace,
`update/fields/creatibutors.py:114`) and mixes up nobody; the transformation neither
loses nor repeats what its mappers share out.  A catalogue entry that says success
stands for an import that happened, unless a client of the REST interface wrote it; a
user of CERN is never left without a listed name, nor listed twice for good.

## 2. Modules

    ReportNumberCounter        what numbering promises: issue the next, retire
      ^ implemented by
    CommitteeApproval          submit, accept, decline, cancel, deletion
      ^ extended by
    PublishPublic              publication of an approved document
    AlternateIdentifiers       CDS report numbers, on their own
    HarvestReader              reading INSPIRE                 |
    InspireTransform           INSPIRE record to entry         | the harvest,
    HarvestWriter              entries to records              | in this order
    UpdateEngine               the merge inside the writer     |
    ClcSync                    library catalogue, on its own
    NamesSync                  names vocabulary, on its own

`MC...` modules hold the instances for TLC.  `ApprovalProofs` holds the theorems
about `CommitteeApproval` and `PublishPublic`, which builds on it;
`AlternateIdentifiersProofs`, `HarvestReaderProofs`, `InspireTransformProofs`,
`HarvestWriterProofs`, `UpdateEngineProofs`, `ClcSyncProofs` and `NamesSyncProofs`
those about the modules they are named after.

The four modules of the harvest are not composed: each takes whatever the one
before may hand on (the writer takes entries in any order and twice, as repeated
passes deliver them), so what holds of it does not depend on the others.
`HarvestWriter` uses the merge through what the writer's decisions depend on (ids
are united, the type and the title overwritten); `UpdateEngine` has it field by
field.

### CommitteeApproval

| Variable | In the code |
|---|---|
| `year` | `date.today().year` |
| `index`, `live`, `latest`, `latestId` | versions of all families: `versions.index`, not deleted, the versions state |
| `listed` | the versions the search index shows |
| `community` | the default community of each parent |
| `request`, `indexed` | requests in the database and in the search index |
| `grants` | grants on the parent whose origin is a committee review, by version |
| `approval` | `permission_flags.committee_approval` on the parent: number, approved version, source version (copies), public version (marker) |
| `pids` | pidstore rows of type `apprn` |
| `txn` | accept transactions in flight |
| `retired` | history: numbers whose row an operator deleted |

Every action is one database transaction, with one exception.  Accepting scans
pidstore for the largest number and inserts the next one; nothing keeps two such
transactions apart, so it is split: `AcceptBegin` makes every read (request
status, parent, community configuration, the scan) and `AcceptCommit` every write
(pidstore row, parent, request).  Two things stop a commit that should not
happen: the unique constraint of pidstore (`NumberFree`) and the version check on
the parent row, which fails when another transaction wrote the parent since it
was read (`Invalidate` clears `fresh`).  Either makes the transaction roll back
(`AcceptRollback`, also any other error).  The search indexes, of requests, which
submit asks for pending ones, and of records, which deleting asks for the versions of a
family, catch up in actions of their own (`RefreshIndex`, `RefreshVersions`).

`DeleteRecord` reads the latest version from the database, and from the index whether it
is the last one (`LastVersion`) and which one comes next (`SecondHit`).  So it may fall
back to an older version than the newest that is left, after which two versions get the
same index; it fails when the next one in the index is gone, or when it takes a version
for the last one and the parent has others.

A number is a record of prefix, year (0 when the community's numbers do not carry
it) and sequence; zero-padding is left out, since reading back a padded number
yields the same sequence.  Payload texts, notifications and e-mails are left
out.  Who may call an operation is a matter of roles, which nothing here changes.

### PublishPublic

`PublishPublic` extends `CommitteeApproval` with the calls of the endpoint.  A
call goes through `Start` (the guards, on the parent as it is read then),
`CreateDraft` (`service.create`, which commits the copy's draft with an empty parent),
`NumberDraft` (community, number and source are written to that parent, as it was when
it was created), `PublishCopy`, `WriteMarker` (the source parent is written back from
the object read at `Start`, grants included) and `WriteBackLink`.  Each is a commit of
its own.  `Fail` is an exception before the copy is published, which leaves the draft,
with a number or without.  Its owner, the caller, may publish it (`OwnerPublishes`) or
discard it (`OwnerDiscards`) at any time, also while the call is at work.  `Warn` is an
exception afterwards, answered with a warning.  The endpoint does not exclude that the
source is itself a public copy (the user interface does), so copies of copies are in the
model.

Two history variables.  `early` are the copies that had been published when their
parent got its number: until then such a copy is an ordinary record, which may be put
into a community and submitted to the referees.  `excused` are the families for which a
call overlapped another, failed, ended in a warning before the marker was written, or
found its copy published early, and those whose marker was there and went, because the
family was accepted again or lost its last version, or because a copy was given its
number after it had been marked itself.

### AlternateIdentifiers

Saving a draft and publishing it reserve pidstore rows for the CDS report numbers
in the metadata; a task queued by each publish registers the rows of the family
that its published versions use and deletes the others.  `SaveBegin`/`SaveCommit`,
`PublishBegin`/`PublishCommit`, `TaskRead`/`TaskWrite` are the reads and the
commit of one transaction each.  Deleting a row that another task also read makes
nothing of the second deletion, but an update of it fails (`ok`), as the object
mapper's row count check does.  `overlap` is a history variable: families for
which a publish and a task were in flight together.

### HarvestReader

`result` is what INSPIRE would answer to the query at a moment, as a sequence of
records; `Change` moves, removes or adds one between any two requests.  The rest
is the reader's own state: `pass`, `page` (the page `page_url` asks for, 0 after
the last), `reported`, `new`, `seen`, what it yielded (`delivered`) and how the
generator ended (`outcome`).  `FetchPage` is one request and the loop over its
hits: the hits are fixed once the answer is there, so nothing can interleave with
the loop.  At the end of a pass exactly one of `Finish`, `GiveUp` and `Again`
follows.  `quiet`, `ever` and `always` are history variables about INSPIRE.

### InspireTransform

`Detect`, `MappersFor` and one operator per mapper are the pure part; `Transform`
and `Raise` are what happens to one INSPIRE record, from detection to the split
versions, each of which is mapped with a context of its own.  A mapper yields a
value and the errors it reports; the mapper of DOIs also leaves what it does not
use itself (`Leaves`), which `MapRecord` hands to the later mappers of the record as
`extra`: the mapper of related identifiers picks it up.  Texts, names and identifiers
are opaque; what a validator accepts and what a vocabulary knows are constants.

### HarvestWriter

A task is the processing of one entry (`InspireWriter._process_entry`); the
writers run asynchronously, so two tasks interleave between any two service calls,
each of which commits on its own.  `task[t].pc` names the call to come:

| `pc` | Code |
|---|---|
| `route` | `RecordMatcher.match`, `InspireWriter._route` |
| `create`, `community` | `_create_record`, `DraftLifecycleManager.create_reusing_prod_pids`, `add_cern_research_community` |
| `update` | `_update_record`: read, validate, merge, compare |
| `scan`, `versions` | `_resource_type_versioning` |
| `open`, `fill`, `sync`, `publish` | `_publish_edit` and `_publish_new_version`: open a draft, write the metadata, synchronise the files, publish |

An entry names records by identifiers of several kinds, among them CDS's own.  These may
be the id of a version (`versionId`), for which no filter looks, as they ask for parents
only (`load/matcher.py:66`).  A DOI finds a record as the DOI of its latest version or
as that of all its versions (`ParentDoi`).

`published`, `drafts` and `community` are the database, `indexed` is what the
search shows (`Refresh`).  Any call may fail (`CallFails`, `SyncFails`,
`PublishFails`, `AddCommunityFails`, with the clean-up the code does for each), a
worker may be lost between two calls (`Crash`), and a curator edits, publishes and
discards drafts of the same records.  Opening a draft takes over one that is
already open, as the record service does.  `opened` numbers the drafts of a record's
next version, each of which has an id of its own in the code: a task goes on with the
draft it opened and never with a later one.  `abandoned` and `shared` are history:
drafts a task left open, and drafts somebody else was working on.

### UpdateEngine

`record` is a published record, `entry` what INSPIRE says of it at the moment.
`Harvest` merges, field by field with the strategy the configuration names, and
publishes, skips (`UpToDate`) or stops at a conflict; publishing is refused when a DOI
that CDS registered would be replaced (`DoiKept`, from `pids.py`).  A DOI of CDS has a
client in a record and none in an entry, so the two are never the same and such an entry
is published at every harvest.  Between harvests INSPIRE
changes the entry and a curator corrects the record.  Fields that share a strategy
are one field of the model.  Strategies that go through a list are recursive
functions, one step per incoming item (`Add`, `WithAffiliation`).  The name of an
affiliation, by which two spellings are compared, is a function of its spelling
(`Normalized`, for `_normalize_affiliation_name`).  What is published is read back with
the names of the affiliations in the vocabulary (`Published`).

### ClcSync

`entries` are the rows of the sync table by the identifier they were created with: the
landing page uses the parent's, the publish hook the record's, clients of the REST
interface any.  Clients give a link, a status and a record as they like (`ApiCreate`,
`ApiPut`, `ApiDelete`), and without a record nothing is imported.  The hook reads the
entry (`PublishRead`), then imports and writes it back, which it commits while the
publication is still open (`PublishImport`); `PublishCommit` ends the publication and
queues a task, `PublishPlain` ends one that found no entry, and `PublishFails` is a
rollback.  `TaskRead`/`TaskWrite` are the task's read of the entry and its import with the
write-back of the whole entry.  An import is answered, refused, or made with its answer
lost or without an identifier in it, which is an exception (`Garbled`).  Pages hold what
they loaded (`LoadPage`), and what the answer of their own calls says.

`byHand` is history: the links that clients wrote.  So is `excused`: versions that were
published while an older revision was on its way to the catalogue, those whose
publication found no entry when there is one at its end, and those whose entry counts as
synchronised without an import because a client said so.

### NamesSync

`profile` is what the CERN directory says of a user, `names` the vocabulary under
person ids and ORCIDs, `indexed` the search index.  `recent` are the users the
next synchronisation selects, `written` the names that changed since the last
merge and `visible` those of them the index shows as changed.  A run of the
synchronisation goes user by user, reading (`SyncRead`) and writing (`SyncWrite`,
both names in one transaction); an empty value of a profile leaves the one of the name,
and a name the service refuses stays as it was while the run goes on.  A run of the merge
scans the index, resolves the names that share an ORCID and writes two names in two
transactions (`MergeSource`, `MergeDest`).  Either run may end early (`SyncFails`,
`MergeFails`), and the next one starts from what changed since, not from what was
missed.

### ReportNumberCounter

The abstract specification: a set of issued numbers, `Issue` adds one that is
either the first of its series or follows one that was issued, `Retire` removes.
`CommitteeApproval` implements it with `issued` mapped to the numbers in `pids`.

## 3. Runs

Bounds are the sets in the `.cfg` files, and the records and entries in the `MC`
modules.  Deadlock is not checked, but for `writer`, where the index can always
be refreshed or a curator act until all is settled: versions, requests, calls and
edits are finite, so every model ends.

| Run | Instance | States | What it shows |
|---|---|---|---|
| `approval` | 2 families (2 + 1 versions), 2 requests, 1 community, 2 years, both versions of one family deletable | 0.4 M (up to symmetry) | number, approval, grant and reading invariants; `ClosedForGood`; the refinement; the inductive invariant, which includes the types |
| `public` | 1 source version, 2 calls, 2 copies, 1 request, source and copy deletable | 0.5 M (up to symmetry) | the marker is truthful; one copy unless a call was disturbed |
| `public_requests` | 1 source family of 2 versions, 1 call, 2 requests, deletion | 1.6 M (up to symmetry) | numbers on parents were issued; copies carry an accepted number; copies stay out of the workflow unless they were published before they got it |
| `cdsrn` | 2 families, 1 number, 2 tasks | 0.2 M | who published a number owns it; settled rows are registered exactly when used |
| `cdsrn_live` | 1 family of 2 versions, 1 number, 2 tasks | 0.2 M | published numbers are registered eventually |
| `harvest_reader` | 4 records, 2 per page, 3 passes, 3 changes | 0.5 M | no record twice; an undisturbed pass is complete; moves lose nothing; harvests end |
| `transform` | 17 thousand INSPIRE records that vary one aspect at a time over several document types | 17 k | identifiers, DOIs, people, funding and titles are neither lost nor repeated; split versions differ |
| `writer` | 8 pairs of entries, 2 tasks, up to 3 records of up to 5 versions, 1 edit of a curator, 1 lost worker | 0.2 M | what is created, overwritten, published and left behind |
| `update` | 3 records, 11 entries, 5 steps of harvests, changes and corrections | 50 k | repeated harvests settle, lose nothing `NothingLost` names, only refine dates and mix up nobody |
| `clc` | 1 version and its parent, 3 revisions, 2 entries, 2 tasks, 1 page, 2 calls of clients with 3 kinds of entries | 0.6 M (up to symmetry) | a status of success is true; links are lost only to a stale write |
| `names` | 1 user, 1 ORCID, 2 departments or none, 2 changes, any name refused, 1 lost run | 0.5 M | nobody vanishes; profiles arrive; duplicates are unlisted |
| `claim_auto_sync` | as `clc` | | section 4 |

Why these are enough: two of each actor (requests, calls, tasks, families) is
what a race needs, two versions is what "this or a later version", "last version"
and "the version the number was issued for" need, and two years give two series
to the counter's scan.  (A second community with the same prefix, and numbers without the
year, give two more; the proofs cover any number of them.)  Two versions of a family share an index only
when a third was published after a deletion that missed one; that is beyond `approval`,
and covered by the proofs.  A number can reach the sequence 2 or 3
there, so that maximum and successor differ.  Four records on pages of two are
the fewest for which a record can slip between pages both ways, and three changes
disturb every one of three passes.  The scenarios of `writer` reach each branch of
the router, of the update and of the versioning with two tasks on one record, and
five versions leave both tasks room for a version of each type.  Two harvests with
a change and a correction around them need five steps, and the records of
`update` hold two people of one name, one scheme twice, and dates of each
precision.  In `transform`, values are combined in pairs or triples because a
mapper compares at most the chosen value with the rest.  In `names`, one ORCID and
one user already give two names to keep apart; the jobs treat users one after
another, and another user matters only as one who gave the same ORCID.  In `clc`, one
version and its parent are two entries to confuse, two calls of clients let one take a
link away and another bring it back around an old copy, and the third revision lets a
publication overtake an import.  The larger claim, for any
number of each, is proved for the properties listed in section 5.

Every property has a mutant: a `Faulty...` operator in the module, placed before
the definition it stands for, with a mistake the code could have.  With it the
run finds the property violated.

## 4. Where code and comments disagree

One run checks a sentence of the user interface, and TLC finds a behaviour of the
code that contradicts it.

| Run | The sentence | What happens |
|---|---|---|
| `claim_auto_sync` | "When enabled, this will automatically sync the record with CLC every time it is edited." (`assets/js/components/record_details/clc_sync.js:231`) | the page keeps the entry under the id of the record's parent, the publish hook looks for the record's own id (`clc_sync/services/components.py:28`), finds none and queues nothing |

Met while modelling, with the action that shows it.

Committee approval and report numbers:

- "Reject if there is already a submitted (pending) request for ANY version in the
  family" (`requests/committee_approval.py:119`): two `Submit` before
  `RefreshIndex` are both accepted.
- "On accept → grant kept; referees retain permanent access" (`generators.py:264`):
  `Decline` of a second request on the same version removes the grant of the
  accepted one.  `GrantsMatchRequests` says exactly when a grant is missing.
- Later versions are accessible only "if they were created after the review was
  approved" (`generators.py:260`): only version indexes are compared, so later
  versions are readable during the review.  `ReadableOnlyUnderReview` says what
  does hold.
- "uniqueness is enforced across all enrolled communities" (`invenio.cfg:587`):
  after `DeleteRecord` of the version a number was issued for, the number is issued
  again while other versions keep it.  `NoSharedNumber` excepts those numbers.
- "refuse if a public record was already created" (`requests/views.py:163`): two
  overlapping calls publish two copies.  `OneCopyWhenUndisturbed` excepts them.
- "Create draft as the calling user so they own the public record" (`requests/views.py:212`):
  `service.create` commits that draft before its parent gets the number (line 231).  If the
  caller publishes it in between, or after a failure there, it is a record like any other,
  which can be submitted to the referees and then carry two numbers, one after the other.
  `CopiesNeverUnderReview` excepts such copies (`early`).
- Deleting with `cds-admin` takes the versions of a family from the search index
  (`cli.py:99`), the latest one from the database: see `DeleteRecord` in section 2.
- "Remove the PID if it is not in any record's alternate identifiers anymore"
  (`tasks.py:301`): a task decides from versions it read before a publish, and
  removes the row of a number just published.  `PublishedNumberOwned` excepts
  families for which a publish and a task overlapped.

Harvest:

- `update/fields/creatibutors.py:61` appends affiliations without a name at every
  harvest, although the docstring calls the merge a union.  `Settles` therefore
  speaks of entries whose affiliations have names.
- `update/fields/creatibutors.py:116` says "Affiliations: union, never remove"; an
  affiliation that differs from the incoming one in punctuation or case only is replaced
  as a whole (line 72), so one that a curator linked to the vocabulary becomes plain text
  and its id is gone.  `NothingLost` therefore speaks of affiliations by name.
- `update/fields/metadata.py:22` says that the date of a thesis is kept; the type is
  merged before the date, so a record that becomes a thesis in the same harvest is
  guarded and one that stops being one is not.
- `update/config.py:27` says that fields without a strategy raise an error; the
  engine ignores them.
- The writer publishes an entry with a DOI of CDS at every harvest, with the content the
  record has: the entry's DOI lacks the `client` that the record's has, so the two never
  compare equal (`writer.py:188`).  `Settles` excepts such entries from its last clause.
- A value of scheme CDSRDM may be the id of a version (`inspire_harvester/utils.py:24`), and
  the matcher looks for it among parents only (`load/matcher.py:66`): without another
  identifier in common the entry becomes a second record.  `NoDuplicateOfVisible` excepts
  records named that way.
- A person's role is taken from INSPIRE at every harvest
  (`update/fields/creatibutors.py:114`), so a curated one is lost.  `NothingLost` does not
  speak of roles.
- Splitting: errors of the split versions are not reported, and the splitter's
  docstring speaks of pairs where it yields one version for every other type.
- An edit of metadata alone takes over a draft that an earlier harvest left with
  part of its files, and publishes it.

Catalogue and names:

- Creating a catalogue entry with `auto_sync` off still stores it as enabled;
  entries made without a record count as successful; publishing with a disabled
  entry leaves it `PENDING`.
- A task, or a publication, that read an entry before it was disabled or linked writes the
  old values back.
- Clients of the REST interface may create an entry that is linked and successful without
  an import, as the tests do (`site/tests/clc_sync/test_clc_services.py:11`).
- An empty value of a profile does not empty the name (`utils.py:82`), and a name that the
  service refuses keeps its old values with only a line in the log (`utils.py:172`).
- `utils.py:127` updates given and family names `if idutils.is_orcid(...)`, while
  the comment above it, and the docstring of the task, say that they are updated
  for names that are not ORCIDs.  Names are not in the model.
- The merge finds names of person ids that changed since its last run.  When the
  ORCID's name arrives later than that, which is the case its docstring describes,
  the two are not merged until the name of the person id changes again.
- A user who replaces one ORCID by another gets both on the own name; when both
  have names of their own, merging through either unlists the other one, and both
  can end up unlisted.  `NobodyVanishes` excepts users with two ORCIDs.

Elsewhere: `legacy/redirector.py:94` sorts version indexes as strings, so from ten
versions on an older file is taken for the newest.

Two more.  `committee_approval.py:260` speaks of "the advisory
lock acquired in _issue_report_number"; there is none, so overlapping accepts
compute the same number and the unique constraint makes all but one fail
(`AcceptRollback`).  `inspire_harvester/reader.py:72` says that a harvest is
repeated "when we got fewer records than INSPIRE reported"; the code compares for
equality (line 115), so a record that leaves the result during a pass makes the
count too large, the passes are repeated, and the reader can end with "still short
of INSPIRE total" although it yielded every record that matches.  Conversely a
record that leaves and one that joins can make the count match by accident;
`MovesNeverLose` therefore speaks of harvests in which records only move.

## 5. Proofs

### CommitteeApproval

`ApprovalProofs` proves, for any sets of families, versions, requests,
communities and years, from the two assumptions `CommitteeApproval` makes about
its constants (the configuration is well-formed, `None` is no other value):

- `TypeOKInvariant`: `TypeOK` always holds.  This is not only typing: the scan
  for the largest number is a `CHOOSE`, and that it yields a natural number needs
  that a largest number exists, which is where `BoundedSeqs` comes in.
- `Inductive`: `IndInv` always holds.
- `NumbersNotShared`, `AcceptedNumbersAreDistinct`: the two safety properties of
  numbering.
- `ApprovalsMatchRequests`, `GrantsFollowRequests`: what the parent says about
  approval and who was granted access is what the requests say.
- `ReadersUnderReview`: referees read a version only while a request on it or on an
  earlier version is pending or accepted; it follows from `GrantsMatchRequests` and
  `GrantsOwned`.
- `ClosedStaysClosed`: the action property that a closed request never changes.
- `CounterImplemented`: `CommitteeApproval` implements `ReportNumberCounter`.

The argument.  That numbers are unique in pidstore (`PidsUnique`) follows from
the constraint, but pidstore is not what users see: they see the number on the
parent and in the request.  `NumbersRegistered` ties those to pidstore: the number
of a family is registered for one of its own versions, that of an accepted request
is registered, or the row was deleted in between.  Two families with one number
would then have one row for versions of both.  For `ClosedForGood`, a request can
only change by the commit of an accept transaction, and `TxnSound` says that a
transaction that is still fresh belongs to a request that is still submitted:
every decline or cancel writes the parent and makes it stale.  For the refinement,
`TxnInOrder` says that the number a transaction computed still follows one that
was issued, although others may have issued or retired numbers since.
`ApprovalMatchesRequest` would break if a family whose last version was deleted
came back to life: its parent is gone, but its accepted requests are not.
`VersionsKept` and `TopicsPublished` exclude that (lemma `NoRevival`): whatever
was submitted had been published, and a family that once had a version gets
further ones only while it has one left.  `GrantsOwned` keeps the grants of one
family apart from the requests of another.
`BoundedSeqs` keeps the scan defined.  Nothing is assumed of what the search index shows,
of the versions or of the requests, so the proofs hold for any lag; in particular the
parent of a family that has versions left is never taken away, because the database
refuses it, whatever `LastVersion` says.  None of the safety
properties is inductive alone; `IndInv` is their conjunction with these, and the
run `approval` checks it too.

### PublishPublic

`ApprovalProofs` proves all five properties of the endpoint, for any number of
calls, versions, families and requests, from the assumptions of
`CommitteeApproval` and `CopyAssumption` (a copy has a family of its own).  A call
decides from what it read several commits ago and writes it back, so `PubInv` is
about what stays true in between:

- `CopyState`: a draft was never published, a copy is its family's only version.
- `NoReview`: a request is for a copy only if that was published early, or has no source
  yet, that is, no number.
- `Parents`: whatever a parent says is `Truthful`: its number was issued; it was
  accepted for this family, unless this is the family of a copy; its source could
  hand that number on; its marker names a copy of the family.
- `CallSound`: the same holds of what each running call read, and its copy has the
  source that the call's step says it has: none before `NumberDraft`, this one after.
- `UniqueCopies`: the copy a call names is its own.

`TruthfulStays` is the heart of it: what is true of a reading stays true, since
accepted requests never change (`AcceptedStay`), a version that was published never
comes back once deleted (`IndexStays`), and the parent of a living copy keeps its
number and source (`CopyStays`), which needs `NoReview` and, for copies of copies,
that a call which writes such a parent back read the same values.  A copy that was
published early is under none of this: its parent may be accepted and given another
number, which is why the properties except what was made from it.
`ParentsIssued`, `CarriesAccepted`, `MarkerSound` and `CopiesOutOfReview` follow at
once.  For `OneCopy`, `Orderly` says of a family nothing disturbed that one call
works on it at a time, that nothing was made of it before that call, and that it is
marked once no call is at work; `Timely`, that none of its copies was published early.

### AlternateIdentifiers

`PublishedOwned` and `TasksSettle` are its two safety properties, proved together
(`Inductive`) from `ParentAssumption` and `NoneAssumption`.  A task deletes rows it
chose earlier, so `OwnerInv` says of each task that the rows it will delete are its
own family's and unused, unless a publish overlapped; `StatusInv` says that a row
of a calm family whose status is wrong has a task still to come.

### HarvestReader

`SentOnce`, `QuietPassSendsAll` and `MovedRecordsSent` are its three safety
properties, for any finite set of records, page size and number of passes
(`HarvestAssumption`).  `ReaderInv` is about the walk through the pages: as long as
nothing changes during a pass, whatever is on the pages before the next one has been
seen (`Walked`); only what the result has had was seen, and when it lost nothing, the
count the pass reports is the number of records it ever had (`Accounted`); and before
the first change what was yielded is the result up to the next page (`Undisturbed`).
When records only move, what was yielded is a subset of what the result had and has
its size, so it is all of it: two finite sets of one cardinality.  What
a page keeps (`Kept`) is a recursive function; `KeptSteps` proves, by an induction on
the well-founded order of the natural numbers, that the function is there and what each
step adds, and the rest follows from that.

### InspireTransform

All four properties of the run `transform` are theorems, for any set of INSPIRE
records: `VersionsDiffer`, `MappersLoseNothing`, `IdentifiersShared`, `DoisKept`.  The
only state is one record on its way, so the invariant (`Mapped`) says that what a
finished transformation holds is what the mappers make of its source; the rest is
about the mappers.  Each path of the entry has one mapper in every policy, and the
mapper of pids comes before the one of related identifiers, so that what the first
leaves reaches the second: identifiers are shared out by value and scheme, and each
DOI of the source ends as the DOI, a related identifier, an error, or the DOI of CDS
the record is known by.  Three assumptions: the schemes of CDS are among those a
related identifier may have and are none that INSPIRE uses for anything else
(`SchemesAssumption`, read off the constants of the mappers); the awards the
vocabulary knows are finite (`AwardsAssumption`); and of the sources
(`SourcesAssumption`) that two report numbers of one record with one value are the
same, since only their value is read, that INSPIRE's external identifiers are not of
schemes CDS invented, that a given role is not empty, and that DOIs are a sequence.

### HarvestWriter

`NeverOutsideCommunity`: no harvested record is ever published outside the CERN
Scientific Community.  `CommunityInv` adds that a task has put its record there
before it reaches the call that publishes.

`NoOrphanDraft`, `CreatesOnlyUnseen` and `CorrectionsKept`: a creation that stops
leaves no draft, no record is created that the index showed, unless the entry names it by
the id of a version, and a correction a
curator is drafting goes only to the task that updates that version.  Their invariant
is `OwnerInv`.  A record that is not published belongs to a single task at work or
lost (`SingleOwner`), so its draft has somebody to remove it; a task that updates
works on a version that exists, one that creates remembers that the index showed
nothing (`WriterOk`); what a task plans its versions from is there (`PlanOk`); and only
drafts of published records carry corrections (`Drafts`).  `ScenariosAssumption` says
that legacy recids lead to published records and that an entry's identifiers are of
the kinds the matcher asks for; `WorksAssumption` that "no record" is none.

`VersionsCovered` (`AllVersionsThere`): when an update of an entry with several resource
types succeeds, each version split off the entry is there, below the latest one, unless
another task works on the same record.  `TypesInv` says why,
of a task that is alone with its record.  The open drafts and what the index shows have
the types of the versions they stand for (`DraftsTyped`, `IndexTyped`), whatever the
curators do, so the plan made from the index is right about what is there; and every
version split off by type is still to do, being written, or there (`Accounted`).  The
version of the entry itself is written in place, so publishing it takes no other type
away.  `ScenariosAssumption` says besides that every version has a resource type and a
set of files, and that the versions split off are a sequence.

`FilesWhole`: a version is published with a whole set of files, the entry's, a split
version's or one the record had.  `CorrectionsLostOnlyToStale`: a correction that was
published disappears from the latest version only when a draft is published that some
task wrote for a split version, or from what it had read before the correction.  Both
are about what is in a draft when it is published, many calls after it was opened, so
their invariant, `DraftInv`, says for every draft where its content comes from.
`PlannedInv` is about the tasks: the files a task plans are the entry's or a split
version's, and what it plans for the entry's own version is as corrected as the record
it read.  `EditDraftOk` says of an edit that its files are those of the version or of
an entry, unless a task left it half synchronised.  `NewDraftOk` says of the draft of a
next version that one task at most works on it, that it has no files before they are
synchronised and a whole set after.  `CorrectionOk` names, for each draft without the
correction of the version it replaces, the task that wrote it, which remembers what it
read.  That a draft belongs to a task needs `Numbers`: no task holds a number above the
last one given, so a draft that is opened is nobody else's.  The proofs go draft by
draft: an action touches one slot of one record, and what is said of the others only
mentions versions, which are never taken away, and tasks, which do not move
(`Elsewhere`, `LeftAlone`).

The exceptions these two properties name are real.  A split version without files takes
over those of the version it is based on, and another task may change these meanwhile.
Two tasks with the same draft, or a draft a lost worker left, publish a mixture.  And a
task that has read the record before a correction publishes over it.

### UpdateEngine

`HarvestLosesNothing`, `DatesRefined` and `PeopleStayApart` are the three action
properties of the run `update` and `HarvestSettles` its invariant, for any records,
entries and corrections of the kind `DataAssumption` names: well-formed data, records
as they are read from the repository, and entries without an OAI pid.  The strategies are
recursive functions over the incoming list.  `Folding` proves, by counting, that such a function is there
whenever each step stays inside some set, and `Walking` that its last value is in any
set that holds the first value and that no step leaves; so a fact about a strategy is
a set that states it, and a proof that one step stays inside (`AddKeeps`,
`WithKeeps`).  The invariant, `IInv`, is that every affiliation of the record has a
spelling (`RecordsReadable`): one without would be given another name when it is
published, and its old name would be lost.  That a person is not mixed up rests on
`MergedByName`: if nobody has an identifier of the incoming person, the match is by
name, and then the two have no scheme in common.

`HarvestSettles` is that `Settles` always holds: after an update, harvesting the same
regular entry again meets no conflict and leaves the record as it is, and publishes
nothing unless the entry has a DOI of CDS (section 4).  It takes that each strategy is
idempotent, also through the names that publishing adds to affiliations, and that a
merge leaves no conflict behind.  Most of it is about people.  Everyone in the merged
list was kept or comes from one person of the entry; each person of the entry is found
there again, by an identifier or by the name, and nobody else matches; and no
contributor is unmatched, so none is appended twice.  This holds of regular entries
only, and the exceptions are real.  An entry that gives one identifier to two people
makes the second take the place of the first, and the next harvest adds the first
again; so does one whose two contributors match the same person, one by an identifier
and the other by name.  `Regular` excludes these, besides the unnamed affiliations of
section 4 and dates that are none.

### NamesSync

`NamesStayGood` proves the invariant `NamesInv`, from which `UsersStayListed` (nobody
vanishes) and `ProfilesArrive` follow, for any number of users, ORCIDs and
departments.  Both jobs write back names they read some time ago, and the merge reads
the index, which is late besides.  `Good` says what a name must be to be written:
the name of a person id carries no ORCID but those its user gave, and is unlisted only
when one of them has a name (`UserName`); the name of an ORCID carries another one only
when one user gave both, and stays listed otherwise (`OrcidName`); and it does not
bring the missing name back.  What was good when it was read is good when it is written
(`GoodLasts`): a user's ORCIDs only grow, so an ORCID that is shared stays so, and no
name goes away.  A name that was refused is as it was, and so still good; its user is
among `lost` until the next run, as one of a run that was lost.
`NamesIds` says that person ids and ORCIDs are different things.

### ClcSync

The hook, the task, the page and the clients all end in one write of an entry, and the
proofs take them together: `Writes(k, e, c)` says what an import of the copy `c` of a
record, under the data `e` of the entry `k`, makes of the entry, the catalogue and
`excused`, however the call ends (`WriteEffect`), and one lemma per actor says that it
does that (`HookWrites`, `TaskWrites`, `SendWrites`, `ClientWrites`).

`LinksLead`: a link leads to what the catalogue has imported or to what a client wrote.
An entry that is written back has the link it was read with, so the invariant, `LinkInv`
(`LinksSound`), says of every copy a task or a publication holds that its link is known
(`ReadSound`), and that what is known stays known (`KnownStays`); the unique index on
links is part of it.  `LinksKept` then goes action by action through those that write an
entry; only one that read the entry when its link was another can put another one there.

`SuccessIsTrue`: once no task is on its way, a status of success of a linked entry stands
for a catalogue that is not behind the published record, unless the version is excused.
Its invariant, `QuietInv`, says of every version that may be behind that a task is on its
way which will correct that: one that has not begun, or one that holds the entry and the
record as they are (`Pending`).  Publishing queues such a task, and whatever overtakes it
is an import of its own, which leaves either a success with the new revision or a failure.

The proofs assume that identifiers are distinct (`IdentifiersAssumption`) and that clients
give a status, a link and whether the entry is enabled (`GivesAssumption`); of the
catalogue nothing is assumed but that it knows a version as one record (`DocOf`).

Proofs have one lemma per action or group of actions, split by the conjuncts the
action can disturb, and lemmas about what stays true over any step.  Those of the
counter also have two about the scan (`MaxSeq` of a bounded set, of a set with one
more element).

## 6. Fairness

Safety runs assume none (`harvest_reader` states one for its liveness property;
its invariants do not depend on it).  `FairSpec` of `AlternateIdentifiers` assumes weak
fairness of each task slot: a queued task is taken by a worker and finishes or
raises.  Celery delivers queued tasks to workers and the task has no loop; a
worker that is killed in the middle is not covered.  Users are under no
obligation: saves, publishes and deletions may never happen.

`FairSpec` of `HarvestReader` assumes that the job consuming the generator keeps
asking for the next record, as the loop over the data stream does, and that
INSPIRE answers each request; an answer that is an error ends the harvest
(`FetchFails`).  INSPIRE's changes are bounded, by `MaxChanges`: a result that grew
faster than it is read would keep a single pass going for ever.

`Spec` of `NamesSync` assumes that the scheduler runs the two jobs again and again
(`WF_vars(SyncStep)`, `WF_vars(MergeStep)`), as periodic jobs do; a run that is lost
is not assumed away but counted (`MaxLost`), and the users and names it had before
it are excepted (`lost`).  Nothing is assumed of the index: `DuplicatesMerged`
speaks of what it already shows.  The other new modules state only safety
properties and assume nothing.

## 7. Only model-checked, and not modelled

Model-checked only:

- Liveness (`PublishedEventuallyRegistered`, `Ends`, `OrcidPreferred`,
  `DuplicatesMerged`), which TLAPS does not prove.

Every invariant and every action property of the passing runs is also a theorem; what
the code does in the run of section 4 is shown by its counterexample.

Left out of the modelled parts.  `InspireTransform`: imprint, journal, conference
and accelerator fields, and the copyright statement, each a copy of one field of
the source; `MapRecord` has the mappers whose values meet.  `HarvestWriter`: the
retries of a file download (they end in a file or in a failure), and the integer
CDS ids of old records in the matcher, which legacy recids decide before any filter
is asked; adding the community, a savepoint that the next call commits
(`load/draft.py:101`), is one step, so a worker that is lost right after it leaves its
draft in the community here and outside it in the code, where nobody publishes it; and
under the ids of production, creating a draft and reading it back (`load/draft.py:85`) are
one step, although the read is outside the `try` of the writer, and would leave the draft
if it failed.  `NamesSync`: given and
family names, and affiliations, which are only appended; props and e-mail are one value.
`ClcSync`: a call of the catalogue and the write after it are one step, so that two
imports do not overlap each other; a client that moves an entry to another identifier; a
task that is lost with its worker; that an entry which is gone when the hook updates it
ends the unit of work it was found in; clients send a record as it is published, while
pages send older ones; and the listing of entries for administrators.

Not modelled: roles and permissions other than the referee grant; notifications;
the request's comments and expiry (no expiry is set for these requests);
embargoes and file access; the landing-page view of the approval state
(`committee_approval_state.py`), which only reads what the modules have; the
`apprn` guard, the subjects and the thesis-community components
(`components.py`), which validate one draft in one step and keep no state; legacy
redirects, which read a table; the presentation of harvest runs and their logs;
the front end, templates, app data, migrations and deployment.

## 8. Plan

Done: the approval workflow with its proofs, publish-public, CDS report numbers,
the four stages of the harvest, the catalogue and the names.  What is left, in
order of what is gained:

1. An abstract specification of one harvested record (created once, only refined)
   that `HarvestWriter` implements between two lost workers.
2. `ApprnIdentifier`: the guard on `apprn` identifiers, composed with
   `PublishPublic`'s parents.
3. The liveness properties of `NamesSync` with two users and two ORCIDs; its safety
   is proved for any number.
