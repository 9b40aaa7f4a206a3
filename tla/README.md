# NDNS in TLA+

A verification project for NDNS, the DNS of Named Data Networking in this
repository (`src/`, `tools/`, `run.sh`). It models the places where the
system's difficulty lies: the iterative resolution of names with the stub that
asks for it, the database that name servers and tools share, the names by which
they tell each other what they mean, the setting up of zones, and updates sent
over a network that loses and repeats them. It checks them with TLC on small
instances, and proves invariants of the resolver, of the updates, of the shared
database, of the name server and of the setting up of zones with TLAPS for every
instance.

## The system

| component | state | operations |
|---|---|---|
| `NameCachingResolver<IQStrategy>` (`caching-resolver-daemon`) | the query objects bound into the callbacks of pending Interests | `onInterest`, `resolve`, `onData`, `onTimeout`, `run` |
| `IterativeQuery` | step, labels resolved, length of the label asked, last response | `doData`, `doTimeout`, `toLatestInterest` |
| `IterativeQueryWithForwardingHint` | the same with two hints | the same, with the step FHQuery |
| `NameServer` with `QueryMgr` | its zone | `onInterest`, query branch: Resp, Auth or Nack |
| `NameServer` with `DyndnsMgr` | its zone, the database | `onInterest`, update branch: ADD, REMOVE, REPLACE-ALL |
| `RRSetMgr`, `RRMgr`, `ZoneMgr` over `DBMgr` | tables `zones`, `rrsets`, `rrs` of one SQLite file | look-ups, inserts, deletes, one statement each |
| `ZoneRegister` (`zone-register`, `zone-delegate`) | the database | `doRegisterTop`, `doRegisterZone` |
| `zone-create` | keychain and certificate files | make an identity, its keys, certificates and files |
| `NameDig` (`dig`), `DynamicDNSUpdate` (`update`) | number of tries | send, retry after a timeout, print the answer |
| `Query`, `Response`, `QueryUpdate`, `ResponseUpdate`, `RR`, `RRSet`, `Zone` | fields | TLV and name encoding |
| `NDNApp` | error flag, face, io service | signal handler, `stop` |

How they interact. A stub sends an Interest `/lo/DNS-R/<name>/<type>` to the
resolver. The resolver asks one name server after the other, from the root zone
down: `/<zone>/DNS/<label>/NS`, until no server delegates any further, then
`/<zone>/DNS/<rest>/<type>`. A name server answers from the database: `Resp`
with records, `Auth` when only a longer label is delegated ("need more specific
info"), `Nack` otherwise. With a forwarding hint the resolver asks the parent
for the FH record of the child's name server in between and prefixes its
Interests with it. Clients change records with signed updates; `zone-delegate`
writes the same database file directly, once `zone-create` has made keys and
`zone-register` has entered the zone. All processes are single-threaded; they
interleave through the network, through the file and through the keychain.

What is hard, and what makes each component correct:

* resolver and query objects: questions of several stubs interleave, answers are
  cached and old, delegations change during a query, Interests are lost. The
  zone a query is in must have been delegated to, the answer must be that of the
  right zone, and every question must end.
* forwarding hints: label count and hint are advanced in different answers than
  in the base class; the hint must belong to the zone asked.
* names: every process takes the Interests it hears apart by regular expressions
  over text. What it reads must be what the sender meant, or nothing.
* setting up: four programs in an order that nothing enforces, each of which may
  end anywhere and be called again. Rows must have their zone, servers the right
  id, delegations a signed key.
* database: no transactions. A statement may fail, a process may end between two
  statements, and two processes write the same set. The tables must stay sound,
  and acknowledged updates must be what was asked for.

## The modules

| module | models |
|---|---|
| `NdnsTypes` | names, the enumerations of `ndns-enum.hpp`, Interests and responses |
| `IterativeQuery` | the class as a record (`IQ`) and its methods as operators |
| `IterativeQueryWithForwardingHint` | the derived class |
| `NameServer` | the query branch of `onInterest` as an operator `Answer(db, interest)`; `Updated`, the effect of an update on one set |
| `NameCachingResolver` | the composition: resolver process, stubs, servers, caches, faults, updates; invariants that hold under all of them |
| `Resolution` | what resolving a name means, defined over the database alone, and the properties that compare the resolver with it |
| `DelegationWalk` | the abstract specification of resolution |
| `MCResolver` | instances of the resolver for TLC |
| `RRTables` | tables `rrsets` and `rrs`; each SQL statement as an operator |
| `DyndnsMgr` | `NameServer`'s update branch and `DyndnsMgr::update`, a step per statement |
| `ZoneRegister` | `doRegisterZone`, a step per statement |
| `SharedDatabase` | the composition of servers and tool on one file, with failing statements, crashes, restarts |
| `RecordStore` | the abstract specification of updates |
| `MCDatabase` | instances of `SharedDatabase` |
| `NamePatterns` | `ndns-label.hpp`: what is written into a name and what is read back; pure operators |
| `QueryMgr` | `NameServer`'s query branch with `QueryMgr`, a step per statement |
| `LiveNameServer` | the composition of both branches with the names a server hears, next to other writers |
| `MCNameServer` | instances of `LiveNameServer` |
| `ZoneTools` | `ZoneMgr`, `zone-create`, `zone-register` with `doRegisterTop`, `zone-delegate` up to `doRegisterZone` |
| `ZoneSetup` | the composition of the tools and the servers that start on what they made |
| `MCZones` | an instance of `ZoneSetup` |
| `DynamicDNSUpdate` | runs of the tool `update`: send, retry, end |
| `UpdateSession` | the composition of these runs with servers, network and caches |
| `MCUpdate` | an instance of `UpdateSession` |
| `NameDig` | the tool `dig` with the resolver it asks |
| `MCDig` | an instance of `NameDig` |
| `NameServer_proofs` | facts about numbers, names, records and the update of one set, which all proofs share |
| `NamePatterns_proofs` | what the patterns read out of a name |
| `NameCachingResolver_proofs`, `UpdateSession_proofs`, `SharedDatabase_proofs`, `LiveNameServer_proofs`, `ZoneSetup_proofs`, `NameDig_proofs` | the proofs about the six compositions; `SharedDatabase_proofs` begins with the SQL statements |

### State and actions of the resolver model

`status[s]` says where the question of stub `s` is; `iq[s]` is the query object
that the pending callbacks of that question hold by value; `reply[s]` is the
response on its way back; `db` maps each RR set to the data of its rows in the
order of their ids; `published` is all Data servers have ever put, hence all
that caches may return (`Query::toInterest` never asks for fresh Data). The
handlers are whole actions: `OnInterest`, `OnData` (with `doData`, the answer to
the stub, or the next Interest), `OnTimeout`, `Run`, `Stop`, `ServerOnInterest`,
`DynamicUpdate`. `CacheReply` and `ForeignReply` are the environment: a
forwarder's content store, and Data whose type the resolver does not know.

Names are sequences of components, and record data are names, since the code
reads the data of NS and FH records as names and compares others only.
`GetPrefix` and `GetSubName` clamp at the end of the name as ndn-cxx does; the
finding `specific` comes from that. A question whose name does not parse leaves the
default `Query` (empty name, NS) and goes on, as in the code: `DefaultQuery`.

### State and actions of the database model

`rrsets` and `rrs` are sets of rows. A server's `pc` names its next statement;
`rrsetId`, `rrsetIdOfRR` and `rrId` are the locals of `update()`: the id in the
variable `rrset`, the id in the copy of it that the RR owns, and the RR's id.
`Branch` is the branch on the action. A look-up that finds several rows returns
any of them: the statement has no ORDER BY and the last row wins. A new row gets
the greatest id plus one; the trigger deletes a row with the same data first.
The unique index spans the class, which `DyndnsMgr` leaves empty and
`ZoneRegister` sets to the text NULL, so two rows for one set are possible; the
look-ups ignore the class. `before` is a history variable: the set's records
when the update came. A request with action REPLACE ends the server, as
`update()` throws out of a function declared `throw()`.

### State and actions of the update model

A client runs the tool `update` again and again. `outcome[c]` is how its latest
run ended, by what `main` returns; `interest[c]` is the Interest of that run, an
update and a version; `interestTriedNum[c]` is `m_interestTriedNum`. `network`
holds the copies of Interests that have not reached a server, one for each try;
a lost Interest stays there. `ServerOnInterest` executes a copy, whether or not
its run still waits and whether or not another copy was executed, because the
server does not look. `ServerEnds` is a server that ends with the update done,
or half done, and no Data put; the next one gets the retry. Execution is one
step: `SharedDatabase` shows that no other server can tell. `history` is a
history variable for the two properties: what the set held when the run began,
whether the server has executed the run's update, whether another run's update
met the same set. The two runs of a client and those of two clients differ in
their version, which is the time in the code and the count `runs` here.

### State and actions of the name server model

`LiveNameServer` extends the database model. `HearQuery` and `HearUpdate` are
what the server does with a name: `Filters` are the prefixes of `run()`; the
update pattern is tried before the query pattern; the zone that the name spells
is ignored, as in the code, which keeps its own. `question[z]`, `foundId[z]` and
`response[z]` are the query as the server read it, `m_rrset.getId()` and the
answer so far; `LookupIds`, `SelectRRs`, `CountAuth` and `Reply` are the steps.
`asked` (the set the client means) and `seen` (what the one-step `Answer` of
module `NameServer` would have said at each moment since the query came) are
history variables. The resolver model takes an answer for one step;
`ReplyIsOfAMoment` is why it may. `Updates` is the database model seen in this
one: a server that answers a query is idle there.

In `NamePatterns` a name is a sequence of components, and three functions say
what the text of a component does to the expressions: the marker (`DNS`,
`DNS-R`) it ends in, what stands before that, and the type it begins with. All
repetitions are greedy, so `Fields` takes the last marker and the last type that
leave a match. `Plain` says which queries are read back as written.

### State and actions of the dig model

`dig[d]` is how a process is doing; `wants[d]` what it was called with.
`ExpressInterest` gives the Interest to an idle stub slot of the resolver, where
it becomes a query of its own as in `onInterest`, or loses it, or lets it merge
with one that is pending. Every try, and every run, has its own slot, so answers
to earlier tries come late. The resolver names its Data after the `Query` it
read (`heard`); dig takes the first Data whose name extends that of its
Interest. "success" is any end after Data, "failed" the return value -1.

### State and actions of the zone model

`zones` holds the rows of the table for each database file; `products` what is
in the keychain and on disk; `createAt[z]` the next step of `zone-create` for
`z`, `topAt[t]` the next statement of a `zone-register`; `cutOff` is a history
variable. Rows of `rrsets` name their zone instead of its id, which is sound as
long as `ServerIdIsItsZone` holds. `StartDelegate` looks at keychain, files and
`zones` in one step: all three only grow. A tool that misses a certificate file
follows a null pointer and is taken to end there. `tryRegister`'s result is
ignored by its callers, so a refused registration just ends.

## Runs

Safety runs of the resolver use `Spec`, the runs over fixed databases `FairSpec`;
`dynamic` uses `DigSpec`.

| run | instance | shows |
|---|---|---|
| `static` | every one of the 512 databases over six possible delegations and three TXT sets of a three-component name; five questions; no faults | `ResolutionCorrect`, `FinishedWithinName`, `SilentOnlyIfUnresolvable`, `EventuallyEnds`, `WalkRefinement` |
| `hints` | 864 databases with hints present, absent or wrong, one or two name servers, three questions | `ResolutionCorrect`, `SilentOnlyIfUnresolvable`, `EventuallyEnds`, `WalkRefinement` |
| `dynamic` | a dig with two tries, called again and again with a name and with one the patterns misread; two queries at the resolver; a delegation that comes and goes; loss, caches, restarts | `TypeOK`, `DigTypeOK`, `AuthorityChain`, `AnswerFromAuthority`, `DigGotItsOwn`, `DigEnds` |
| `moving` | one stub, hints, a delegation that changes its name server, a server that changes its provider, loss, foreign Data, caches, restarts | `AuthorityChain`, `AnswerFromAuthority`, `HintFromParent` |
| `updates` | two servers on one file, eight kinds of update on a set with two data and on the other zone's set of the same label; empty and filled tables; crashes and refused statements | `TypeOK`, `AcknowledgedUpdate`, `ZonesAreIsolated`, `StoreRefinement` |
| `race` | a server that hears queries and updates of the very delegation that `zone-delegate` is writing, with and without its hint; a delegation further below that clients remove; the tool cut off and repeated; crashes and refused statements | `LiveTypeOK`, `NoDuplicateRR`, `EveryRRHasItsSet`, `DelegatedWithCertificate`, `ReplyIsOfAMoment`, `AddedWhereMeant`, `LabelIsReadBack`, `UpdatesOnly` |
| `retry` | two clients, two runs, two tries each; ADD, REMOVE and REPLACE-ALL on one set and ADD on another, three databases; sends that fail, servers that end | `TypeOK`, `SuccessMeansExecuted`, `RetryIsHarmless`, `RunEnds` |
| `zones` | `zone-create` for `/net`, two calls of `zone-register` with different certificates, `zone-delegate` and the server of `/net`, each cut off anywhere and called again | `SetupTypeOK`, `EveryRRSetHasItsZone`, `ServerIdIsItsZone`, `ZoneHasOneCertificate`, `DelegationIsSigned` |
| `specific`, `hintns`, `busy`, `alias` | see Findings | one violated property each |

What the properties say:

* `ResolutionCorrect`: over a database that does not change, the response a stub
  gets is the one its delegations define (`ExpectedResponse`): right zone, right
  records, Nack exactly if there are none. The definition walks no steps: it
  takes the least set of zones that contains the root and each zone's next cut.
* `FinishedWithinName`: the resolved labels do not exceed the name. It holds
  while the database does not change, and not otherwise (see below).
* `SilentOnlyIfUnresolvable`: without faults a stub gets no answer only if the
  question is one the resolver cannot answer. `Resolvable` lists those: a hop
  without a server or hint; a name in the middle of a delegation; a name that is
  itself a zone, for types other than NS, as there is no label left to ask about,
  and with hints for NS as well, which run `hintns` is about.
* `EventuallyEnds`: every question ends, but for a name in the middle of a
  delegation (`IsInnerNode`), which run `specific` shows to loop.
* `WalkRefinement`: over a database that does not change the resolver implements
  `DelegationWalk`. There a question goes in one step from a zone to the next one
  its name is delegated to, and is answered by the last; the label-by-label
  search, the forwarding hints, the servers' messages, the caches and the steps
  of the query object are stutters or give a question up.
* `AuthorityChain`: the zone a query is in was reached from the root by NS
  records that the servers above it published; under updates, caches and loss.
* `AnswerFromAuthority`: the response a stub gets was published by a zone on
  that chain, for the type asked and exactly the rest of the name (a Nack: for a
  leading part of it).
* `HintFromParent`: the hint in use is the first FH record which the parent
  published for the first name server of the delegation followed.
* `AcknowledgedUpdate`: when a server answers an update, its set holds what
  `Updated` makes of what it held when the update came. This is what justifies
  the one-step updates of `NameCachingResolver`.
* `ZonesAreIsolated`: no step of a server changes what a server of another zone
  can find.
  Run `updates` has servers only; what `zone-delegate` can do to it is under
  "Noticed" and in the condition of theorem `ServersAreIsolated`.
* `StoreRefinement`: the servers implement `RecordStore`: ADD and REMOVE are
  atomic also under crashes; REPLACE-ALL empties the set first, and the set stays
  empty if the server ends then.
* `NoDuplicateRR`, `EveryRRHasItsSet`: no set holds data twice and no RR is an
  orphan, although writers look before they insert and others insert in between.
* `DelegatedWithCertificate`: the records of a sub-zone are there only if its
  certificate is, wherever the tool was cut off.
* `SuccessMeansExecuted`: a run that prints "Update successfully" had its update
  executed after it was started; the Data was not an answer to an equal update
  from before.
* `RetryIsHarmless`: however often its copies are executed, also after the run,
  a successful run leaves what one execution would, if no other run updates the
  set. The exception is in the property: a server that ends in the middle of
  REPLACE-ALL leaves the set empty, even after a first copy was acknowledged.
* `RunEnds`: every run ends, also when no server ever answers.
* `ReplyIsOfAMoment`: a query looks up ids, selects rows and counts rows in three
  statements while others write. What the server replies is still what the
  database said, at one moment in between, of the set the client meant.
* `AddedWhereMeant`: an acknowledged update has put its data into the set the
  client meant, through the signed name inside the update and back, and also
  while `zone-delegate` creates a second row for the same set.
* `UpdatesOnly`: `LiveNameServer` implements `SharedDatabase`. Queries and the
  names that updates come in add nothing to what happens to the database.
* `LabelIsReadBack`: what the server executes is the label the query was made
  with. `race` asks with labels for which it holds, `alias` with one for which it
  does not.
* `DigGotItsOwn`: the Data dig takes may be meant for an earlier try or run, may
  be old, and the resolver may have misread the Interest; it was still published
  for dig's own name and type by a zone delegated from the root.
* `DigEnds`: dig ends, whatever becomes of Interests, Data and resolver, which
  says nothing when it gives up.
* `EveryRRSetHasItsZone`: the FOREIGN KEY that SQLite does not enforce holds,
  whoever writes.
* `ServerIdIsItsZone`: the id a server looked up at its start selects its own
  zone ever after, although the zone may be registered by several calls at once.
  With `--dbfile`, which no server of the run is started with, it does not hold.
* `ZoneHasOneCertificate`: look-up and insert of `doRegisterTop` are two
  statements; however many calls race, the zone gets one certificate, or none if
  a call was cut off after it had entered the zone. Nothing repairs that, and the
  property says nothing else of such a zone.
* `DelegationIsSigned`: a delegation that can be found has a key that was made,
  certified and signed by its parent, though each tool may end between any two
  products.

### Bounds

* Names have at most three components below the root. That is the least length
  with a delegation over one, two and three labels, an Auth before each, and a
  zone that is two delegations deep; a fourth repeats these cases.
* `MaxRrLabelLen = 3` bounds `m_rrLabelLen`. Only a name in the middle of a
  delegation gets beyond it, in the loop of run `specific`; that query stops
  there, which is why `static`, `hints`, `hintns` and `specific` say
  `CHECK_DEADLOCK FALSE`. A stub whose question has ended may always ask again.
* One question outstanding per stub. Stubs share nothing but the database and
  the caches, and two stubs already interleave in every way over these.
* `MaxId = 4` (3 in `race` and `zones`): a server takes no update other than REMOVE once the next id of
  `rrs` exceeds it. Ids grow only when a set of two records is rewritten over
  and over; they matter by their order only.
* `MaxRuns = 2`: two runs in all, side by side or one after the other, of one
  client or two: the least with an answer to an equal update in a cache, and with
  a late copy that meets a later run. The theorems hold for every `MaxRuns`.
  `InterestTriedMax = 2` is the value in the code (`ndn-app.cpp:31`).
* `dynamic` has two query slots at the resolver and two tries: the least with an
  answer to an earlier try and one to an earlier run. `MaxRrLabelLen = 2` is the
  length of its names. Its two names are one on the way that updates change and
  one with a component that ends like a marker.
* `zones` sets up one zone and delegates one. A name has one call of
  `zone-create` at a time: the identity is made first and refuses the second.
  The products at the start are all, those of the sub-zone, or those of a
  sub-zone whose creation was cut off. The daemon is started without `--dbfile`.
* The questions of `race` contain a component like a type, an empty label and a
  type that is none, which do not reach the database.
* The databases, requests, questions and delegations of each instance are in
  the MC modules, where their comments say what they are chosen for.

### Fairness

`Fairness` demands, for each stub, that a reachable server answers, that the
resolver's event loop runs `onData`, and that a timer fires for an Interest that
no server answers. The face's `processEvents` runs every ready callback and
ndn-cxx arms a timer for each Interest. Nothing is assumed of caches, updates
or the environment. The database and zone models have no liveness properties.
For runs of `update` and of `dig` only their timer is fair: `RunEnds` and
`DigEnds` need no server and no resolver.

## Findings

Each is a run with one property that TLC violates.

* `specific`: the "more specific info" after an Auth for the whole rest is the
  same question again, because `getSubName` clamps; the query never ends.
* `hintns`: with forwarding hints the NS question for a delegated name is not
  answered: `iterative-query-with-forwarding-hint.cpp:109` tests
  `m_finishedLabelNum` before it is advanced. `run.sh:279` expects such a
  question to return a record; the script starts its resolver without a hint, so
  it never meets this case.
* `busy`: `DyndnsMgr::update` is declared `throw()`, so the handler for the
  `runtime_error` of a failing statement (`name-server.cpp:62`) is unreachable
  and the server ends.
* `alias`: `ndns-label.hpp:37` recognises the marker by the ending of a
  component, so a query of zone `/net` for `/OpenDNS/www` is executed for `/www`.
  `tests/unit/query.cpp:52` expects the label that was written.

### Noticed, without a run

* `run.sh:317` asks for a record right after its update and expects the new one.
  The query Interests select nothing (`query.cpp:94`; the line that would demand
  fresh Data is a comment, `name-dig.cpp:76`), so a cache may give the old one.
* After an Auth for the whole rest of the name `m_rrLabelLen` is larger than the
  rest. If the delegation then appears, `m_finishedLabelNum` becomes larger than
  the number of labels that were resolved (`iterative-query.hpp:180`).
* Look-up and `hasAuth` are two statements: records that are inserted in between
  give an Auth although no longer label is needed any more
  (`ndns-packet-format.md:99`). `ReplyIsOfAMoment` holds because it was so at a
  moment before. `hasAuth` compares with LIKE, where `_` and `%` in a label
  match other labels and case is ignored.
* A late copy of an update may undo the acknowledged update of another run. The
  check that `name-server.cpp:100` announces ("check the seq") is not there.
* The server of `/net` looks up the id of a record for a REMOVE;
  `zone-delegate` inserts that record again and the trigger frees the id; the
  server of another zone inserts a record, which gets the id, and acknowledges
  it; the first server deletes by id (`rr-mgr.cpp:70`), and the acknowledged
  record of the other zone is gone. TLC finds this in 25 steps once a REMOVE, the
  tool and a second zone meet in one instance; it is why `ServersAreIsolated`
  has its condition.
* An update of type A or AAAA, or with an empty label, does not match the
  pattern in `Response::fromData`; it is executed for NS at the empty label and
  acknowledged (`response.cpp:187`).
* `zone-register` and `zone-delegate` report success when `tryRegister` returns
  false (`zone-register.cpp:126`, `zone-delegate.cpp:248`). A `zone-delegate`
  that was cut off cannot be completed by calling it again.
* `--dbfile` reaches the look-up of the zone's id only (`name-server.cpp:30`);
  queries and updates open the default file (`db-mgr.cpp:29`), where the id may
  be another zone's.
* Data are taken for an Interest by prefix, and the resolver's pattern finds a
  marker and a type anywhere in a name. So a dig for `/net` TXT may take the Data
  for `/net/TXT/sim` TXT that another dig has asked for, and a dig for
  `/Open/DNS/sim` gets what there is for `/sim`. TLC finds both once such names
  are among the questions; `DistinctiveNames` is what excludes them.
* `tools/update.cpp:87` offers the action `REPLACE_ALL`, but only `REPLACE-ALL`
  is parsed; `dig` says that it tries twice by default (`tools/dig.cpp:54`) and
  tries once, never uses `--waiting`, and takes `argv[1]` for the name.

## Proofs

`NameCachingResolver_proofs` proves, for all components, stubs, questions,
databases, updates, hints and faults that satisfy the named assumptions of the
modules (`RRSetKeyAssumption`, `ResolverAssumption`):

* `TypeCorrect`: `Spec => []TypeOK`
* `AuthorityChainHolds`: `Spec => []AuthorityChain`
* `AnswerFromAuthorityHolds`: `Spec => []AnswerFromAuthority`
* `HintFromParentHolds`: `Spec => []HintFromParent`
* `ResolutionCorrectHolds`: `Spec => []ResolutionCorrect`, if the databases do
  not change (`Static`: no dynamic updates)
* `FinishedWithinNameHolds`: `Spec => []FinishedWithinName`, if `Static`
* `ResolverImplementsWalk`: `Spec => WalkRefinement`, if `Static`
* `SilentOnlyIfUnresolvableHolds`: `Spec => []SilentOnlyIfUnresolvable`, if
  `Static`, without faults, with `RootServed` and `HintsAreAsked`

The argument. None of the first two safety invariants is inductive: `OnData` uses
`reply[s]` and the fields of `iq[s]`, which the invariants do not constrain. The
inductive invariant adds that a reply under way was published for the very
Interest the query object asks for (or is of unknown type), that the last
response in step FHQuery came from the delegation being followed, that the
previous zone of a query was reached as well, and that label lengths are
positive. `published` only grows, so what was reached stays reached
(monotonicity of `ReachedByDelegation`), and an NS answer extends the chain by
one hop. `InitInv`, `StepInv` and `Invariance` are the three facts; `StepInv` has
one step per action. The invariant also says of the Data that servers have put
that its label is not empty and that it has records exactly if it is an
`NDNS-Resp`. `NameServer_proofs` has the facts on prefixes and parts of names
that the label arithmetic needs.

`HintFromParent` needs more, since a hint is put together from two answers, the
delegation and the FH records, which the query object no longer has when the
hint is used. `HintInv` says what is left of them: in step FHQuery the last
response is the delegation that the zone has published under the hint it is asked
with; and whenever labels are finished, the zone before has published that
delegation and the hint in use, under the hint it was asked with itself.

The last four compare the resolver with the delegations of a database. Zones are
defined as the least set that has the root and, with a zone, its next cut;
`ZonesAreLeast` says that it is such a set and below all others, and the lemmas
after it each exhibit a smaller path of zones to show what is no zone. `WalkInv`
is what a query object knows on its way: the labels it has finished are a zone,
every zone above hands the name on to no further than there (`Walked`), and no
cut lies within the labels it has asked about (`NoCutBefore`). An Auth excludes one
more length (`MissIsNoCut`), a delegation is the next cut (`RespIsCut`; this
is where a label that is clamped to the end of the name has to be excluded, since
it would have been found before), and a Nack says that there is no cut further
down (`NackIsLast`), so that the zone is the authority. Without `Static` it is
false: see the second point of "Noticed" for `FinishedWithinName`.

`WalkStep` says what one `doData` does to a query on its way: it stays in its
zone, moves to the next cut, or ends, with the delegation of the whole name or with
what the authority has. `DoDataWalk` proves it for both strategies and each type
of response. From it follow `ResolutionCorrect` and the refinement
(`DataImplements`); in the latter `OnInterest` is Ask, `OnTimeout` and `Stop` are
GiveUp, and what servers and caches send is a stutter. The abstract database
is the concrete one, a question is open while it waits or is delivered, its
zone is `m_finishedLabelNum`, and its response is `m_lastResponse` once it is
answered.

For the last one `HopInv` adds that on a way whose hops are served the hint in use
is the one its zone listens on. `RootServed` says that the root's server runs
behind the hint of the option `--hint`; `HintsAreAsked` that no FH record is kept
under the empty name, an Interest for which no pattern matches. A query object
that can be resolved then asks somebody who answers, and no Nack for a hint
ends it.

`UpdateSession_proofs` proves, under `UpdateAssumption` and `SessionAssumption`:

* `TypeCorrect`: `Spec => []TypeOK`
* `SuccessMeansExecutedHolds`: `Spec => []SuccessMeansExecuted`
* `RetryIsHarmlessHolds`: `Spec => []RetryIsHarmless`, if no initial set holds
  data twice (`DistinctInitially`; the theorems `NoDuplicates` and
  `LiveNoDuplicates` say so of the tables)

The second is not inductive: `OnData` reads `published`, of which it says
nothing. The inductive invariant adds that an answer to the Interest of a
client's latest run is there only if that run was executed, and that no version
in the network or in an answer is later than the latest run. The second part is
what makes a new run start under a name without any answer.

The third is inductive with the sets free of duplicates. A copy that is executed
for the second time finds what the first left, or what a REPLACE-ALL that was cut
off left, and `UpdatedTwice` (in `NameServer_proofs`) says that an update of what
it made itself changes nothing. With duplicates it does not hold: a REMOVE deletes
one of two equal records, and its copy the other.

### The shared database

`SharedDatabase_proofs` proves, for any number of servers, requests, calls of
`zone-delegate` and initial tables that satisfy the assumptions of the modules:

| theorem | states | under |
|---|---|---|
| `TypeCorrect` | `Spec => []TypeOK` | |
| `NoDuplicates` | `Spec => []NoDuplicateRR` | |
| `RecordsHaveSets` | `Spec => []EveryRRHasItsSet` | |
| `ServersAreIsolated` | `Spec => ZonesAreIsolated` | `NoRemovalOfDelegated` |
| `UpdatesAreExecuted` | `Spec => []AcknowledgedUpdate` | `UpdatesApart`, `OneRowInitially` |
| `ServersImplementStore` | `Spec => StoreRefinement` | `Delegation = {}`, `OneRowInitially` |
| `CertificateComesFirst` | `Spec => []DelegatedWithCertificate` | `NoRemovalOfDelegated`, `DelegationsApart`, `DelegatedInitially` |

The conditions are on the constants, and each is there because the property
fails, or means something else, without it:

* `NoRemovalOfDelegated`: no update removes a record that `zone-delegate` writes.
  An id that is looked up may otherwise name another zone's record when it is
  deleted, see "Noticed". A REPLACE-ALL of such a set is allowed.
* `UpdatesApart`: no update is for a set that `zone-delegate` writes. What such
  an update leaves is not what it makes of what it found. It is how the comment
  on `AcknowledgedUpdate` reads, and `updates` has no delegation.
* `OneRowInitially`: the initial tables have one row for each set with updates.
  With two, the look-up may return either, and the set has no single content.
* `DelegationsApart`: no update is for the certificate of a delegation, no
  delegation writes its servers where another has its certificate, and two that
  share a server of a sub-zone have the same certificate. The last excludes a
  delegation with a second key next to the first.
* `DelegatedInitially`: the property holds of the initial tables.

The argument. `IInv` says that the tables are sound (keys unique, ids below the
next one, rows finite), that a server between its look-up and its last statement
holds the id of a row of its own request's set, and that a tool's `insertedIds`
are ids of rows of its own sets. It has to say this, since a statement with a
stale id would write an orphan, and that is true only because no statement
deletes a row of `rrsets` and `NewId` is greater than every id that exists. Each
statement is a lemma at the beginning of the module; the steps of tools and servers cite
them. The type invariant, `NoDuplicateRR` and `EveryRRHasItsSet` follow.

`RemovalsInv` adds that the id in `rrId` at `removeRR` is that of a row with the
request's data in the request's set: ids of `rrs`, unlike those of `rrsets`, are
freed and used again, so this needs the condition. With it the servers keep each
other's sets, which gives `ServersAreIsolated`; and a server's own set can then
change by its own statements only, so that `UpdatesInv` can say at each statement
how the set came from `before`. At "answer" that is `AcknowledgedUpdate`.

For the refinement `StoreSteps` maps each server's statement to one step of
`RecordStore` or to a stutter: inserting and deleting a record are Add and
Remove, deleting the related records is the first half of ReplaceAll,
look-ups and the insertion of an empty row change nothing that can be found, and
a server that ends abandons its replacement. `CertificatesInv` adds to
`DelegatedWithCertificate` that a tool beyond its third statement has its
certificate in place.

### The live name server

`LiveNameServer_proofs` and, for `ReadBack`, `NamePatterns_proofs` prove, for any
number of servers and hints, and all names, questions and updates:

| theorem | states | under |
|---|---|---|
| `ReadBack` | `Fields` of the name of a query is the query | the query is `Plain` |
| `LiveTypeCorrect` | `LiveSpec => []LiveTypeOK` | `HeardKeysExist` |
| `LiveNoDuplicates` | `... => []NoDuplicateRR` | `HeardKeysExist` |
| `LiveRecordsHaveSets` | `... => []EveryRRHasItsSet` | `HeardKeysExist` |
| `LabelsAreReadBack` | `... => []LabelIsReadBack` | `PlainNames` |
| `LiveImplementsUpdates` | `... => UpdatesOnly` | `PlainNames`; `"busy"` among the failures only with `"crash"` |
| `AcknowledgedIsThere` | `... => []AddedWhereMeant` | `PlainNames`, `ServersApart` |
| `LiveCertificateComesFirst` | `... => []DelegatedWithCertificate` | `PlainNames`, `NoRemovalOfDelegated`, `DelegationsApart`, `DelegatedInitially` |
| `RepliesAreOfAMoment` | `... => []ReplyIsOfAMoment` | `PlainNames`, `ServersApart`, `NoNestedDelegations` |

* `HeardKeysExist`: whatever set an update is heard to be for, `RRSetKey` has it.
  The constant is finite for TLC only; `PlainNames` implies the condition.
* `PlainNames`: zones, hints, updates and the questions that match the pattern
  are `Plain`, so no component in front of the marker ends like one and none
  between marker and type begins like a type. Without it the server executes
  another query than was asked, as run `alias` shows.
* `ServersApart`: `NoRemovalOfDelegated`, or there is one server only. Otherwise
  a server may delete another's record by an id that was freed, see "Noticed".
  For `DelegatedWithCertificate` one server is not enough: when the server has
  looked up an id, the tool replaces that record, and a record which the tool
  writes next may get the id.
* `NoNestedDelegations`: `zone-delegate` writes no name servers of one zone
  below others of the same zone. A query that selects before it writes the upper
  set and counts after it has written the lower one says "more specific info"
  when there was never a moment at which that was all.
* The last condition of `LiveImplementsUpdates`: a query that SQLite refuses ends
  the server, which is a crash in the eyes of `SharedDatabase`.

The argument. `ReadBack` shows by positions in the name that the last marker and
the last type that leave a match are those that were written: the patterns'
greed is harmless because a plain query has no others. From it `MeaningInv`:
while a server executes a query or update, the set it read is the set the client
meant, and a server with a query holds none of the locals of an update. `LiveInv`
is the invariant of the shared database, where the servers now hear requests out
of names, with the types of the queries. The steps of the shared database are
used through the lemmas of `SharedDatabase_proofs`, and a live step is either one
of them or leaves the tables alone; this is also the refinement.

`AddedInv` says what `AddedWhereMeant` says of the set the server read.
It needs `DeletionsInv`, that whoever deletes a record by id was asked to
remove just that record: no step of anybody else then takes the data away
between the insertion and the answer.

`RepliesInv` is the argument for `ReplyIsOfAMoment`. `seen` collects the answers
of every moment, so an answer is right if it was right once. What `SelectRRs`
finds is the set at that moment, for the id it looked up stays the id of the set
(rows of `rrsets` are never deleted). A query that finds nothing goes on to
`CountAuth`, where the set may not be empty any more: `Missing` says that the
answer which follows from what is below was already right at one moment, and
that a set which only this server writes is empty still, as the server has been
busy with the query. `Undisturbed` is what each step of another must respect for
that: a row keeps its set, no name server below disappears, and the first one
below appears only where nobody writes the set itself. Updates of other servers
are for other zones; the tool respects it by `NoNestedDelegations`.

### The setting up of zones

`ZoneSetup_proofs` proves, for any number of zones, calls and updates:

| theorem | states | under |
|---|---|---|
| `SetupTypeCorrect` | `ZoneSetupSpec => []SetupTypeOK` | |
| `RowsHaveZones` | `... => []EveryRRSetHasItsZone` | `OneDatabase` |
| `ServerIdStays` | `... => []ServerIdIsItsZone` | `OneDatabase` |
| `OneCertificate` | `... => []ZoneHasOneCertificate` | `NoRemovalOfDelegated`, `RegistrationsApart`, `ZonesAreNew` |
| `DelegationsAreSigned` | `... => []DelegationIsSigned` | `NoRemovalOfDelegated`, `DelegationsApart`, `RegistrationsApart`, `FirstServerFromTool` |

* `OneDatabase`: nobody uses `--dbfile`; with it the first two are false.
* `RegistrationsApart`: no update and no delegation writes the set that
  `zone-register` puts a top zone's certificate into.
* `ZonesAreNew`: no zone that is to be registered is in the table at the start;
  one that is there has, or has not, the certificate of a call before.
* `FirstServerFromTool`: no update brings the record of the first name server
  that `zone-delegate` writes. An update may delegate without a signed key.

`SetupInv` is `IInv` of the database with the types of the tools and the row
that a `zone-register` has inserted; the steps of servers and of `doRegisterZone`
are lemmas of `SharedDatabase_proofs`. `ZonesInv` has whoever writes find its
zone in the table; since no statement deletes a zone it stays there, and by the
primary key a second zone has another id. `RegistrationsInv` adds that of all
calls for one zone at most one is past the insertion of the zone, which the
UNIQUE name decides, that before it no call's certificate is there, and that a
zone in the table has its certificate, a call that will insert it, or a call
that was cut off. `ProductsInv` says that products are made in order and that
none is deleted, `SignedInv` that a tool which has begun to write has passed its
checks.

The assumptions these proofs added to the modules are ones the tools enforce: a
call of `zone-delegate` has a name server and its certificate is a set of the
sub-zone (`ZoneRegisterAssumption`), and what is on disk at the start was made by
`zone-create`, hence in order (`ZoneToolsAssumption`).

### dig

`NameDig_proofs` proves, for any number of digs, tries and stubs, and all
questions, databases, updates and faults:

| theorem | states | under |
|---|---|---|
| `DigTypeCorrect` | `DigSpec => []DigTypeOK` | |
| `DigGotItsOwnHolds` | `DigSpec => []DigGotItsOwn` | `DistinctiveNames` |

`DistinctiveNames`: no component of a label that dig asks for is a marker, a type
or the mark of a hint, nor has one a type before the marker it ends in; the
resolver's name has no component that ends in a marker. Components that only end
in a marker (`/OpenDNS`) are allowed, though the resolver reads them as its
marker. Without the condition the property is false, see "Noticed".

The argument is by positions in a name. Dig's own marker is the first place
where the resolver may read one, and every type is the last component, so the
resolver reads the label that was written or a rest of it. Data that extend the
Interest have their marker where dig wrote it, since the resolver's answer
begins with its name, and their type after all of the label; so a rest of the
label is no answer, nor is the default query of a name that does not parse, and
what is accepted has the label and the type of the question
(`AnswerNameIs`, `OwnAnswer`). The invariant `DigInv` says that the resolver asks
for what it has heard in an Interest of a dig, and that whatever is accepted was
answered to a stub with that query; answers are never taken back, and the
invariants of the resolver are used through `NameCachingResolver_proofs`.

The instances of TLC satisfy the conditions of the theorems they illustrate, but
for one: the requests of `race` remove records of the delegation, so there
`DelegatedWithCertificate` is checked where the theorem does not apply. It has
one server, so `ServersApart` holds.

Every invariant, action property and refinement that a passing run checks is a
theorem. Only model-checked: liveness (`EventuallyEnds`, `RunEnds`, `DigEnds`),
which is out of the prover's reach, as is ENABLED and anything that needs
induction over data.

## Not modelled

Not modelled because nothing is decided there: certificates on disk, the
contents of keys, certificates and signatures (no code verifies one), printing,
option parsing, the build. The TLV codec inside Data is not modelled: its fields
are. `DBMgr` keeps a status and, after an exception, an open connection; every
caller that sees an exception ends its process, so no step reads them again.
`NDNApp`'s failing prefix registration only ends a process at its start.
