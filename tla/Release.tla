------------------------------- MODULE Release -------------------------------
(***************************************************************************)
(* Publishing a release: the recipes of the Justfile (release-create,      *)
(* release-run, release-finalize) around upload-release-distributions of   *)
(* src/github.rs.  A run is one execution of the release workflow for one  *)
(* tag; nothing keeps two of them from overlapping, and a failed one is    *)
(* started again.  Within a run the uploads are concurrent futures.        *)
(*                                                                         *)
(* Whether the tag has a release is asked in one request and the draft is  *)
(* made in the next, so overlapping runs can make several; every later     *)
(* request picks one of them again.  A release is named after the run that *)
(* made it.                                                                *)
(*                                                                         *)
(* A file's bytes are abstracted to a version, and SHA256SUMS to the       *)
(* versions it lists.  The server is GitHub as the code uses it: it stores *)
(* an asset when the whole body arrived, at once or after the client has   *)
(* given up, any request can fail before or after that, and at most one    *)
(* release of a tag is published.                                          *)
(***************************************************************************)
EXTENDS Naturals, Sequences, FiniteSets

CONSTANTS
    Runs,               \* executions of the release workflow for the tag
    Artifacts,          \* build_wanted_filenames: the release names
    Dists,              \* what the CI artifacts of a commit may hold
    Missing,            \* dist[n] = Missing: the file was not built
    Sums,               \* the name "SHA256SUMS"
    Munged,             \* bytes that are not the ones that were sent
    Unset,
    Window,             \* buffer_unordered(16)
    MaxRetries,         \* build_with_max_retries(5)
    IgnoreMissing,      \* --ignore-missing
    RejectsDuplicates,  \* a second asset of one name is refused (422)
    Munges              \* the names whose bodies the server may alter

Names == Artifacts \cup {Sums}

ASSUME ReleaseAssumption ==
    /\ Sums \notin Artifacts /\ IsFiniteSet(Artifacts)
    /\ Unset \notin Dists \cup Runs
    /\ Munged \notin Dists
    /\ \A d \in Dists : DOMAIN d = Artifacts
    /\ Window \in Nat \ {0} /\ MaxRetries \in Nat
    /\ IgnoreMissing \in BOOLEAN /\ RejectsDuplicates \in BOOLEAN
    /\ Munges \subseteq Names

VARIABLES
    pc,         \* pc[r]: the step of run r
    dist,       \* dist[r]: the bytes of r's dist directory
    task,       \* task[r][n]: the upload of n in run r
    retries,    \* retries[r][n]: n_past_retries
    target,     \* target[r]: the release that r uploads to
    status,     \* status[q]: the release of the tag that run q created
    assets,     \* assets[q][n]: its assets called n, oldest first
    late,       \* bodies the server still holds after the client gave up
    publisher,  \* history: the run that published a release of the tag
    contested   \* history: there were several releases to publish

client == <<pc, dist, task, retries, target>>
releases == <<status, publisher, contested>>
vars == <<client, releases, assets, late>>

Steps == {"idle", "create", "dist", "snapshot", "upload", "finalize"}
Ended == {"done", "failed"}

Bytes == (UNION {{d[n] : n \in Artifacts} : d \in Dists}) \cup {Munged}
Content == Bytes \cup Dists

InFlight(r) == {n \in Names : task[r][n] = "sent"}

TypeOK ==
    /\ pc \in [Runs -> Steps \cup Ended]
    /\ dist \in [Runs -> Dists \cup {Unset}]
    /\ task \in [Runs -> [Names -> {"queued", "sent", "ok"}]]
    /\ retries \in [Runs -> [Names -> 0..MaxRetries]]
    /\ target \in [Runs -> Runs \cup {Unset}]
    /\ status \in [Runs -> {"absent", "draft", "published"}]
    /\ assets \in [Runs -> [Names -> Seq(Content)]]
    /\ late \subseteq Runs \X Names \X Content
    /\ publisher \in Runs \cup {Unset}
    /\ contested \in BOOLEAN
    /\ \A r \in Runs : Cardinality(InFlight(r)) <= Window

Init ==
    /\ pc = [r \in Runs |-> "idle"]
    /\ dist = [r \in Runs |-> Unset]
    /\ task = [r \in Runs |-> [n \in Names |-> "queued"]]
    /\ retries = [r \in Runs |-> [n \in Names |-> 0]]
    /\ target = [r \in Runs |-> Unset]
    /\ status = [q \in Runs |-> "absent"]
    /\ assets = [q \in Runs |-> [n \in Names |-> <<>>]]
    /\ late = {}
    /\ publisher = Unset
    /\ contested = FALSE

Existing == {q \in Runs : status[q] # "absent"}
Published == {q \in Runs : status[q] = "published"}
Present(q, n) == assets[q][n] # <<>>
Built(d) == {n \in Artifacts : d[n] # Missing}

\* Mutant of Body: sources and destinations are paired in another order.
BodyOfNeighbour(r, n) ==
    IF n = Sums THEN dist[r] ELSE dist[r][CHOOSE m \in Artifacts : TRUE]

\* What is sent under a name: a file of dist, or the digests of dist.
Body(r, n) == IF n = Sums THEN dist[r] ELSE dist[r][n]

Goto(r, label) == pc' = [pc EXCEPT ![r] = label]

Held(r, names) == {<<target[r], n, Body(r, n)>> : n \in names}

\* The process is gone, and with it its counters and its dist directory.
Exit(r) ==
    /\ Goto(r, "failed")
    /\ dist' = [dist EXCEPT ![r] = Unset]
    /\ task' = [task EXCEPT ![r] = [n \in Names |-> "queued"]]
    /\ retries' = [retries EXCEPT ![r] = [n \in Names |-> 0]]
    /\ target' = [target EXCEPT ![r] = Unset]

\* The error reaches `res?` and the other futures are dropped with their
\* connections; the server may have the whole body of some already.
Abort(r, names, held) ==
    /\ Exit(r)
    /\ \E kept \in SUBSET names : late' = late \cup held \cup Held(r, kept)

-----------------------------------------------------------------------------
(* Before the uploads.                                                     *)

\* just release-create, gh release view: which release of the tag it shows
\* when there are several is not said.
View(r) ==
    /\ pc[r] = "idle"
    /\ \/ Existing = {} /\ Goto(r, "create")
       \/ \E q \in Existing : Goto(r, IF status[q] = "draft" THEN "dist" ELSE "failed")
    /\ UNCHANGED <<dist, task, retries, target, releases, assets, late>>

\* gh release create --draft: another run may have made one since.
Create(r) ==
    /\ pc[r] = "create"
    /\ Goto(r, "dist")
    /\ status' = [status EXCEPT ![r] = "draft"]
    /\ UNCHANGED <<dist, task, retries, target, publisher, contested, assets, late>>

\* rm -rf dist, the download, the check for missing artifacts, the digests.
Download(r) ==
    /\ pc[r] = "dist"
    /\ \E d \in Dists :
        /\ dist' = [dist EXCEPT ![r] = d]
        /\ Goto(r, IF Built(d) = Artifacts \/ IgnoreMissing
                   THEN "snapshot" ELSE "failed")
    /\ UNCHANGED <<task, retries, target, releases, assets, late>>

\* get_draft_release_by_tag: the first release of the tag that is listed, in
\* an order nothing specifies.  Its assets are the ones every upload of the
\* run is checked against: a name that is there is skipped.
Snapshot(r) ==
    /\ pc[r] = "snapshot"
    /\ \E q \in Existing :
        IF status[q] = "draft"
        THEN /\ Goto(r, "upload")
             /\ target' = [target EXCEPT ![r] = q]
             /\ task' = [task EXCEPT ![r] =
                  [n \in Names |->
                     IF Present(q, n) \/ n \in Artifacts \ Built(dist[r])
                     THEN "ok" ELSE "queued"]]
        ELSE Goto(r, "failed") /\ UNCHANGED <<target, task>>
    /\ UNCHANGED <<dist, retries, releases, assets, late>>

-----------------------------------------------------------------------------
(* One upload.                                                             *)

\* Mutant of Start: SHA256SUMS is one more future of the buffered stream.
StartAnyOrder(r, n) ==
    /\ pc[r] = "upload"
    /\ task[r][n] = "queued"
    /\ Cardinality(InFlight(r)) < Window
    /\ task' = [task EXCEPT ![r][n] = "sent"]
    /\ UNCHANGED <<pc, dist, retries, target, releases, assets, late>>

\* SHA256SUMS is sent once every distribution has been.
Start(r, n) ==
    /\ pc[r] = "upload"
    /\ task[r][n] = "queued"
    /\ Cardinality(InFlight(r)) < Window
    /\ n = Sums => \A m \in Artifacts : task[r][m] = "ok"
    /\ task' = [task EXCEPT ![r][n] = "sent"]
    /\ UNCHANGED <<pc, dist, retries, target, releases, assets, late>>

\* The server's side of an accepted body.
Store(q, n, body) ==
    \E bytes \in {body} \cup (IF n \in Munges THEN {Munged} ELSE {}) :
        assets' = [assets EXCEPT ![q][n] = Append(@, bytes)]

Accepts(q, n) == ~RejectsDuplicates \/ ~Present(q, n)

\* Mutant of Transient: the bound is never reached.
TransientForever(r, n, held) ==
    /\ late' = late \cup held
    /\ UNCHANGED client

\* Mutant of Transient: one retry too many.
TransientOffByOne(r, n, held) ==
    IF retries[r][n] <= MaxRetries
    THEN /\ retries' = [retries EXCEPT ![r][n] = @ + 1]
         /\ late' = late \cup held
         /\ UNCHANGED <<pc, dist, task, target>>
    ELSE Abort(r, InFlight(r) \ {n}, held)

\* GitHubUploadRetryStrategy calls it transient: send it again from the same
\* future, or give up.  The server may still hold this request's body.
Transient(r, n, held) ==
    IF retries[r][n] < MaxRetries
    THEN /\ retries' = [retries EXCEPT ![r][n] = @ + 1]
         /\ late' = late \cup held
         /\ UNCHANGED <<pc, dist, task, target>>
    ELSE Abort(r, InFlight(r) \ {n}, held)

\* The asset is stored and the client reads a success status.
Uploaded(r, n) ==
    /\ pc[r] = "upload" /\ n \in InFlight(r)
    /\ Accepts(target[r], n)
    /\ Store(target[r], n, Body(r, n))
    /\ task' = [task EXCEPT ![r][n] = "ok"]
    /\ retries' = [retries EXCEPT ![r][n] = 0]
    /\ UNCHANGED <<pc, dist, target, releases, late>>

\* The asset is stored, but the connection breaks before the response.
ResponseLost(r, n) ==
    /\ pc[r] = "upload" /\ n \in InFlight(r)
    /\ Accepts(target[r], n)
    /\ Store(target[r], n, Body(r, n))
    /\ Transient(r, n, {})
    /\ UNCHANGED releases

\* A 403, or a connection that breaks before the whole body arrived.
Refused(r, n) ==
    /\ pc[r] = "upload" /\ n \in InFlight(r)
    /\ Transient(r, n, {})
    /\ UNCHANGED <<releases, assets>>

\* The 60 seconds are over while the server still works on the body.
TimedOut(r, n) ==
    /\ pc[r] = "upload" /\ n \in InFlight(r)
    /\ Transient(r, n, {<<target[r], n, Body(r, n)>>})
    /\ UNCHANGED <<releases, assets>>

\* Any other status (401, 500, 422 for a name that is taken) ends the run,
\* and every upload that is still in flight.
Rejected(r, n) ==
    /\ pc[r] = "upload" /\ n \in InFlight(r)
    /\ Abort(r, InFlight(r) \ {n}, {})
    /\ UNCHANGED <<releases, assets>>

\* The server completes a request nobody waits for any more.
LateStore(q, n, body) ==
    /\ <<q, n, body>> \in late
    /\ late' = late \ {<<q, n, body>>}
    /\ IF Accepts(q, n) THEN Store(q, n, body) ELSE UNCHANGED assets
    /\ UNCHANGED <<client, releases>>

-----------------------------------------------------------------------------
(* After the uploads.                                                      *)

\* Mutant of Check: the content is not compared.
CheckPresence(r) ==
    /\ pc[r] = "upload"
    /\ \A n \in Names : task[r][n] = "ok"
    /\ \E q \in Existing :
        Goto(r, IF status[q] = "draft" /\ Present(q, Sums) THEN "finalize" ELSE "failed")
    /\ UNCHANGED <<dist, task, retries, target, releases, assets, late>>

\* The release is looked up again, and its (first) SHA256SUMS compared with
\* ours.
Check(r) ==
    /\ pc[r] = "upload"
    /\ \A n \in Names : task[r][n] = "ok"
    /\ \E q \in Existing :
        Goto(r, IF /\ status[q] = "draft"
                   /\ Present(q, Sums)
                   /\ Head(assets[q][Sums]) = dist[r]
                THEN "finalize" ELSE "failed")
    /\ UNCHANGED <<dist, task, retries, target, releases, assets, late>>

\* just release-finalize: gh release edit --draft=false, of whichever release
\* it finds.  The server has one published release of a tag, and refuses a
\* second one; of the published one the edit changes nothing.  The answer may
\* be lost, and what the recipe does next may fail.
Finalize(r) ==
    /\ pc[r] = "finalize"
    /\ \E q \in Existing :
        IF Published = {}
        THEN /\ status' = [status EXCEPT ![q] = "published"]
             /\ publisher' = r
             /\ contested' = (Existing # {q})
             /\ \E label \in Ended : Goto(r, label)
        ELSE /\ Goto(r, IF q \in Published THEN "done" ELSE "failed")
             /\ UNCHANGED releases
    /\ UNCHANGED <<dist, task, retries, target, assets, late>>

\* The workflow is cancelled or its runner dies.
Crash(r) ==
    /\ pc[r] \notin Ended \cup {"idle"}
    /\ Abort(r, InFlight(r), {})
    /\ UNCHANGED <<releases, assets>>

Upload(r, n) ==
    \/ Start(r, n)
    \/ Uploaded(r, n)
    \/ ResponseLost(r, n)
    \/ Refused(r, n)
    \/ TimedOut(r, n)
    \/ Rejected(r, n)

Step(r) ==
    \/ View(r)
    \/ Create(r)
    \/ Download(r)
    \/ Snapshot(r)
    \/ \E n \in Names : Upload(r, n)
    \/ Check(r)
    \/ Finalize(r)

Next ==
    \/ \E r \in Runs : Step(r) \/ Crash(r)
    \/ \E q \in Runs, n \in Names, body \in Content : LateStore(q, n, body)

\* A run that was started goes on; the server answers or the timeout fires.
Spec == Init /\ [][Next]_vars /\ \A r \in Runs : WF_vars(Step(r))

-----------------------------------------------------------------------------
\* SHA256SUMS never shows up in a release before the distributions it
\* lists, whatever is retried, answered late, aborted or run twice.
SumsLast ==
    \A q \in Runs : \A i \in 1..Len(assets[q][Sums]) :
        assets[q][Sums][i] \in Dists =>
            \A n \in Built(assets[q][Sums][i]) : Present(q, n)

\* A release that was published while the tag had no other has every
\* distribution of the run that published it and, byte for byte, the
\* SHA256SUMS that this run computed.  The gap: of two drafts, the one that
\* Finalize publishes need not be the one that was filled and checked.
PublishedChecked ==
    \A q \in Published : ~contested =>
        /\ \A n \in Built(dist[publisher]) : Present(q, n)
        /\ Present(q, Sums) /\ Head(assets[q][Sums]) = dist[publisher]

\* What the comment at github.rs:582 is after ("check that content wasn't
\* munged", "never again"): a published SHA256SUMS describes the published
\* distributions, at least when the tag has only one release.
PublishedMatchesSums ==
    \A q \in Published : ~contested =>
        LET sums == Head(assets[q][Sums])
        IN  \A n \in Built(sums) : Head(assets[q][n]) = sums[n]

\* Retries are bounded: every run publishes, fails or is cut short.
RunsEnd == \A r \in Runs : <>(pc[r] \in Ended)

\* The bytes that may be published under a name: of any of the builds (an
\* interrupted run leaves its files in the draft), or munged on the way.
Publishable(n) ==
    {<<d[n]>> : d \in {e \in Dists : n \in Built(e)}} \cup {<<Munged>>}

\* What a user of the tag sees of a release that was not contested.
Visible ==
    IF Published = {} \/ contested THEN Unset
    ELSE assets[CHOOSE q \in Published : TRUE]

\* The promise of Publication: all the files of the release at once, each
\* once, with the SHA256SUMS of a complete dist, and for good, whatever other
\* runs do, create or upload since.  It has the gap of PublishedChecked.
Pub == INSTANCE Publication WITH
    Bundles <- {f \in [Names -> Seq(Content)] :
                    /\ \A n \in Artifacts : f[n] \in Publishable(n)
                    /\ \E d \in Dists : Built(d) = Artifacts /\ f[Sums] = <<d>>},
    Unpublished <- Unset,
    visible <- Visible

PublishesAtomically == Pub!Spec
=============================================================================
