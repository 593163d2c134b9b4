---------------------------- MODULE Release_proofs ----------------------------
(***************************************************************************)
(* Theorems about Release, for any number of runs, files and builds, any   *)
(* window and number of retries, and every choice of what the server does. *)
(***************************************************************************)
EXTENDS Release, FiniteSetTheorems, SequenceTheorems, TLAPS

Types ==
    /\ pc \in [Runs -> Steps \cup Ended]
    /\ dist \in [Runs -> Dists \cup {Unset}]
    /\ task \in [Runs -> [Names -> {"queued", "sent", "ok"}]]
    /\ retries \in [Runs -> [Names -> 0..MaxRetries]]
    /\ target \in [Runs -> Runs \cup {Unset}]
    /\ status \in [Runs -> {"absent", "draft", "published"}]
    /\ assets \in [Runs -> [Names -> Seq(Content)]]
    /\ late \subseteq Runs \X Names \X Content
    /\ publisher \in Runs \cup {Unset}
    /\ contested \in BOOLEAN

\* What the missing-file check lets through.
Complete == {d \in Dists : Built(d) = Artifacts \/ IgnoreMissing}

\* A body that may reach a release with the assets `there` under a name: a
\* file of some build, or the digests of a build of which everything is there.
OnServer(q) == {n \in Names : Present(q, n)}
MayStore(n, body, there) ==
    IF n = Sums
    THEN body \in Complete /\ Built(body) \subseteq there
    ELSE \E d \in Dists : n \in Built(d) /\ body = d[n]

\* The inductive invariant, part by part.  Before its snapshot a run has
\* tried nothing; outside of its uploads nothing is in flight.
Quiet ==
    \A r \in Runs : \A n \in Names :
        /\ pc[r] \in {"idle", "create", "dist", "snapshot"} => task[r][n] = "queued"
        /\ pc[r] # "upload" => task[r][n] # "sent"

\* From the snapshot on a run has a dist directory that passed the check, and
\* only files that were built are left to send.
Chosen ==
    \A r \in Runs :
        /\ pc[r] \in {"snapshot", "upload", "finalize"} => dist[r] \in Complete
        /\ pc[r] \in {"upload", "finalize"} => target[r] \in Existing
        /\ pc[r] = "upload" => \A n \in Artifacts \ Built(dist[r]) : task[r][n] = "ok"

\* A run makes its release once.
Unmade == \A r \in Runs : pc[r] \in {"idle", "create"} => status[r] = "absent"

\* What a run counts as uploaded is in its release; SHA256SUMS is on its way
\* only when everything else is.
OkMeansPresent ==
    \A r \in Runs, n \in Artifacts :
        pc[r] \in {"upload", "finalize"} /\ task[r][n] = "ok" /\ n \in Built(dist[r])
            => Present(target[r], n)
SumsAfter ==
    \A r \in Runs : task[r][Sums] = "sent" => \A n \in Artifacts : task[r][n] = "ok"

\* Bodies of requests that were given up are of the same kind, and so is all
\* that was ever stored.
LateOk ==
    \A request \in late : MayStore(request[2], request[3], OnServer(request[1]))
StoredOk ==
    \A q \in Runs : \A n \in Names : \A i \in 1..Len(assets[q][n]) :
        assets[q][n][i] = Munged \/ MayStore(n, assets[q][n][i], OnServer(q))

\* A run that is past the check has uploaded everything to its release, and
\* some release has its SHA256SUMS first.
Sealed(q, d) == Present(q, Sums) /\ Head(assets[q][Sums]) = d
Checked ==
    \A r \in Runs : pc[r] = "finalize" =>
        /\ \A n \in Names : task[r][n] = "ok"
        /\ \E q \in Existing : Sealed(q, dist[r])

\* Only one release is published; when it was the only one, its publisher had
\* filled it and checked it.
Filled(q, r) ==
    /\ dist[r] \in Complete
    /\ \A n \in Built(dist[r]) : Present(q, n)
    /\ Sealed(q, dist[r])
PublisherOk ==
    \A q \in Published :
        /\ Published = {q}
        /\ publisher \in Runs /\ pc[publisher] \in Ended
        /\ ~contested => Filled(q, publisher)

IInv ==
    /\ Types /\ Quiet /\ Chosen /\ OkMeansPresent /\ SumsAfter /\ LateOk /\ StoredOk
    /\ Checked /\ PublisherOk /\ Unmade

LEMMA InitIInv == Init => IInv
  <1> SUFFICES ASSUME Init PROVE IInv
    OBVIOUS
  <1>1. Types
    <2>1. [n \in Names |-> "queued"] \in [Names -> {"queued", "sent", "ok"}]
      OBVIOUS
    <2>2. [n \in Names |-> 0] \in [Names -> 0..MaxRetries]
      BY ReleaseAssumption
    <2>3. [n \in Names |-> <<>>] \in [Names -> Seq(Content)]
      OBVIOUS
    <2>4. late \subseteq Runs \X Names \X Content
      BY DEF Init
    <2>5. QED
      BY <2>1, <2>2, <2>3, <2>4 DEF Init, Types, Steps
  <1>2. Quiet /\ Chosen /\ OkMeansPresent /\ SumsAfter /\ Checked /\ Unmade
    BY DEF Init, Quiet, Chosen, OkMeansPresent, SumsAfter, Checked, Unmade, Names
  <1>3. LateOk /\ StoredOk
    BY DEF Init, LateOk, StoredOk
  <1>4. PublisherOk
    BY DEF Init, PublisherOk, Published
  <1>5. QED
    BY <1>1, <1>2, <1>3, <1>4 DEF IInv

-----------------------------------------------------------------------------
(* The server: names only gain assets, and the first one of each stays.    *)

Kept ==
    \A q \in Runs :
        /\ OnServer(q) \subseteq OnServer(q)'
        /\ \A n \in OnServer(q) : Head(assets'[q][n]) = Head(assets[q][n])
ServerOk == assets' \in [Runs -> [Names -> Seq(Content)]] /\ Kept /\ StoredOk'

LEMMA SomeContent ==
    /\ Munged \in Content /\ Complete \subseteq Content
    /\ \A d \in Dists, n \in Artifacts : d[n] \in Content
  <1>1. Munged \in Content /\ Complete \subseteq Content
    <2>1. Munged \in Bytes
      BY DEF Bytes
    <2>2. QED
      BY <2>1 DEF Content, Complete
  <1>2. ASSUME NEW d \in Dists, NEW n \in Artifacts PROVE d[n] \in Content
    <2>1. d[n] \in {d[m] : m \in Artifacts}
      OBVIOUS
    <2>2. {d[m] : m \in Artifacts} \in {{e[m] : m \in Artifacts} : e \in Dists}
      OBVIOUS
    <2>3. QED
      BY <2>1, <2>2 DEF Content, Bytes
  <1>3. QED
    BY <1>1, <1>2

\* What may be stored, may be stored later.
LEMMA MayStoreStays ==
    ASSUME NEW there, NEW later, there \subseteq later, NEW n, NEW body,
           MayStore(n, body, there)
    PROVE  MayStore(n, body, later)
  BY DEF MayStore

LEMMA SameAssets ==
    ASSUME IInv, assets' = assets
    PROVE  ServerOk
  BY DEF IInv, Types, StoredOk, ServerOk, Kept, OnServer, Present

LEMMA StoreOk ==
    ASSUME IInv, NEW q \in Runs, NEW n \in Names, NEW body \in Content,
           MayStore(n, body, OnServer(q)), Store(q, n, body)
    PROVE  ServerOk /\ Present(q, n)'
  <1>1. PICK bytes \in {body, Munged} : assets' = [assets EXCEPT ![q][n] = Append(@, bytes)]
    BY DEF Store
  <1>2. bytes \in Content /\ assets[q][n] \in Seq(Content)
    BY <1>1, SomeContent DEF IInv, Types
  <1>3. assets'[q][n] = Append(assets[q][n], bytes)
    BY <1>1 DEF IInv, Types
  <1>4. assets' \in [Runs -> [Names -> Seq(Content)]]
    <2>1. Append(assets[q][n], bytes) \in Seq(Content)
      BY <1>2
    <2>2. [assets[q] EXCEPT ![n] = Append(assets[q][n], bytes)] \in [Names -> Seq(Content)]
      BY <2>1 DEF IInv, Types
    <2>3. assets' = [assets EXCEPT ![q] = [assets[q] EXCEPT ![n] = Append(assets[q][n], bytes)]]
      BY <1>1 DEF IInv, Types
    <2>4. QED
      BY <2>2, <2>3 DEF IInv, Types
  <1>5. /\ assets'[q][n] # <<>>
        /\ assets[q][n] # <<>> => Head(assets'[q][n]) = Head(assets[q][n])
    BY <1>2, <1>3, AppendProperties, HeadTailProperties, EmptySeq
  <1>6. \A p \in Runs, m \in Names : p # q \/ m # n => assets'[p][m] = assets[p][m]
    BY <1>1 DEF IInv, Types
  <1>7. Kept
    BY <1>5, <1>6 DEF Kept, OnServer, Present
  <1>8. ASSUME NEW p \in Runs, NEW m \in Names, NEW i \in 1..Len(assets'[p][m]),
               assets'[p][m][i] # Munged
        PROVE  MayStore(m, assets'[p][m][i], OnServer(p)')
    <2>1. CASE p = q /\ m = n /\ i = Len(assets[q][n]) + 1
      <3>1. assets'[p][m][i] = bytes
        BY <1>2, <1>3, <2>1
      <3>2. MayStore(m, bytes, OnServer(p)) /\ OnServer(p) \subseteq OnServer(p)'
        BY <1>1, <1>7, <1>8, <2>1, <3>1 DEF Kept
      <3>3. QED
        BY <3>1, <3>2, MayStoreStays
    <2>2. CASE i \in 1..Len(assets[p][m]) /\ assets'[p][m][i] = assets[p][m][i]
      <3>1. MayStore(m, assets[p][m][i], OnServer(p))
        BY <1>8, <2>2 DEF IInv, StoredOk
      <3>2. OnServer(p) \subseteq OnServer(p)'
        BY <1>7 DEF Kept
      <3>3. QED
        BY <2>2, <3>1, <3>2, MayStoreStays
    <2>3. p # q \/ m # n => <2>2!1
      BY <1>6
    <2>4. p = q /\ m = n => i = Len(assets[q][n]) + 1 \/ <2>2!1
      BY <1>2, <1>3
    <2>5. QED
      BY <2>1, <2>2, <2>3, <2>4
  <1>9. StoredOk'
    BY <1>8 DEF StoredOk
  <1>10. QED
    BY <1>4, <1>5, <1>7, <1>9 DEF ServerOk, Present

\* What a run has in flight may be stored.
LEMMA BodyOk ==
    ASSUME IInv, NEW r \in Runs, NEW n \in InFlight(r)
    PROVE  /\ n \in Names /\ pc[r] = "upload" /\ target[r] \in Runs
           /\ Body(r, n) \in Content /\ MayStore(n, Body(r, n), OnServer(target[r]))
  <1>1. n \in Names /\ task[r][n] = "sent" /\ pc[r] = "upload"
    BY DEF InFlight, IInv, Quiet
  <1>2. dist[r] \in Complete /\ target[r] \in Runs
    BY <1>1 DEF IInv, Chosen, Existing
  <1>3. CASE n = Sums
    <2>1. Built(dist[r]) \subseteq OnServer(target[r])
      BY <1>1, <1>3 DEF IInv, SumsAfter, OkMeansPresent, Built, OnServer, Names
    <2>2. QED
      BY <1>1, <1>2, <1>3, <2>1, SomeContent DEF Body, MayStore
  <1>4. CASE n \in Artifacts
    <2>1. n \in Built(dist[r])
      BY <1>1, <1>4 DEF IInv, Chosen
    <2>2. n # Sums /\ dist[r] \in Dists
      BY <1>2, <1>4, ReleaseAssumption DEF Complete
    <2>3. QED
      BY <1>1, <1>2, <1>4, <2>1, <2>2, SomeContent DEF Body, MayStore
  <1>5. QED
    BY <1>1, <1>3, <1>4 DEF Names

LEMMA LateStays ==
    ASSUME IInv, Kept, NEW r \in Runs,
           late' \subseteq late \cup Held(r, InFlight(r))
    PROVE  late' \subseteq Runs \X Names \X Content /\ LateOk'
  <1>1. ASSUME NEW request \in late'
        PROVE  /\ request \in Runs \X Names \X Content
               /\ MayStore(request[2], request[3], OnServer(request[1]))
    <2>1. CASE request \in late
      BY <2>1 DEF IInv, Types, LateOk
    <2>2. CASE request \in Held(r, InFlight(r))
      <3>1. PICK n \in InFlight(r) : request = <<target[r], n, Body(r, n)>>
        BY <2>2 DEF Held
      <3>2. QED
        BY <3>1, BodyOk
    <2>3. QED
      BY <2>1, <2>2
  <1>2. ASSUME NEW request \in late'
        PROVE  MayStore(request[2], request[3], OnServer(request[1])')
    <2>1. request[1] \in Runs
      BY <1>1
    <2>2. OnServer(request[1]) \subseteq OnServer(request[1])'
      BY <2>1 DEF Kept
    <2>3. QED
      BY <1>1, <2>2, MayStoreStays
  <1>3. LateOk'
    BY <1>2 DEF LateOk
  <1>4. QED
    BY <1>1, <1>3
-----------------------------------------------------------------------------
(* The steps.                                                              *)

\* While run r uploads, or is cut short: nothing else about it changes, or one
\* upload is done, or all are dropped.
Done(r, n) == task' = [task EXCEPT ![r][n] = "ok"] /\ Present(target[r], n)'

LEMMA UploadsIInv ==
    ASSUME IInv, NEW r \in Runs, pc[r] \notin Ended, ServerOk,
           late' \subseteq late \cup Held(r, InFlight(r)),
           retries' \in [Runs -> [Names -> 0..MaxRetries]],
           UNCHANGED releases,
           \/ UNCHANGED <<pc, dist, task, target>>
           \/ UNCHANGED <<pc, dist, target>> /\ \E n \in InFlight(r) : Done(r, n)
           \/ Exit(r)
    PROVE  IInv'
  <1>1. late' \subseteq Runs \X Names \X Content /\ LateOk'
    BY LateStays DEF ServerOk
  <1>2. Kept /\ StoredOk' /\ assets' \in [Runs -> [Names -> Seq(Content)]]
    BY DEF ServerOk
  <1>3. \A q \in Runs, n \in Names : Present(q, n) => Present(q, n)'
    BY <1>2 DEF Kept, OnServer
  <1>4. \A q \in Runs : \A d : Sealed(q, d) => Sealed(q, d)'
    BY <1>2, <1>3 DEF Kept, OnServer, Sealed, Names
  <1>5. /\ Existing' = Existing /\ Published' = Published
        /\ Existing \subseteq Runs /\ Published \subseteq Runs
    BY DEF releases, Existing, Published
  <1>6. UNCHANGED <<status, publisher, contested>>
    BY DEF releases
  <1> USE DEF IInv
  <1>7. CASE UNCHANGED <<pc, dist, task, target>>
    <2>1. Types' /\ Quiet' /\ Chosen' /\ SumsAfter'
      BY <1>1, <1>2, <1>5, <1>6, <1>7 DEF Types, Quiet, Chosen, SumsAfter
    <2>2. OkMeansPresent'
      BY <1>3, <1>5, <1>7 DEF OkMeansPresent, Names, Chosen
    <2>3. Checked'
      BY <1>4, <1>5, <1>7 DEF Checked
    <2>4. PublisherOk'
      BY <1>3, <1>4, <1>5, <1>6, <1>7 DEF PublisherOk, Filled, Built, Names
    <2>5. Unmade'
      BY <1>6, <1>7 DEF Unmade
    <2>6. QED
      BY <1>1, <1>2, <2>1, <2>2, <2>3, <2>4, <2>5
  <1>8. ASSUME UNCHANGED <<pc, dist, target>>, NEW n \in InFlight(r), Done(r, n)
        PROVE  IInv'
    <2> USE <1>8 DEF Done
    <2>1. n \in Names /\ pc[r] = "upload"
      BY DEF InFlight, Quiet
    <2>2. Types'
      BY <1>1, <1>2, <1>6, <2>1 DEF Types
    <2>3. Quiet' /\ SumsAfter'
      BY <2>1 DEF Types, Quiet, SumsAfter, Names
    <2>4. Chosen'
      BY <1>5, <2>1 DEF Types, Chosen, Names
    <2>5. OkMeansPresent'
      BY <1>3, <1>5, <2>1 DEF Types, OkMeansPresent, Chosen, Names
    <2>6. Checked'
      BY <1>4, <1>5, <2>1 DEF Types, Checked
    <2>7. PublisherOk'
      BY <1>3, <1>4, <1>5, <1>6 DEF PublisherOk, Filled, Built, Names
    <2>8. Unmade'
      BY <1>6 DEF Unmade
    <2>9. QED
      BY <1>1, <1>2, <2>2, <2>3, <2>4, <2>5, <2>6, <2>7, <2>8
  <1>9. CASE Exit(r)
    <2> USE <1>9 DEF Exit, Goto
    <2>1. Types'
      BY <1>1, <1>2, <1>6 DEF Types, Ended
    <2>2. Quiet' /\ SumsAfter'
      BY ReleaseAssumption DEF Types, Quiet, SumsAfter, Names
    <2>3. Chosen'
      BY <1>5 DEF Types, Chosen, Names
    <2>4. OkMeansPresent'
      BY <1>3, <1>5 DEF Types, OkMeansPresent, Chosen, Names
    <2>5. Checked'
      BY <1>4, <1>5 DEF Types, Checked
    <2>6. PublisherOk'
      <3>1. ASSUME NEW q \in Published
            PROVE  publisher # r /\ pc'[publisher] = pc[publisher]
                   /\ dist'[publisher] = dist[publisher]
        BY <3>1 DEF Types, PublisherOk
      <3>2. QED
        BY <1>3, <1>4, <1>5, <1>6, <3>1 DEF PublisherOk, Filled, Built, Names
    <2>7. Unmade'
      BY <1>6 DEF Types, Unmade
    <2>8. QED
      BY <1>1, <1>2, <2>1, <2>2, <2>3, <2>4, <2>5, <2>6, <2>7
  <1>10. QED
    BY <1>7, <1>8, <1>9

LEMMA AbortOk ==
    ASSUME IInv, NEW r \in Runs, NEW names, names \subseteq InFlight(r), NEW held,
           held \subseteq Held(r, InFlight(r)), Abort(r, names, held)
    PROVE  /\ late' \subseteq late \cup Held(r, InFlight(r))
           /\ retries' \in [Runs -> [Names -> 0..MaxRetries]]
           /\ Exit(r)
  <1>1. Exit(r) /\ late' \subseteq late \cup Held(r, InFlight(r))
    BY DEF Abort, Held
  <1>2. [n \in Names |-> 0] \in [Names -> 0..MaxRetries]
    BY ReleaseAssumption
  <1>3. QED
    BY <1>1, <1>2 DEF Exit, IInv, Types

\* The two ways a transient error ends.
LEMMA TransientOk ==
    ASSUME IInv, NEW r \in Runs, NEW n \in InFlight(r), NEW held,
           held \subseteq Held(r, {n}), Transient(r, n, held)
    PROVE  /\ late' \subseteq late \cup Held(r, InFlight(r))
           /\ retries' \in [Runs -> [Names -> 0..MaxRetries]]
           /\ UNCHANGED <<pc, dist, task, target>> \/ Exit(r)
  <1>1. held \subseteq Held(r, InFlight(r)) /\ n \in Names
    BY DEF Held, InFlight
  <1>2. CASE retries[r][n] < MaxRetries
    <2>1. retries[r][n] + 1 \in 0..MaxRetries
      BY <1>1, <1>2, ReleaseAssumption DEF IInv, Types
    <2>2. retries' = [retries EXCEPT ![r][n] = retries[r][n] + 1]
      BY <1>2 DEF Transient
    <2>3. retries' \in [Runs -> [Names -> 0..MaxRetries]]
      BY <1>1, <2>1, <2>2 DEF IInv, Types
    <2>4. QED
      BY <1>1, <1>2, <2>3 DEF Transient
  <1>3. CASE ~(retries[r][n] < MaxRetries)
    BY <1>1, <1>3, AbortOk DEF Transient
  <1>4. QED
    BY <1>2, <1>3

\* The steps around the uploads leave all assets alone.
LEMMA Unmoved ==
    ASSUME IInv, UNCHANGED <<assets, late>>
    PROVE  /\ LateOk' /\ StoredOk'
           /\ \A q, n : Present(q, n)' <=> Present(q, n)
           /\ \A q, d : Sealed(q, d)' <=> Sealed(q, d)
  BY DEF IInv, LateOk, StoredOk, OnServer, Present, Sealed

\* They keep what is known of the published release when they concern a run
\* that has not ended.
LEMMA PublisherStays ==
    ASSUME IInv, NEW r \in Runs, UNCHANGED <<assets, late, publisher, contested>>,
           Published' = Published, pc[r] \notin Ended,
           \A q \in Runs \ {r} : pc'[q] = pc[q] /\ dist'[q] = dist[q]
    PROVE  PublisherOk'
  <1>1. ASSUME NEW q \in Published
        PROVE  publisher # r /\ pc'[publisher] = pc[publisher]
               /\ dist'[publisher] = dist[publisher]
    BY <1>1 DEF IInv, Types, PublisherOk
  <1>2. QED
    BY <1>1, Unmoved DEF IInv, PublisherOk, Filled

LEMMA ViewIInv ==
    ASSUME IInv, NEW r \in Runs, View(r)
    PROVE  IInv'
  <1> USE DEF View, Goto, releases
  <1>1. LateOk' /\ StoredOk'
    BY Unmoved
  <1>2. Existing' = Existing /\ Published' = Published
    BY DEF Existing, Published
  <1>3. PublisherOk'
    BY <1>2, PublisherStays DEF IInv, Types, Ended
  <1> USE DEF IInv
  <1>4. Types'
    BY DEF Types, Steps, Ended
  <1>5. Quiet' /\ Chosen' /\ SumsAfter'
    BY <1>2 DEF Types, Quiet, Chosen, SumsAfter
  <1>6. OkMeansPresent'
    BY DEF Types, OkMeansPresent, Present
  <1>7. Checked'
    BY <1>2, Unmoved DEF Types, Checked
  <1>8. Unmade'
    BY DEF Types, Unmade
  <1>9. QED
    BY <1>1, <1>3, <1>4, <1>5, <1>6, <1>7, <1>8

LEMMA CreateIInv ==
    ASSUME IInv, NEW r \in Runs, Create(r)
    PROVE  IInv'
  <1> USE DEF Create, Goto
  <1>1. LateOk' /\ StoredOk'
    BY Unmoved
  <1>2. status[r] # "published" => Published' = Published
    BY DEF Published, IInv, Types
  <1>3. Existing \subseteq Existing'
    BY DEF Existing, IInv, Types
  <1>4. status[r] # "published"
    BY DEF IInv, Unmade
  <1>5. PublisherOk'
    BY <1>2, <1>4, PublisherStays DEF IInv, Types, Ended
  <1> USE DEF IInv
  <1>6. Types'
    BY DEF Types, Steps, Ended
  <1>7. Quiet' /\ Chosen' /\ SumsAfter'
    BY <1>3 DEF Types, Quiet, Chosen, SumsAfter
  <1>8. OkMeansPresent'
    BY DEF Types, OkMeansPresent, Present
  <1>9. Checked'
    BY <1>3, Unmoved DEF Types, Checked
  <1>10. Unmade'
    BY DEF Types, Unmade
  <1>11. QED
    BY <1>1, <1>5, <1>6, <1>7, <1>8, <1>9, <1>10

LEMMA DownloadIInv ==
    ASSUME IInv, NEW r \in Runs, Download(r)
    PROVE  IInv'
  <1> USE DEF Download, Goto, releases
  <1>1. LateOk' /\ StoredOk'
    BY Unmoved
  <1>2. Existing' = Existing /\ Published' = Published
    BY DEF Existing, Published
  <1>3. PublisherOk'
    BY <1>2, PublisherStays DEF IInv, Types, Ended
  <1> USE DEF IInv
  <1>4. Types'
    BY DEF Types, Steps, Ended
  <1>5. Quiet' /\ SumsAfter'
    BY DEF Types, Quiet, SumsAfter
  <1>6. Chosen'
    BY <1>2 DEF Types, Chosen, Complete
  <1>7. OkMeansPresent'
    BY DEF Types, OkMeansPresent, Present
  <1>8. Checked'
    BY <1>2, Unmoved DEF Types, Checked
  <1>9. Unmade'
    BY DEF Types, Unmade
  <1>10. QED
    BY <1>1, <1>3, <1>4, <1>5, <1>6, <1>7, <1>8, <1>9

\* A run that gives up between two uploads only changes its step.
LEMMA FailIInv ==
    ASSUME IInv, NEW r \in Runs, pc[r] \notin Ended,
           pc' = [pc EXCEPT ![r] = "failed"],
           UNCHANGED <<dist, task, retries, target, status, publisher, contested>>,
           UNCHANGED <<assets, late>>, \A n \in Names : task[r][n] # "sent"
    PROVE  IInv'
  <1>1. LateOk' /\ StoredOk'
    BY Unmoved
  <1>2. Existing' = Existing /\ Published' = Published
    BY DEF Existing, Published
  <1>3. PublisherOk'
    BY <1>2, PublisherStays DEF IInv, Types
  <1> USE DEF IInv
  <1>4. Types'
    BY DEF Types, Ended
  <1>5. Quiet' /\ SumsAfter' /\ Unmade'
    BY DEF Types, Quiet, SumsAfter, Unmade
  <1>6. Chosen' /\ OkMeansPresent'
    BY <1>2 DEF Types, Chosen, OkMeansPresent, Present
  <1>7. Checked'
    BY <1>2, Unmoved DEF Types, Checked
  <1>8. QED
    BY <1>1, <1>3, <1>4, <1>5, <1>6, <1>7

LEMMA SnapshotIInv ==
    ASSUME IInv, NEW r \in Runs, Snapshot(r)
    PROVE  IInv'
  <1>1. PICK q \in Existing :
            IF status[q] = "draft"
            THEN /\ Goto(r, "upload")
                 /\ target' = [target EXCEPT ![r] = q]
                 /\ task' = [task EXCEPT ![r] =
                      [n \in Names |->
                         IF Present(q, n) \/ n \in Artifacts \ Built(dist[r])
                         THEN "ok" ELSE "queued"]]
            ELSE Goto(r, "failed") /\ UNCHANGED <<target, task>>
    BY DEF Snapshot
  <1>2. /\ pc[r] = "snapshot" /\ q \in Runs
        /\ UNCHANGED <<dist, retries, status, publisher, contested, assets, late>>
    BY DEF Snapshot, releases, Existing
  <1>3. CASE status[q] # "draft"
    <2>1. \A n \in Names : task[r][n] # "sent"
      BY <1>2 DEF IInv, Quiet
    <2>2. QED
      BY <1>1, <1>2, <1>3, <2>1, FailIInv DEF Goto, Ended
  <1>4. CASE status[q] = "draft"
    <2> DEFINE found == [n \in Names |->
                           IF Present(q, n) \/ n \in Artifacts \ Built(dist[r])
                           THEN "ok" ELSE "queued"]
    <2>1. /\ found \in [Names -> {"queued", "sent", "ok"}]
          /\ \A n \in Names : found[n] # "sent" /\
                (found[n] = "ok" <=> Present(q, n) \/ n \in Artifacts \ Built(dist[r]))
      OBVIOUS
    <2>2. /\ pc' = [pc EXCEPT ![r] = "upload"]
          /\ task' = [task EXCEPT ![r] = found]
          /\ target' = [target EXCEPT ![r] = q]
      BY <1>1, <1>4 DEF Goto
    <2> HIDE DEF found
    <2>3. LateOk' /\ StoredOk'
      BY <1>2, Unmoved
    <2>4. Existing' = Existing /\ Published' = Published
      BY <1>2 DEF Existing, Published
    <2>5. PublisherOk'
      BY <1>2, <2>2, <2>4, PublisherStays DEF IInv, Types, Ended
    <2> USE DEF IInv
    <2>6. Types'
      BY <1>2, <2>1, <2>2 DEF Types, Steps
    <2>7. Quiet' /\ Unmade'
      BY <1>2, <2>1, <2>2 DEF Types, Quiet, Unmade
    <2>8. SumsAfter'
      <3>1. \A p \in Runs \ {r} : task'[p] = task[p]
        BY <2>2 DEF Types
      <3>2. task'[r][Sums] # "sent"
        BY <2>1, <2>2 DEF Types, Names
      <3>3. QED
        BY <3>1, <3>2 DEF SumsAfter
    <2>9. Chosen'
      BY <1>2, <2>1, <2>2, <2>4 DEF Types, Chosen, Names
    <2>10. OkMeansPresent'
      BY <1>2, <2>1, <2>2 DEF Types, OkMeansPresent, Present, Names
    <2>11. Checked'
      BY <1>2, <2>2, <2>4, Unmoved DEF Types, Checked
    <2>12. QED
      BY <2>3, <2>5, <2>6, <2>7, <2>8, <2>9, <2>10, <2>11
  <1>5. QED
    BY <1>3, <1>4

LEMMA StartIInv ==
    ASSUME IInv, NEW r \in Runs, NEW n \in Names, Start(r, n)
    PROVE  IInv'
  <1> USE DEF Start, releases
  <1>1. LateOk' /\ StoredOk'
    BY Unmoved
  <1>2. Existing' = Existing /\ Published' = Published
    BY DEF Existing, Published
  <1>3. PublisherOk'
    BY <1>2, PublisherStays DEF IInv, Types, Ended
  <1> USE DEF IInv
  <1>4. Types'
    BY DEF Types
  <1>5. Quiet'
    BY DEF Types, Quiet
  <1>6. Chosen'
    BY <1>2 DEF Types, Chosen, Names
  <1>7. SumsAfter'
    BY ReleaseAssumption DEF Types, SumsAfter, Names
  <1>8. OkMeansPresent'
    BY DEF Types, OkMeansPresent, Present, Names
  <1>9. Checked'
    BY <1>2, Unmoved DEF Types, Checked
  <1>10. Unmade'
    BY DEF Types, Unmade
  <1>11. QED
    BY <1>1, <1>3, <1>4, <1>5, <1>6, <1>7, <1>8, <1>9, <1>10

LEMMA LateStoreIInv ==
    ASSUME IInv, NEW q \in Runs, NEW n \in Names, NEW body \in Content,
           LateStore(q, n, body)
    PROVE  IInv'
  <1>1. MayStore(n, body, OnServer(q))
    BY DEF LateStore, IInv, LateOk
  <1>2. ServerOk
    BY <1>1, StoreOk, SameAssets DEF LateStore
  <1>3. Kept
    BY <1>2 DEF ServerOk
  <1>4. late' \subseteq Runs \X Names \X Content /\ LateOk'
    <2>1. late' \subseteq late
      BY DEF LateStore
    <2>2. ASSUME NEW request \in late'
          PROVE  MayStore(request[2], request[3], OnServer(request[1])')
      <3>1. /\ request[1] \in Runs
            /\ MayStore(request[2], request[3], OnServer(request[1]))
        BY <2>1 DEF IInv, Types, LateOk
      <3>2. OnServer(request[1]) \subseteq OnServer(request[1])'
        BY <1>3, <3>1 DEF Kept
      <3>3. QED
        BY <3>1, <3>2, MayStoreStays
    <2>3. QED
      BY <2>1, <2>2 DEF IInv, Types, LateOk
  <1>5. UNCHANGED <<pc, dist, task, retries, target, status, publisher, contested>>
    BY DEF LateStore, client, releases
  <1>6. \A p \in Runs, m \in Names : Present(p, m) => Present(p, m)'
    BY <1>3 DEF Kept, OnServer
  <1>7. \A p \in Runs : \A d : Sealed(p, d) => Sealed(p, d)'
    BY <1>3, <1>6 DEF Kept, OnServer, Sealed, Names
  <1>8. Existing' = Existing /\ Published' = Published
        /\ Existing \subseteq Runs /\ Published \subseteq Runs
    BY <1>5 DEF Existing, Published
  <1> USE DEF IInv
  <1>9. Types' /\ Quiet' /\ Chosen' /\ SumsAfter'
    BY <1>2, <1>4, <1>5, <1>8 DEF ServerOk, Types, Quiet, Chosen, SumsAfter
  <1>10. OkMeansPresent'
    BY <1>5, <1>6, <1>8 DEF OkMeansPresent, Chosen, Names
  <1>11. Checked'
    BY <1>5, <1>7, <1>8 DEF Checked
  <1>12. PublisherOk'
    BY <1>5, <1>6, <1>7, <1>8 DEF PublisherOk, Filled, Built, Names
  <1>13. Unmade'
    BY <1>5 DEF Unmade
  <1>14. QED
    BY <1>2, <1>4, <1>9, <1>10, <1>11, <1>12, <1>13 DEF ServerOk

LEMMA CheckIInv ==
    ASSUME IInv, NEW r \in Runs, Check(r)
    PROVE  IInv'
  <1>1. PICK q \in Existing :
            Goto(r, IF /\ status[q] = "draft"
                       /\ Present(q, Sums)
                       /\ Head(assets[q][Sums]) = dist[r]
                    THEN "finalize" ELSE "failed")
    BY DEF Check
  <1>2. /\ pc[r] = "upload" /\ \A n \in Names : task[r][n] = "ok"
        /\ UNCHANGED <<dist, task, retries, target, status, publisher, contested, assets, late>>
    BY DEF Check, releases
  <1>3. \/ pc' = [pc EXCEPT ![r] = "finalize"] /\ Sealed(q, dist[r])
        \/ pc' = [pc EXCEPT ![r] = "failed"]
    BY <1>1 DEF Goto, Sealed
  <1>4. LateOk' /\ StoredOk'
    BY <1>2, Unmoved
  <1>5. Existing' = Existing /\ Published' = Published
    BY <1>2 DEF Existing, Published
  <1>6. PublisherOk'
    BY <1>2, <1>3, <1>5, PublisherStays DEF IInv, Types, Ended
  <1> USE DEF IInv
  <1>7. Types'
    BY <1>2, <1>3 DEF Types, Steps, Ended
  <1>8. Quiet' /\ SumsAfter'
    BY <1>2, <1>3 DEF Types, Quiet, SumsAfter
  <1>9. Chosen'
    BY <1>2, <1>3, <1>5 DEF Types, Chosen
  <1>10. OkMeansPresent'
    BY <1>2, <1>3 DEF Types, OkMeansPresent, Present
  <1>11. Checked'
    BY <1>2, <1>3, <1>5, Unmoved DEF Types, Checked
  <1>12. Unmade'
    BY <1>2, <1>3 DEF Types, Unmade
  <1>13. QED
    BY <1>4, <1>6, <1>7, <1>8, <1>9, <1>10, <1>11, <1>12

\* The release that is published when there is only one is the one that its
\* publisher filled and checked.
LEMMA FinalizeIInv ==
    ASSUME IInv, NEW r \in Runs, Finalize(r)
    PROVE  IInv'
  <1>1. /\ pc[r] = "finalize" /\ r \in Runs
        /\ UNCHANGED <<dist, task, retries, target, assets, late>>
        /\ \E label \in Ended : pc' = [pc EXCEPT ![r] = label]
    BY DEF Finalize, Goto, Ended
  <1>2. LateOk' /\ StoredOk'
    BY <1>1, Unmoved
  <1>3. \/ UNCHANGED releases
        \/ /\ Published = {} /\ publisher' = r
           /\ \E q \in Existing : /\ status' = [status EXCEPT ![q] = "published"]
                                  /\ contested' = (Existing # {q})
    BY DEF Finalize
  <1>4. Existing' = Existing
    <2>1. CASE UNCHANGED releases
      BY <2>1 DEF releases, Existing
    <2>2. ASSUME NEW q \in Existing, status' = [status EXCEPT ![q] = "published"]
          PROVE  Existing' = Existing
      BY <2>2 DEF Existing, IInv, Types
    <2>3. QED
      BY <1>3, <2>1, <2>2
  <1>5. PublisherOk'
    <2>1. CASE UNCHANGED releases
      <3>1. Published' = Published /\ UNCHANGED <<publisher, contested>>
        BY <2>1 DEF releases, Published
      <3>2. QED
        BY <1>1, <3>1, PublisherStays DEF IInv, Types, Ended
    <2>2. ASSUME Published = {}, publisher' = r, NEW q \in Existing,
                 status' = [status EXCEPT ![q] = "published"],
                 contested' = (Existing # {q})
          PROVE  PublisherOk'
      <3>1. Published' = {q}
        BY <2>2 DEF Published, Existing, IInv, Types
      <3>2. pc'[r] \in Ended
        BY <1>1 DEF IInv, Types
      <3>3. ASSUME Existing = {q} PROVE Filled(q, r)
        <4>1. dist[r] \in Complete /\ target[r] = q
          BY <1>1, <3>3 DEF IInv, Chosen
        <4>2. \A n \in Built(dist[r]) : Present(q, n)
          BY <1>1, <4>1 DEF IInv, Checked, OkMeansPresent, Built, Names
        <4>3. Sealed(q, dist[r])
          BY <1>1, <3>3 DEF IInv, Checked
        <4>4. QED
          BY <4>1, <4>2, <4>3 DEF Filled
      <3>4. Filled(q, r)' <=> Filled(q, r)
        BY <1>1, Unmoved DEF Filled
      <3>5. ~contested' => Existing = {q}
        BY <2>2
      <3>6. QED
        BY <2>2, <3>1, <3>2, <3>3, <3>4, <3>5 DEF PublisherOk
    <2>3. QED
      BY <1>3, <2>1, <2>2
  <1> USE DEF IInv
  <1>6. Types'
    <2>1. CASE UNCHANGED releases
      BY <1>1, <2>1 DEF releases, Types, Ended
    <2>2. ASSUME publisher' = r, NEW q \in Existing,
                 status' = [status EXCEPT ![q] = "published"],
                 contested' = (Existing # {q})
          PROVE  Types'
      BY <1>1, <2>2 DEF Types, Ended
    <2>3. QED
      BY <1>3, <2>1, <2>2
  <1>7. Quiet' /\ SumsAfter'
    BY <1>1 DEF Types, Quiet, SumsAfter, Ended
  <1>8. Chosen'
    BY <1>1, <1>4 DEF Types, Chosen, Ended
  <1>9. OkMeansPresent'
    BY <1>1 DEF Types, OkMeansPresent, Present, Ended
  <1>10. Checked'
    BY <1>1, <1>4, Unmoved DEF Types, Checked, Ended
  <1>11. Unmade'
    <2>1. CASE UNCHANGED releases
      BY <1>1, <2>1 DEF releases, Types, Unmade, Ended
    <2>2. ASSUME NEW q \in Existing, status' = [status EXCEPT ![q] = "published"]
          PROVE  Unmade'
      BY <1>1, <2>2 DEF Types, Unmade, Existing, Ended
    <2>3. QED
      BY <1>3, <2>1, <2>2
  <1>12. QED
    BY <1>2, <1>5, <1>6, <1>7, <1>8, <1>9, <1>10, <1>11

LEMMA UploadIInv ==
    ASSUME IInv, NEW r \in Runs, NEW n \in InFlight(r),
           \/ Uploaded(r, n) \/ ResponseLost(r, n) \/ Refused(r, n)
           \/ TimedOut(r, n) \/ Rejected(r, n)
    PROVE  IInv'
  <1>1. /\ n \in Names /\ pc[r] = "upload" /\ target[r] \in Runs
        /\ Body(r, n) \in Content /\ MayStore(n, Body(r, n), OnServer(target[r]))
    BY BodyOk
  <1>2. pc[r] \notin Ended
    BY <1>1 DEF Ended
  <1>3. CASE Uploaded(r, n)
    <2>1. ServerOk /\ Present(target[r], n)' /\ target' = target
      BY <1>1, <1>3, StoreOk DEF Uploaded, Present
    <2>2. retries' \in [Runs -> [Names -> 0..MaxRetries]]
      BY <1>1, <1>3, ReleaseAssumption DEF Uploaded, IInv, Types
    <2>3. Done(r, n) /\ UNCHANGED <<pc, dist, target>> /\ UNCHANGED releases
      BY <1>3, <2>1 DEF Uploaded, Done, Present
    <2>4. late' \subseteq late \cup Held(r, InFlight(r))
      BY <1>3 DEF Uploaded
    <2>5. QED
      BY <1>2, <2>1, <2>2, <2>3, <2>4, UploadsIInv
  <1>4. CASE ResponseLost(r, n)
    <2>1. ServerOk
      BY <1>1, <1>4, StoreOk DEF ResponseLost
    <2>2. QED
      BY <1>2, <1>4, <2>1, TransientOk, UploadsIInv DEF ResponseLost
  <1>5. CASE Refused(r, n)
    BY <1>2, <1>5, SameAssets, TransientOk, UploadsIInv DEF Refused
  <1>6. CASE TimedOut(r, n)
    <2>1. {<<target[r], n, Body(r, n)>>} \subseteq Held(r, {n})
      BY DEF Held
    <2>2. QED
      BY <1>2, <1>6, <2>1, SameAssets, TransientOk, UploadsIInv DEF TimedOut
  <1>7. CASE Rejected(r, n)
    <2>1. /\ late' \subseteq late \cup Held(r, InFlight(r))
          /\ retries' \in [Runs -> [Names -> 0..MaxRetries]]
          /\ Exit(r)
      BY <1>7, AbortOk, {} \subseteq Held(r, InFlight(r)) DEF Rejected
    <2>2. QED
      BY <1>2, <1>7, <2>1, SameAssets, UploadsIInv DEF Rejected
  <1>8. QED
    BY <1>3, <1>4, <1>5, <1>6, <1>7

LEMMA StepIInv == IInv /\ [Next]_vars => IInv'
  <1> SUFFICES ASSUME IInv, [Next]_vars PROVE IInv'
    OBVIOUS
  <1>1. ASSUME NEW r \in Runs, View(r) \/ Create(r) \/ Download(r) \/ Snapshot(r)
        PROVE  IInv'
    BY <1>1, ViewIInv, CreateIInv, DownloadIInv, SnapshotIInv
  <1>2. ASSUME NEW r \in Runs, NEW n \in Names, Upload(r, n) PROVE IInv'
    <2>1. CASE Start(r, n)
      BY <2>1, StartIInv
    <2>2. CASE ~Start(r, n)
      BY <1>2, <2>2, UploadIInv
      DEF Upload, Uploaded, ResponseLost, Refused, TimedOut, Rejected
    <2>3. QED
      BY <2>1, <2>2
  <1>3. ASSUME NEW r \in Runs, Check(r) \/ Finalize(r) PROVE IInv'
    BY <1>3, CheckIInv, FinalizeIInv
  <1>4. ASSUME NEW r \in Runs, Crash(r) PROVE IInv'
    BY <1>4, SameAssets, AbortOk, UploadsIInv DEF Crash
  <1>5. ASSUME NEW q \in Runs, NEW n \in Names, NEW body \in Content,
               LateStore(q, n, body)
        PROVE  IInv'
    BY <1>5, LateStoreIInv
  <1>6. CASE UNCHANGED vars
    <2> USE <1>6 DEF vars, client, releases, IInv
    <2>1. Existing' = Existing /\ Published' = Published
      BY DEF Existing, Published
    <2>2. Types' /\ Quiet' /\ Chosen' /\ SumsAfter' /\ Unmade'
      BY <2>1 DEF Types, Quiet, Chosen, SumsAfter, Unmade
    <2>3. OkMeansPresent'
      BY DEF OkMeansPresent, Present
    <2>4. Checked' /\ PublisherOk'
      BY <2>1, Unmoved DEF Checked, PublisherOk, Filled
    <2>5. LateOk' /\ StoredOk'
      BY Unmoved
    <2>6. QED
      BY <2>2, <2>3, <2>4, <2>5
  <1>7. QED
    BY <1>1, <1>2, <1>3, <1>4, <1>5, <1>6 DEF Next, Step

LEMMA SpecIInv == Spec => []IInv
  BY InitIInv, StepIInv, PTL DEF Spec

-----------------------------------------------------------------------------
\* SHA256SUMS is never in a release before the distributions it lists,
\* whatever is retried, answered late, cut short or run twice.
THEOREM SumsLastHolds == Spec => []SumsLast
  <1>1. IInv => SumsLast
    <2> SUFFICES ASSUME IInv, NEW q \in Runs, NEW i \in 1..Len(assets[q][Sums]),
                        assets[q][Sums][i] \in Dists
                 PROVE  \A n \in Built(assets[q][Sums][i]) : Present(q, n)
      BY DEF SumsLast
    <2>1. MayStore(Sums, assets[q][Sums][i], OnServer(q))
      BY ReleaseAssumption DEF IInv, StoredOk, Names
    <2>2. QED
      BY <2>1 DEF MayStore, OnServer
  <1>2. QED
    BY SpecIInv, <1>1, PTL

\* A release that was published while the tag had no other draft has every
\* distribution of its publisher, and the SHA256SUMS that this run computed,
\* although any run may make a draft between two steps of another.
THEOREM PublishedCheckedHolds == Spec => []PublishedChecked
  <1>1. IInv => PublishedChecked
    BY DEF IInv, PublishedChecked, PublisherOk, Filled, Sealed
  <1>2. QED
    BY SpecIInv, <1>1, PTL

-----------------------------------------------------------------------------
(* The window, which needs that there are finitely many names.             *)

InWindow == \A r \in Runs : Cardinality(InFlight(r)) <= Window

LEMMA InFlightFinite == \A r \in Runs : IsFiniteSet(InFlight(r))
  <1>1. IsFiniteSet(Names)
    BY ReleaseAssumption, FS_AddElement DEF Names
  <1>2. QED
    BY <1>1, FS_Subset DEF InFlight

\* Only Start adds an upload.
LEMMA FewerInFlight ==
    ASSUME IInv, [Next]_vars, NEW q \in Runs, \A n \in Names : ~Start(q, n)
    PROVE  InFlight(q)' \subseteq InFlight(q)
  <1>1. ASSUME NEW r \in Runs, UNCHANGED task \/ Exit(r)
        PROVE  InFlight(q)' \subseteq InFlight(q)
    <2>1. CASE UNCHANGED task
      BY <2>1 DEF InFlight
    <2>2. CASE Exit(r)
      <3>1. task' = [task EXCEPT ![r] = [n \in Names |-> "queued"]]
        BY <2>2 DEF Exit
      <3>2. q = r => \A n \in Names : task'[q][n] = "queued"
        BY <3>1 DEF IInv, Types
      <3>3. q # r => task'[q] = task[q]
        BY <3>1 DEF IInv, Types
      <3>4. QED
        BY <3>2, <3>3 DEF InFlight
    <2>3. QED
      BY <1>1, <2>1, <2>2
  <1>2. ASSUME NEW r \in Runs, Snapshot(r) PROVE InFlight(q)' \subseteq InFlight(q)
    <2>1. PICK p \in Existing :
              \/ task' = [task EXCEPT ![r] =
                   [n \in Names |->
                      IF Present(p, n) \/ n \in Artifacts \ Built(dist[r])
                      THEN "ok" ELSE "queued"]]
              \/ task' = task
      BY <1>2 DEF Snapshot
    <2>2. QED
      BY <2>1 DEF InFlight, IInv, Types
  <1>3. ASSUME NEW r \in Runs, NEW n \in Names, Uploaded(r, n)
        PROVE  InFlight(q)' \subseteq InFlight(q)
    BY <1>3 DEF Uploaded, InFlight, IInv, Types
  <1>4. ASSUME NEW r \in Runs, NEW n \in Names,
               ResponseLost(r, n) \/ Refused(r, n) \/ TimedOut(r, n)
        PROVE  UNCHANGED task \/ Exit(r)
    <2>1. n \in InFlight(r) /\ \E held \in SUBSET Held(r, {n}) : Transient(r, n, held)
      BY <1>4 DEF ResponseLost, Refused, TimedOut, Held
    <2>2. QED
      BY <2>1, TransientOk
  <1>5. ASSUME NEW r \in Runs, NEW n \in Names, Rejected(r, n) PROVE Exit(r)
    BY <1>5 DEF Rejected, Abort
  <1>6. ASSUME NEW r \in Runs, Crash(r) PROVE Exit(r)
    BY <1>6 DEF Crash, Abort
  <1>7. ASSUME NEW r \in Runs, NEW n \in Names, r # q, Start(r, n)
        PROVE  InFlight(q)' \subseteq InFlight(q)
    BY <1>7 DEF Start, InFlight, IInv, Types
  <1>8. ASSUME NEW r \in Runs,
               View(r) \/ Create(r) \/ Download(r) \/ Check(r) \/ Finalize(r)
        PROVE  UNCHANGED task
    BY <1>8 DEF View, Create, Download, Check, Finalize
  <1>9. ASSUME \/ \E p \in Runs, n \in Names, body \in Content : LateStore(p, n, body)
               \/ UNCHANGED vars
        PROVE  InFlight(q)' \subseteq InFlight(q)
    BY <1>9 DEF LateStore, client, vars, InFlight
  <1>10. QED
    BY <1>1, <1>2, <1>3, <1>4, <1>5, <1>6, <1>7, <1>8, <1>9 DEF Next, Step, Upload

LEMMA StepInWindow == IInv /\ InWindow /\ [Next]_vars => InWindow'
  <1> SUFFICES ASSUME IInv, InWindow, [Next]_vars, NEW q \in Runs
               PROVE  Cardinality(InFlight(q)') <= Window
    BY DEF InWindow
  <1>1. CASE \E n \in Names : Start(q, n)
    <2>1. PICK n \in Names : Start(q, n)
      BY <1>1
    <2>2. InFlight(q)' = InFlight(q) \cup {n} /\ n \notin InFlight(q)
      BY <2>1 DEF Start, InFlight, IInv, Types
    <2>3. /\ Cardinality(InFlight(q)') = Cardinality(InFlight(q)) + 1
          /\ Cardinality(InFlight(q)) \in Nat
      BY <2>2, InFlightFinite, FS_AddElement, FS_CardinalityType
    <2>4. Cardinality(InFlight(q)) < Window
      BY <2>1 DEF Start
    <2>5. QED
      BY <2>3, <2>4, ReleaseAssumption
  <1>2. CASE ~\E n \in Names : Start(q, n)
    <2>1. InFlight(q)' \subseteq InFlight(q)
      BY <1>2, FewerInFlight
    <2>2. /\ Cardinality(InFlight(q)') <= Cardinality(InFlight(q))
          /\ Cardinality(InFlight(q)) \in Nat /\ Cardinality(InFlight(q)') \in Nat
      BY <2>1, InFlightFinite, FS_Subset, FS_CardinalityType
    <2>3. QED
      BY <2>2, ReleaseAssumption DEF InWindow
  <1>3. QED
    BY <1>1, <1>2

\* The variables hold what the code can put there, no upload is tried more
\* often than allowed, and no more are in flight than the window admits.
THEOREM TypeCorrect == Spec => []TypeOK
  <1>1. Init => InWindow
    <2> SUFFICES ASSUME Init, NEW r \in Runs
                 PROVE  Cardinality(InFlight(r)) <= Window
      BY DEF InWindow
    <2>1. InFlight(r) = {}
      BY DEF Init, InFlight
    <2>2. QED
      BY <2>1, FS_EmptySet, ReleaseAssumption
  <1>2. IInv /\ InWindow => TypeOK
    BY DEF IInv, Types, InWindow, TypeOK
  <1>3. QED
    BY SpecIInv, StepInWindow, <1>1, <1>2, PTL DEF Spec

-----------------------------------------------------------------------------
(* The refinement of Publication, with a server that keeps names unique    *)
(* and runs that insist on every file.                                     *)

Strict == RejectsDuplicates /\ ~IgnoreMissing
OneEach == \A q \in Runs, n \in Names : Len(assets[q][n]) <= 1

\* What a step may do to the assets.
AddsOne ==
    \E q \in Runs, n \in Names, bytes \in Content :
        Accepts(q, n) /\ assets' = [assets EXCEPT ![q][n] = Append(@, bytes)]

LEMMA StoreAddsOne ==
    ASSUME NEW q \in Runs, NEW n \in Names, NEW body \in Content, Accepts(q, n),
           Store(q, n, body)
    PROVE  AddsOne
  BY SomeContent DEF Store, AddsOne

LEMMA AssetsStep == IInv /\ [Next]_vars => assets' = assets \/ AddsOne
  <1> SUFFICES ASSUME IInv, [Next]_vars PROVE assets' = assets \/ AddsOne
    OBVIOUS
  <1>1. ASSUME NEW r \in Runs, NEW n \in Names, Uploaded(r, n) \/ ResponseLost(r, n)
        PROVE  AddsOne
    BY <1>1, BodyOk, StoreAddsOne DEF Uploaded, ResponseLost
  <1>2. ASSUME NEW q \in Runs, NEW n \in Names, NEW body \in Content,
               LateStore(q, n, body)
        PROVE  assets' = assets \/ AddsOne
    BY <1>2, StoreAddsOne DEF LateStore
  <1>3. ASSUME NEW r \in Runs, NEW n \in Names,
               Start(r, n) \/ Refused(r, n) \/ TimedOut(r, n) \/ Rejected(r, n)
        PROVE  assets' = assets
    BY <1>3 DEF Start, Refused, TimedOut, Rejected
  <1>4. ASSUME NEW r \in Runs,
               \/ View(r) \/ Create(r) \/ Download(r) \/ Snapshot(r)
               \/ Check(r) \/ Finalize(r) \/ Crash(r)
        PROVE  assets' = assets
    BY <1>4 DEF View, Create, Download, Snapshot, Check, Finalize, Crash
  <1>5. QED
    BY <1>1, <1>2, <1>3, <1>4 DEF Next, Step, Upload, vars

LEMMA StepOneEach == Strict /\ IInv /\ OneEach /\ [Next]_vars => OneEach'
  <1> SUFFICES ASSUME Strict, IInv, OneEach, AddsOne PROVE OneEach'
    BY AssetsStep DEF OneEach
  <1>1. PICK q \in Runs, n \in Names, bytes \in Content :
            Accepts(q, n) /\ assets' = [assets EXCEPT ![q][n] = Append(@, bytes)]
    BY DEF AddsOne
  <1>2. assets[q][n] = <<>>
    BY <1>1 DEF Accepts, Strict, Present
  <1>3. Len(assets'[q][n]) <= 1
    BY <1>1, <1>2 DEF IInv, Types
  <1>4. \A p \in Runs, m \in Names : p # q \/ m # n => assets'[p][m] = assets[p][m]
    BY <1>1 DEF IInv, Types
  <1>5. ASSUME NEW p \in Runs, NEW m \in Names PROVE Len(assets'[p][m]) <= 1
    <2>1. CASE p = q /\ m = n
      BY <1>3, <2>1
    <2>2. CASE p # q \/ m # n
      BY <1>4, <2>2 DEF OneEach
    <2>3. QED
      BY <2>1, <2>2
  <1>6. QED
    BY <1>5 DEF OneEach

\* In a published release that was not contested every name is taken.
LEMMA AllTaken ==
    ASSUME Strict, IInv, NEW q \in Published, ~contested
    PROVE  /\ \A n \in Names : Present(q, n)
           /\ dist[publisher] \in Dists /\ Built(dist[publisher]) = Artifacts
           /\ Head(assets[q][Sums]) = dist[publisher]
  <1>1. Filled(q, publisher)
    BY DEF IInv, PublisherOk
  <1>2. dist[publisher] \in Dists /\ Built(dist[publisher]) = Artifacts
    BY <1>1 DEF Filled, Complete, Strict
  <1>3. QED
    BY <1>1, <1>2 DEF Filled, Sealed, Names

Released ==
    {f \in [Names -> Seq(Content)] :
        /\ \A n \in Artifacts : f[n] \in Publishable(n)
        /\ \E d \in Dists : Built(d) = Artifacts /\ f[Sums] = <<d>>}

LEMMA OneElement ==
    ASSUME NEW S, NEW seq \in Seq(S), seq # <<>>, Len(seq) <= 1
    PROVE  1 \in 1..Len(seq) /\ seq = <<seq[1]>> /\ seq = <<Head(seq)>>
  <1>1. Len(seq) = 1
    <2>1. Len(seq) # 0
      BY EmptySeq
    <2>2. Len(seq) \in Nat
      BY LenProperties
    <2>3. QED
      BY <2>1, <2>2
  <1>2. seq[1] \in S /\ Head(seq) = seq[1]
    BY <1>1
  <1>3. seq = <<seq[1]>>
    BY <1>1, <1>2, SeqEqual
  <1>4. QED
    BY <1>1, <1>2, <1>3

LEMMA ReleasedWhole ==
    ASSUME Strict, IInv, OneEach, NEW q \in Published, ~contested
    PROVE  assets[q] \in Released
  <1>1. q \in Runs /\ assets[q] \in [Names -> Seq(Content)]
    BY DEF IInv, Types, Published
  <1>2. ASSUME NEW n \in Artifacts PROVE assets[q][n] \in Publishable(n)
    <2>1. 1 \in 1..Len(assets[q][n]) /\ assets[q][n] = <<assets[q][n][1]>>
      BY <1>1, AllTaken, OneElement DEF OneEach, Present, Names
    <2>2. n # Sums /\ n \in Names
      BY ReleaseAssumption DEF Names
    <2>3. \/ assets[q][n][1] = Munged
          \/ \E d \in Dists : n \in Built(d) /\ assets[q][n][1] = d[n]
      BY <1>1, <2>1, <2>2 DEF IInv, StoredOk, MayStore
    <2>4. QED
      BY <2>1, <2>3 DEF Publishable
  <1>3. assets[q][Sums] = <<dist[publisher]>>
    BY <1>1, AllTaken, OneElement DEF OneEach, Present, Names
  <1>4. QED
    BY <1>1, <1>2, <1>3, AllTaken DEF Released

\* What is published stays published, and uncontested: only the first
\* publication writes the history.
LEMMA PublishedStays ==
    ASSUME IInv, [Next]_vars, NEW q \in Published
    PROVE  UNCHANGED <<Published, contested>>
  <1>1. UNCHANGED <<status, contested>> => UNCHANGED <<Published, contested>>
    BY DEF Published
  <1>2. ASSUME NEW r \in Runs, Create(r) PROVE UNCHANGED <<Published, contested>>
    BY <1>2 DEF Create, Published, IInv, Types, Unmade
  <1>3. ASSUME NEW r \in Runs, Step(r) \/ Crash(r), ~Create(r)
        PROVE  UNCHANGED <<status, contested>>
    <2>1. CASE \E n \in Names : Upload(r, n)
      BY <2>1
      DEF Upload, Start, Uploaded, ResponseLost, Refused, TimedOut, Rejected, releases
    <2>2. CASE Finalize(r)
      BY <2>2 DEF Finalize, releases
    <2>3. QED
      BY <1>3, <2>1, <2>2 DEF Step, View, Download, Snapshot, Check, Crash, releases
  <1>4. QED
    BY <1>1, <1>2, <1>3 DEF Next, LateStore, vars, releases

\* A user of the tag sees nothing, and then one complete release, for good,
\* unless two runs had made a draft each when one was published.
THEOREM PublishesAtomicallyHolds == Strict /\ Spec => PublishesAtomically
  <1> DEFINE Ready == Strict /\ IInv /\ OneEach
  <1>1. Init => Pub!Init /\ OneEach
    BY DEF Init, OneEach, Pub!Init, Visible, Published
  <1>2. Ready => Visible = Unset \/ Visible \in Released
    <2> SUFFICES ASSUME Ready, ~(Published = {} \/ contested)
                 PROVE  Visible \in Released
      BY DEF Visible
    <2>1. (CHOOSE q \in Published : TRUE) \in Published
      OBVIOUS
    <2>2. QED
      BY <2>1, ReleasedWhole DEF Visible
  <1>3. (Ready => Visible = Unset \/ Visible \in Released)'
    BY <1>2, PTL
  <1>4. Ready /\ Ready' /\ [Next]_vars
            => (Visible = Unset /\ Visible' \in Released) \/ Visible' = Visible
    <2> SUFFICES ASSUME Ready, Ready', [Next]_vars
                 PROVE  (Visible = Unset /\ Visible' \in Released) \/ Visible' = Visible
      OBVIOUS
    <2>1. Visible' = Unset \/ Visible' \in Released
      BY <1>3 DEF Released
    <2>2. CASE Published = {}
      BY <2>1, <2>2 DEF Visible
    <2>3. CASE Published # {}
      <3>1. PICK q \in Published : TRUE
        BY <2>3
      <3>2. Published = {q} /\ q \in Runs
        BY <3>1 DEF IInv, PublisherOk, Published
      <3>3. Published' = Published /\ contested' = contested
        BY <3>1, PublishedStays
      <3>4. CASE contested
        BY <3>3, <3>4 DEF Visible
      <3>5. CASE ~contested
        <4>1. assets'[q] = assets[q]
          BY <3>2, <3>5, AllTaken, AssetsStep DEF AddsOne, Accepts, Strict, IInv, Types
        <4>2. Visible = assets[q] /\ Visible' = assets'[q]
          BY <3>2, <3>3, <3>5 DEF Visible
        <4>3. QED
          BY <4>1, <4>2
      <3>6. QED
        BY <3>4, <3>5
    <2>4. QED
      BY <2>2, <2>3
  <1>5. Ready /\ Ready' /\ [Next]_vars => [Pub!Publish]_Visible
    BY <1>4 DEF Pub!Publish, Released
  <1>6. Strict => Strict'
    BY DEF Strict
  <1>7. QED
    BY <1>1, <1>5, <1>6, SpecIInv, StepOneEach, PTL
    DEF Spec, PublishesAtomically, Pub!Spec
=============================================================================
