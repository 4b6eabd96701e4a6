----------------------------- MODULE ModelFiles -----------------------------
(***************************************************************************)
(* The model directory and the hashes in the bundle's manifest, between    *)
(* `fetch-model` (fetch.py) and a starting server (read_manifest and       *)
(* _build_nli in inference/registry.py, load in backends/nli.py).          *)
(* fetch-model downloads file by file and then rewrites the manifest in    *)
(* place; the server reads the manifest, later verifies the files it       *)
(* vouches for one after the other, and then opens them one after the      *)
(* other. Either may be killed anywhere.                                   *)
(*                                                                         *)
(* Bytes stand for their SHA-256. Manifests name the repository and the    *)
(* revision this build pins (_check_pinned refuses others at once). One    *)
(* fetch-model runs at a time, and the operator touches the directory only *)
(* while neither it nor a starting server is at work: the assumption of    *)
(* nli.py:21-25.                                                           *)
(***************************************************************************)
EXTENDS Naturals

CONSTANTS Names,       \* file names the directory may hold
          Files,       \* SOURCE_FILES
          Contents,
          Pinned,      \* the bytes the revision has
          Manifests,   \* source_model.files at first: functions from names to contents
          MaxMishaps   \* bound on kills, damage, failed downloads, unasked-for commands

Hashes == UNION {[D -> Contents] : D \in SUBSET Names}    \* what a manifest may record

ASSUME FilesAssumption ==
  /\ Files \subseteq Names /\ Files # {}
  /\ Pinned \in Contents /\ "missing" \notin Contents
  /\ Manifests \subseteq Hashes
  /\ MaxMishaps \in Nat

VARIABLES
  manifest,   \* source_model.files as last written to its end
  torn,       \* the manifest file was cut and not written again yet
  disk,       \* the bytes of each name in the model directory, or "missing"
  exists,     \* there is a model directory
  fetch,      \* where fetch-model is
  left,       \* the files it has yet to download
  server,     \* where the server's start is
  expected,   \* expected_file_hashes
  unread,     \* the files the server has yet to verify, or to open
  loaded,     \* the bytes it has opened
  told,       \* what the last command told the operator
  mishaps

claim == <<manifest, torn>>
directory == <<disk, exists>>
fetching == <<fetch, left>>
serving == <<server, expected, unread, loaded>>
vars == <<claim, directory, fetching, serving, told, mishaps>>

Nothing == [n \in Files |-> "missing"]

FilesTypeOK ==
  /\ manifest \in Hashes /\ torn \in BOOLEAN
  /\ disk \in [Names -> Contents \cup {"missing"}] /\ exists \in BOOLEAN
  /\ \A n \in Names : disk[n] # "missing" => exists
  /\ fetch \in {"off", "downloading", "writing"} /\ left \subseteq Files
  /\ (fetch = "writing" => torn) /\ (torn => fetch # "downloading")
  /\ server \in {"off", "starting", "verifying", "opening", "ready", "failed"}
  /\ expected \in Hashes /\ unread \subseteq Names
  /\ loaded \in [Files -> Contents \cup {"missing"}]
  /\ told \in {"none", "fetched", "trust", "delete", "again", "conflict", "manifest",
               "fetch", "failed"}

ModelTypeOK == FilesTypeOK /\ mishaps \in 0..MaxMishaps

\* No directory yet, or what an earlier fetch-model left.
Init ==
  /\ manifest \in Manifests /\ torn = FALSE /\ exists \in BOOLEAN
  /\ disk = [n \in Names |-> IF exists /\ n \in DOMAIN manifest THEN manifest[n] ELSE "missing"]
  /\ fetch = "off" /\ left = {}
  /\ server = "off" /\ expected = manifest /\ unread = {} /\ loaded = Nothing
  /\ told = "none" /\ mishaps = 0

-----------------------------------------------------------------------------
(* fetch-model                                                             *)

Recorded == DOMAIN manifest # {}
Matches(hashes) == \A n \in DOMAIN hashes : disk[n] = hashes[n]    \* mismatched_files()

Refuse(message) == told' = message /\ UNCHANGED <<claim, directory, fetching, serving>>

\* fetch_model() up to the download.
Anyway == TRUE    \* mutant: a directory that does not match is fetched over
Never == FALSE    \* mutant: nothing that is recorded is fetched again
OnlyIfAbsent == ~exists

RunFetch(trust) ==
  /\ fetch = "off"
  /\ \/ torn /\ Refuse("manifest")
     \/ ~torn /\ Recorded /\ Matches(manifest) /\ Refuse("fetched")
     \/ ~torn /\ Recorded /\ ~Matches(manifest) /\ ~OnlyIfAbsent /\ Refuse("delete")
     \/ ~torn /\ ~Recorded /\ ~trust /\ Refuse("trust")
     \/ /\ ~torn /\ IF Recorded THEN ~Matches(manifest) /\ OnlyIfAbsent ELSE trust
        /\ fetch' = "downloading" /\ left' = Files
        /\ UNCHANGED <<claim, directory, serving, told>>

\* snapshot_download() puts a file in its place in one move. What it put there is not
\* compared with anything.
Put(n, bytes) ==
  /\ fetch = "downloading" /\ n \in left
  /\ disk' = [disk EXCEPT ![n] = bytes] /\ exists' = TRUE /\ left' = left \ {n}
  /\ UNCHANGED <<claim, fetch, serving, told>>

Download(n) == Put(n, Pinned)

\* hash_files().
EmptyEntry == FALSE    \* mutant: a missing file is passed over
Absent == \E n \in Files : disk[n] = "missing"

OneFile == [n \in {CHOOSE n \in Files : TRUE} |-> disk[n]]    \* mutant: one file is hashed
Downloaded == [n \in Files |-> disk[n]]

\* record_source_hashes(): never another hash, never fewer names.
NoConflict == TRUE    \* mutant: the new hashes replace the old ones
Extends == \A n \in DOMAIN manifest : n \in Files /\ disk[n] = manifest[n]

Stop(message) == fetch' = "off" /\ told' = message /\ UNCHANGED <<left, claim, directory, serving>>

\* The hashes are taken and compared, and the manifest is opened for writing, which
\* empties it.
Record ==
  /\ fetch = "downloading" /\ left = {}
  /\ \/ Absent /\ Stop("again")
     \/ ~Absent /\ ~Extends /\ Stop("conflict")
     \/ ~Absent /\ Extends /\ manifest = Downloaded /\ Stop("fetched")
     \/ /\ ~Absent /\ Extends /\ manifest # Downloaded
        /\ fetch' = "writing" /\ torn' = TRUE
        /\ UNCHANGED <<left, manifest, directory, serving, told>>

Write ==
  /\ fetch = "writing" /\ fetch' = "off" /\ told' = "fetched"
  /\ manifest' = Downloaded /\ torn' = FALSE
  /\ UNCHANGED <<left, directory, serving>>

\* Killed, or the manifest could not be written.
KillFetch ==
  /\ fetch # "off" /\ fetch' = "off" /\ told' = "again" /\ left' = {}
  /\ UNCHANGED <<claim, directory, serving>>

DownloadFails == fetch = "downloading" /\ Stop("again")

-----------------------------------------------------------------------------
(* The server                                                              *)

Covered == Files \subseteq DOMAIN manifest

\* read_manifest() and _build_nli().
StartServer ==
  /\ server = "off"
  /\ \/ torn /\ Refuse("manifest")
     \/ ~torn /\ ~Covered /\ Refuse("fetch")
     \/ /\ ~torn /\ Covered
        /\ server' = "starting" /\ expected' = manifest /\ loaded' = Nothing
        /\ UNCHANGED <<claim, directory, fetching, unread, told>>

\* The loading thread marks the bundle FAILED. Its log does not say what is wrong.
FailLoad == server' = "failed" /\ told' = "failed" /\ UNCHANGED <<unread, loaded>>

\* unexpected_files().
LookForOthers ==
  /\ server = "starting"
  /\ IF \E n \in Names \ Files : disk[n] # "missing"
       THEN FailLoad
       ELSE server' = "verifying" /\ unread' = DOMAIN expected /\ UNCHANGED <<loaded, told>>
  /\ UNCHANGED <<claim, directory, fetching, expected>>

Verify(n) ==
  /\ server = "verifying" /\ n \in unread
  /\ IF disk[n] # expected[n]
       THEN FailLoad
       ELSE IF unread = {n} THEN server' = "opening" /\ unread' = Files /\ UNCHANGED <<loaded, told>>
                            ELSE unread' = unread \ {n} /\ UNCHANGED <<server, loaded, told>>
  /\ UNCHANGED <<claim, directory, fetching, expected>>

\* Bytes other than the revision's need not be a model.
Open(n) ==
  /\ server = "opening" /\ n \in unread
  /\ \/ disk[n] # Pinned /\ FailLoad
     \/ /\ disk[n] # "missing"
        /\ loaded' = [loaded EXCEPT ![n] = disk[n]] /\ unread' = unread \ {n}
        /\ server' = IF unread = {n} THEN "ready" ELSE "opening"
        /\ UNCHANGED told
  /\ UNCHANGED <<claim, directory, fetching, expected>>

StopServer ==
  /\ server # "off" /\ server' = "off" /\ unread' = {}
  /\ UNCHANGED <<claim, directory, fetching, expected, loaded, told>>

-----------------------------------------------------------------------------
(* The operator                                                            *)

Idle == fetch = "off" /\ server \in {"off", "ready", "failed"}

DeleteDirectory ==
  /\ Idle /\ exists
  /\ disk' = [n \in Names |-> "missing"] /\ exists' = FALSE /\ told' = "again"
  /\ UNCHANGED <<claim, fetching, serving>>

Damage(n, bytes) ==
  /\ Idle /\ exists /\ bytes # disk[n] /\ disk' = [disk EXCEPT ![n] = bytes]
  /\ UNCHANGED <<claim, exists, fetching, serving, told>>

\* What the last message asks for, one command at a time. A bundle that failed to load
\* does not say why; a fresh directory is all there is to try.
FollowAdvice ==
  /\ Idle
  /\ \/ told \in {"none", "fetch", "again", "conflict"} /\ RunFetch(FALSE)
     \/ told = "trust" /\ RunFetch(TRUE)
     \/ told \in {"delete", "failed"} /\ IF exists THEN DeleteDirectory ELSE RunFetch(FALSE)
     \/ told = "fetched" /\ server = "off" /\ StartServer
     \/ told = "fetched" /\ server = "failed" /\ StopServer

Mishap ==
  \/ KillFetch \/ DownloadFails \/ StopServer
  \/ \E n \in Names, bytes \in Contents \cup {"missing"} : Damage(n, bytes)
  \/ \E n \in Files, bytes \in (Contents \cup {"missing"}) \ {Pinned} : Put(n, bytes)
  \/ DeleteDirectory \/ StartServer \/ \E trust \in BOOLEAN : RunFetch(trust)

Fetch == (Record \/ Write \/ \E n \in Files : Download(n)) /\ UNCHANGED mishaps
Server == (LookForOthers \/ \E n \in Names : Verify(n) \/ Open(n)) /\ UNCHANGED mishaps
Operator == FollowAdvice /\ UNCHANGED mishaps

Next == \/ Fetch \/ Server \/ Operator
        \/ Mishap /\ mishaps < MaxMishaps /\ mishaps' = mishaps + 1

\* The two programs run on, and the operator does what the messages say.
Fairness == WF_vars(Fetch) /\ WF_vars(Server) /\ WF_vars(Operator)

Spec == Init /\ [][Next]_vars
FairSpec == Spec /\ Fairness

-----------------------------------------------------------------------------
(* Properties                                                              *)

(* What the proofs rest on: a download fills in only what is missing, or the manifest is
   empty and no server starts with it; what a server has verified stays as it is. *)
Starting == server \in {"starting", "verifying", "opening"}
VouchedInv ==
  /\ Starting => Covered
  /\ Starting \/ server = "ready" => Files \subseteq DOMAIN expected
  /\ fetch = "downloading" /\ Recorded => \A n \in left : disk[n] = "missing"
  /\ fetch = "writing" => ~Absent /\ Extends
  /\ server = "verifying" => /\ unread \subseteq DOMAIN expected
                             /\ \A n \in DOMAIN expected \ unread : disk[n] = expected[n]
  /\ server = "opening" => /\ \A n \in Files : disk[n] = expected[n]
                           /\ \A n \in Files \ unread : loaded[n] = expected[n]
  /\ server = "ready" => \A n \in Files : loaded[n] = expected[n]

(* "loading bytes that do not match would serve a different model under a published ID"
   (nli.py, load): every byte a READY server opened is the one the manifest it read
   vouches for, although fetch-model may have been downloading into the directory between
   the reading of the manifest, the verification and the opening. *)
ServesWhatItVouches == server = "ready" => \A n \in Files : loaded[n] = expected[n]

(* "A hash that is already recorded is never overwritten" (fetch.py), nor dropped: not by
   a later fetch, whatever it downloaded, and whatever was killed before. *)
HashesKept ==
  [][\A n \in DOMAIN manifest : n \in DOMAIN manifest' /\ manifest'[n] = manifest[n]]_vars

(* "Run `python -m jevbert fetch-model` before starting the server" (registry.py): once
   fetch-model has ended well, the manifest is one the server starts with. *)
FetchedMeansServable == told = "fetched" => Covered

(* Whatever was killed, damaged, or downloaded in part, an operator who does what the
   messages say gets a READY server - unless the manifest was lost in a killed write, or
   records bytes that the revision does not have. *)
Obtainable == \A n \in DOMAIN manifest : n \in Files /\ manifest[n] = Pinned
AdviceWorks == <>(server = "ready" \/ torn \/ ~Obtainable)
=============================================================================
