-------------------------- MODULE ModelFilesProofs --------------------------
(***************************************************************************)
(* Theorems about ModelFiles, for every set of files, every contents and   *)
(* every manifest: a READY server has opened what its manifest vouches     *)
(* for, and a recorded hash stays as it is.                                *)
(***************************************************************************)
EXTENDS ModelFiles, TLAPS

FInv == FilesTypeOK /\ VouchedInv

USE FilesAssumption

-----------------------------------------------------------------------------
(* Hashes                                                                  *)

\* A function from some names to contents is a set of hashes.
LEMMA HashesAre ==
  ASSUME NEW D \in SUBSET Names, NEW h \in [D -> Contents]
  PROVE  h \in Hashes
BY DEF Hashes

\* And a set of hashes is such a function.
LEMMA HashesHave ==
  ASSUME NEW h \in Hashes
  PROVE  DOMAIN h \subseteq Names /\ \A n \in DOMAIN h : h[n] \in Contents
BY DEF Hashes

\* The hashes of the downloaded files can be recorded.
LEMMA DownloadedAreHashes ==
  ASSUME FilesTypeOK, ~Absent
  PROVE  Downloaded \in Hashes /\ DOMAIN Downloaded = Files
<1>1. \A n \in Files : disk[n] \in Contents
  BY DEF FilesTypeOK, Absent
<1>2. Downloaded \in [Files -> Contents] /\ DOMAIN Downloaded = Files
  BY <1>1 DEF Downloaded
<1>. QED  BY <1>2, HashesAre

-----------------------------------------------------------------------------
(* Every action keeps the invariant                                        *)

\* RunFetch starts a download only where there is no directory, or for a manifest that no
\* server starts with.
LEMMA RunFetchStep ==
  ASSUME FInv, NEW trust \in BOOLEAN, RunFetch(trust)
  PROVE  FInv'
<1>1. FilesTypeOK'
  BY DEF FInv, FilesTypeOK, claim, directory, fetching, serving, Refuse, RunFetch
<1>2. VouchedInv'
  BY DEF FInv, FilesTypeOK, VouchedInv, Starting, Covered, Recorded, claim, directory,
         fetching, serving, Refuse, OnlyIfAbsent, RunFetch
<1>. QED  BY <1>1, <1>2 DEF FInv

\* A file that is put in place was missing, so no server has verified it.
LEMMA PutStep ==
  ASSUME FInv, NEW n \in Files, NEW bytes \in Contents \cup {"missing"}, Put(n, bytes)
  PROVE  FInv'
<1>1. FilesTypeOK'
  BY DEF FInv, FilesTypeOK, claim, serving, Put
<1>2. VouchedInv'
  BY HashesHave DEF FInv, FilesTypeOK, VouchedInv, Starting, Covered, Recorded, claim,
                    serving, Put
<1>. QED  BY <1>1, <1>2 DEF FInv

\* What is about to be written extends what is recorded.
LEMMA RecordStep ==
  ASSUME FInv, Record
  PROVE  FInv'
<1>1. FilesTypeOK'
  BY DEF FInv, FilesTypeOK, claim, directory, serving, Stop, Record
<1>2. VouchedInv'
  BY DEF FInv, VouchedInv, Starting, Covered, Absent, Extends, claim, directory, serving,
         Stop, Record
<1>. QED  BY <1>1, <1>2 DEF FInv

\* The manifest that is written covers what it did before.
LEMMA WriteStep ==
  ASSUME FInv, Write
  PROVE  FInv'
<1>1. manifest' \in Hashes /\ DOMAIN manifest' = Files
  BY DownloadedAreHashes DEF FInv, VouchedInv, Write
<1>2. FilesTypeOK'
  BY <1>1 DEF FInv, FilesTypeOK, Write, directory, serving
<1>3. VouchedInv'
  BY <1>1 DEF FInv, VouchedInv, Write, Starting, Covered, Recorded, directory, serving
<1>. QED  BY <1>2, <1>3 DEF FInv

\* A killed fetch-model leaves the rest as it is.
LEMMA KillFetchStep ==
  ASSUME FInv, KillFetch
  PROVE  FInv'
<1>1. FilesTypeOK'
  BY DEF FInv, FilesTypeOK, claim, directory, serving, KillFetch
<1>2. VouchedInv'
  BY DEF FInv, VouchedInv, Starting, Covered, claim, directory, serving, KillFetch
<1>. QED  BY <1>1, <1>2 DEF FInv

\* So does a failed download.
LEMMA DownloadFailsStep ==
  ASSUME FInv, DownloadFails
  PROVE  FInv'
<1>1. FilesTypeOK'
  BY DEF FInv, FilesTypeOK, claim, directory, serving, Stop, DownloadFails
<1>2. VouchedInv'
  BY DEF FInv, VouchedInv, Starting, Covered, claim, directory, serving, Stop, DownloadFails
<1>. QED  BY <1>1, <1>2 DEF FInv

\* A server starts with a manifest that covers every source file.
LEMMA StartServerStep ==
  ASSUME FInv, StartServer
  PROVE  FInv'
<1>1. FilesTypeOK'
  BY DEF FInv, FilesTypeOK, claim, directory, fetching, serving, Refuse, Nothing,
         StartServer
<1>2. VouchedInv'
  BY DEF FInv, VouchedInv, Starting, Covered, Recorded, Absent, Extends, claim, directory,
         fetching, serving, Refuse, StartServer
<1>. QED  BY <1>1, <1>2 DEF FInv

\* Nothing is verified yet.
LEMMA LookForOthersStep ==
  ASSUME FInv, LookForOthers
  PROVE  FInv'
<1>1. FilesTypeOK'
  BY HashesHave DEF FInv, FilesTypeOK, claim, directory, fetching, FailLoad, LookForOthers
<1>2. VouchedInv'
  BY DEF FInv, VouchedInv, Starting, Covered, Recorded, Absent, Extends, claim, directory,
         fetching, FailLoad, LookForOthers
<1>. QED  BY <1>1, <1>2 DEF FInv

\* A file is verified against the manifest the server read.
LEMMA VerifyStep ==
  ASSUME FInv, NEW n \in Names, Verify(n)
  PROVE  FInv'
<1>1. FilesTypeOK'
  BY DEF FInv, FilesTypeOK, claim, directory, fetching, FailLoad, Verify
<1>2. VouchedInv'
  BY DEF FInv, VouchedInv, Starting, Covered, Recorded, Absent, Extends, claim, directory,
         fetching, FailLoad, Verify
<1>. QED  BY <1>1, <1>2 DEF FInv

\* A file is opened as it was verified.
LEMMA OpenStep ==
  ASSUME FInv, NEW n \in Names, Open(n)
  PROVE  FInv'
<1>1. FilesTypeOK'
  BY DEF FInv, FilesTypeOK, claim, directory, fetching, FailLoad, Open
<1>2. VouchedInv'
  BY DEF FInv, FilesTypeOK, VouchedInv, Starting, Covered, Recorded, Absent, Extends, claim,
         directory, fetching, FailLoad, Open
<1>. QED  BY <1>1, <1>2 DEF FInv

\* A stopped server has no claims.
LEMMA StopServerStep ==
  ASSUME FInv, StopServer
  PROVE  FInv'
<1>1. FilesTypeOK'
  BY DEF FInv, FilesTypeOK, claim, directory, fetching, StopServer
<1>2. VouchedInv'
  BY DEF FInv, VouchedInv, Starting, Recorded, Absent, Extends, claim, directory, fetching,
         StopServer
<1>. QED  BY <1>1, <1>2 DEF FInv

\* The directory goes while nobody is at work in it.
LEMMA DeleteDirectoryStep ==
  ASSUME FInv, DeleteDirectory
  PROVE  FInv'
<1>1. FilesTypeOK'
  BY DEF FInv, FilesTypeOK, claim, fetching, serving, DeleteDirectory
<1>2. VouchedInv'
  BY DEF FInv, VouchedInv, Starting, fetching, serving, Idle, DeleteDirectory
<1>. QED  BY <1>1, <1>2 DEF FInv

\* Files are damaged while nobody is at work on them.
LEMMA DamageStep ==
  ASSUME FInv, NEW n \in Names, NEW bytes \in Contents \cup {"missing"}, Damage(n, bytes)
  PROVE  FInv'
<1>1. FilesTypeOK'
  BY DEF FInv, FilesTypeOK, claim, fetching, serving, Damage
<1>2. VouchedInv'
  BY DEF FInv, VouchedInv, Starting, fetching, serving, Idle, Damage
<1>. QED  BY <1>1, <1>2 DEF FInv

-----------------------------------------------------------------------------
(* The theorems                                                            *)

\* The invariant holds at first: nothing is under way.
LEMMA FirstFiles == Init => FInv
<1>. SUFFICES ASSUME Init PROVE FInv
  OBVIOUS
<1>1. manifest \in Hashes /\ DOMAIN manifest \subseteq Names
  BY HashesHave DEF Init
<1>. QED  BY <1>1, HashesHave DEF Init, FInv, FilesTypeOK, VouchedInv, Starting, Nothing

\* Whatever the operator is advised to do is one of the actions above.
LEMMA OperatorStep ==
  ASSUME FInv, Operator
  PROVE  FInv'
<1>1. CASE \E trust \in BOOLEAN : RunFetch(trust)
  BY <1>1, RunFetchStep
<1>2. CASE DeleteDirectory
  BY <1>2, DeleteDirectoryStep
<1>3. CASE StartServer \/ StopServer
  BY <1>3, StartServerStep, StopServerStep
<1>. QED  BY <1>1, <1>2, <1>3 DEF Operator, FollowAdvice

\* So is every mishap.
LEMMA MishapStep ==
  ASSUME FInv, Mishap
  PROVE  FInv'
<1>1. CASE KillFetch \/ DownloadFails \/ StopServer
  BY <1>1, KillFetchStep, DownloadFailsStep, StopServerStep
<1>2. CASE \E n \in Names, bytes \in Contents \cup {"missing"} : Damage(n, bytes)
  BY <1>2, DamageStep
<1>3. CASE \E n \in Files, bytes \in (Contents \cup {"missing"}) \ {Pinned} : Put(n, bytes)
  BY <1>3, PutStep
<1>4. CASE DeleteDirectory \/ StartServer \/ \E trust \in BOOLEAN : RunFetch(trust)
  BY <1>4, DeleteDirectoryStep, StartServerStep, RunFetchStep
<1>. QED  BY <1>1, <1>2, <1>3, <1>4 DEF Mishap

\* Every step keeps the invariant.
LEMMA FilesStep == FInv /\ [Next]_vars => FInv'
<1>. SUFFICES ASSUME FInv, [Next]_vars PROVE FInv'
  OBVIOUS
<1>1. CASE Fetch
  BY <1>1, RecordStep, WriteStep, PutStep DEF Fetch, Download
<1>2. CASE Server
  BY <1>2, LookForOthersStep, VerifyStep, OpenStep DEF Server
<1>3. CASE Operator
  BY <1>3, OperatorStep
<1>4. CASE Mishap
  BY <1>4, MishapStep
<1>5. CASE UNCHANGED vars
  BY <1>5 DEF vars, claim, directory, fetching, serving, FInv, FilesTypeOK, VouchedInv,
              Starting, Covered, Recorded, Absent, Extends
<1>. QED  BY <1>1, <1>2, <1>3, <1>4, <1>5 DEF Next

\* The invariant of ModelFiles.
LEMMA FilesInvariant == Spec => []FInv
BY FirstFiles, FilesStep, PTL DEF Spec

(* The variables keep their types. *)
THEOREM ModelTypeCorrect == Spec => []ModelTypeOK
<1>1. Init => mishaps \in 0..MaxMishaps
  BY DEF Init
<1>2. mishaps \in 0..MaxMishaps /\ [Next]_vars => (mishaps \in 0..MaxMishaps)'
  BY DEF Next, Fetch, Server, Operator, vars
<1>3. FInv /\ mishaps \in 0..MaxMishaps => ModelTypeOK
  BY DEF FInv, ModelTypeOK
<1>. QED  BY <1>1, <1>2, <1>3, FilesInvariant, PTL DEF Spec

(* What a download or an operator does is no danger to a server that is verifying or
   opening the files. *)
THEOREM VouchedFilesRest == Spec => []VouchedInv
<1>1. FInv => VouchedInv
  BY DEF FInv
<1>. QED  BY <1>1, FilesInvariant, PTL

(* A READY server has opened the bytes that the manifest it read vouches for. *)
THEOREM ServesVouchedBytes == Spec => []ServesWhatItVouches
<1>1. FInv => ServesWhatItVouches
  BY DEF FInv, VouchedInv, ServesWhatItVouches
<1>. QED  BY <1>1, FilesInvariant, PTL

(* A recorded hash is neither changed nor dropped. *)
THEOREM RecordedHashesStay == Spec => HashesKept
<1>1. FInv /\ [Next]_vars =>
        [\A n \in DOMAIN manifest : n \in DOMAIN manifest' /\ manifest'[n] = manifest[n]]_vars
  <2>. SUFFICES ASSUME FInv, Next
                PROVE  \A n \in DOMAIN manifest : n \in DOMAIN manifest' /\ manifest'[n] = manifest[n]
    OBVIOUS
  <2>1. CASE Write
    BY <2>1 DEF Write, FInv, VouchedInv, Extends, Downloaded
  <2>2. CASE ~Write
    <3>1. UNCHANGED manifest
      BY <2>2 DEF Next, Fetch, Server, Operator, Mishap, FollowAdvice, RunFetch, Download,
                  Put, Record,
                  KillFetch, DownloadFails, StartServer, LookForOthers, Verify, Open, StopServer,
                  DeleteDirectory, Damage, Refuse, Stop, claim
    <3>. QED  BY <3>1
  <2>. QED  BY <2>1, <2>2
<1>. QED  BY <1>1, FilesInvariant, PTL DEF Spec, HashesKept

(* With a manifest that records nothing or every source file at first, a fetch-model that
   ended well leaves one that the server starts with. *)
THEOREM FetchedIsServable ==
  ASSUME \A m \in Manifests : DOMAIN m = {} \/ Files \subseteq DOMAIN m
  PROVE  Spec => []FetchedMeansServable
<1>. DEFINE AllOrNothing == DOMAIN manifest = {} \/ Covered
<1>1. Init => AllOrNothing /\ FetchedMeansServable
  BY DEF Init, Covered, FetchedMeansServable
<1>2. FInv /\ AllOrNothing /\ FetchedMeansServable /\ [Next]_vars
        => (AllOrNothing /\ FetchedMeansServable)'
  <2>. SUFFICES ASSUME FInv, AllOrNothing, FetchedMeansServable, [Next]_vars
                PROVE  (AllOrNothing /\ FetchedMeansServable)'
    OBVIOUS
  <2>1. CASE Write
    BY <2>1 DEF Write, Downloaded, Covered, FetchedMeansServable
  <2>2. CASE UNCHANGED manifest /\ (told' = "fetched" => told = "fetched" \/ Covered)
    BY <2>2 DEF Covered, FetchedMeansServable
  <2>3. ASSUME ~Write PROVE UNCHANGED manifest /\ (told' = "fetched" => told = "fetched" \/ Covered)
    <3>1. CASE UNCHANGED vars
      BY <3>1 DEF vars, claim
    <3>2. CASE Record
      BY <3>2 DEF Record, Stop, claim, Downloaded, Covered
    <3>3. CASE \E trust \in BOOLEAN : RunFetch(trust)
      BY <3>3 DEF RunFetch, Recorded, Refuse, claim
    <3>4. CASE Next /\ ~Record /\ ~\E trust \in BOOLEAN : RunFetch(trust)
      BY <2>3, <3>4 DEF Next, Fetch, Server, Operator, Mishap, FollowAdvice, Download, Put,
                        KillFetch,
                  DownloadFails, StartServer, LookForOthers, Verify, Open, StopServer, DeleteDirectory,
                  Damage, Refuse, Stop, FailLoad, claim
    <3>. QED  BY <3>1, <3>2, <3>3, <3>4
  <2>. QED  BY <2>1, <2>2, <2>3
<1>. QED  BY <1>1, <1>2, FilesInvariant, PTL DEF Spec
=============================================================================
