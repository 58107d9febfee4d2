--------------------------- MODULE ReleaseChainProofs ---------------------------
(***************************************************************************)
(* What is proved of the release chain for any tags, builds and number of  *)
(* changes to the publications: types, and that the identity a plan        *)
(* carries and what a host runs are what the audited key signed.           *)
(***************************************************************************)
EXTENDS ReleaseChain, TLAPS

(* GitHub may serve anything, but a manifest with a signature of the        *)
(* audited key is one that build_bundle made.                               *)
Genuine(signed) ==
  signed.by = Audited => \E b \in Build : signed = SignedFor(signed.release, b, Audited)

PublishedIsGenuine ==
  \A t \in Tag : published[t].assets["signed"] # Nil => Genuine(published[t].assets["signed"])

(* What a run knows by the step it is at. *)
RunIsSound ==
  /\ run.pc \notin {"idle", "publication"} => run.tag \in Tag
  /\ run.pc \in {"signed", "identity", "load", "verify", "install"} =>
       run.outer \in Outer /\ ValidateOuter(run.outer, run.tag)
  /\ run.pc \in {"identity", "load", "verify", "install"} =>
       /\ run.outer.signed = SignedFor(run.tag, run.outer.images, Audited)
       /\ run.outer.updater = run.outer.images
  /\ run.pc \in {"load", "verify", "install"} =>
       approved # Nil /\ approved = ExactIdentity(run.outer)
  /\ run.pc = "install" =>
       run.got = [installer |-> approved.installer, bundle |-> approved.bundle,
                  signed |-> approved.signed]

ApprovedIsSound ==
  approved # Nil =>
    /\ approved.signed = SignedFor(approved.release, approved.images, Audited)
    /\ approved.updater = approved.images

HostIsSound ==
  host # Nil =>
    /\ approved # Nil
    /\ host = [installer |-> approved.installer, bundle |-> approved.bundle]
    /\ approved.bundle = BuildBundle(approved.release, approved.images, Audited)

Inv == TypeOK /\ PublishedIsGenuine /\ RunIsSound /\ ApprovedIsSound /\ HostIsSound

-----------------------------------------------------------------------------
(* The assets of a release, and what may replace them, are of their types   *)
(* and genuine.                                                             *)
LEMMA ReleaseTyped ==
  ASSUME NEW t \in Tag, NEW b \in Build, NEW k \in SigningKey
  PROVE  /\ Release(t, b, k) \in [Asset -> {Nil} \cup UNION {Content(a) : a \in Asset}]
         /\ \A a \in Asset : Release(t, b, k)[a] \in Content(a)
         /\ Genuine(Release(t, b, k)["signed"])
<1> DEFINE r == Release(t, b, k)
<1>1. SignedFor(t, b, k) \in Manifest
  BY DEF SignedFor, Manifest
<1>2. BuildBundle(t, b, k) \in Bundle
  BY <1>1 DEF BuildBundle, Bundle
<1>3. OuterFor(t, b, k) \in Outer
  BY <1>1, <1>2 DEF OuterFor, Outer
<1>4. \A a \in Asset : r[a] \in Content(a)
  BY <1>1, <1>2, <1>3 DEF Release, Asset, Content
<1>5. r \in [Asset -> {Nil} \cup UNION {Content(a) : a \in Asset}]
  <2>1. r = [a \in Asset |-> r[a]]
    BY DEF Release, Asset
  <2>2. \A a \in Asset : r[a] \in {Nil} \cup UNION {Content(c) : c \in Asset}
    BY <1>4
  <2> QED
    BY <2>1, <2>2
<1>6. Genuine(r["signed"])
  BY DEF Release, Genuine, SignedFor
<1> QED
  BY <1>4, <1>5, <1>6

LEMMA ReplacementTyped ==
  ASSUME NEW t \in Tag, NEW a \in Asset, NEW content \in Replacement(a, t)
  PROVE  /\ content \in Content(a)
         /\ a = "signed" => Genuine(content)
<1>1. Audited \in SigningKey /\ Other \in SigningKey /\ Audited # Other
  BY ReleaseAssumption DEF SigningKey
<1>2. \A u \in Tag, b \in Build, k \in SigningKey :
        /\ SignedFor(u, b, k) \in Manifest
        /\ BuildBundle(u, b, k) \in Bundle
        /\ OuterFor(u, b, k) \in Outer
  BY DEF SignedFor, BuildBundle, OuterFor, Manifest, Bundle, Outer
<1>3. CASE \E u \in Tag, b \in Build, k \in SigningKey : content = Release(u, b, k)[a]
  BY <1>3, ReleaseTyped
<1>4. CASE a = "signed" /\ \E b, c \in Build : content = [SignedFor(t, b, Other) EXCEPT !.files = c]
  BY <1>1, <1>4 DEF SignedFor, Manifest, Content, Genuine
<1>5. CASE a = "bundle" /\ \E b, c \in Build : content = [BuildBundle(t, b, Audited) EXCEPT !.files = c]
  BY <1>1, <1>2, <1>5 DEF BuildBundle, Bundle, Content
<1>6. CASE a = "outer" /\ ~ (\E u \in Tag, b \in Build, k \in SigningKey : content = Release(u, b, k)[a])
  <2> DEFINE o(b) == OuterFor(t, b, Audited)
  <2>1. PICK b \in Build, c \in Build :
          content \in {[o(b) EXCEPT !.installer = c], [o(b) EXCEPT !.images = c],
                       [o(b) EXCEPT !.updater = c],
                       [o(b) EXCEPT !.bundle = o(c).bundle], [o(b) EXCEPT !.signed = o(c).signed],
                       [o(b) EXCEPT !.signed = SignedFor(t, c, Other)],
                       [o(b) EXCEPT !.bundle = [o(b).bundle EXCEPT !.files = c]]}
    BY <1>6 DEF Replacement
  <2>2. o(b) \in Outer /\ o(c) \in Outer /\ SignedFor(t, c, Other) \in Manifest
    BY <1>1, <1>2
  <2>3. [o(b).bundle EXCEPT !.files = c] \in Bundle
    BY <2>2 DEF Outer, Bundle
  <2> HIDE DEF o
  <2>4. content \in Outer
    BY <2>1, <2>2, <2>3 DEF Outer
  <2> QED
    BY <1>6, <2>4 DEF Content
<1> QED
  BY <1>3, <1>4, <1>5, <1>6 DEF Replacement, Asset

-----------------------------------------------------------------------------
LEMMA InitInv == Init => Inv
<1> SUFFICES ASSUME Init PROVE Inv
  OBVIOUS
<1>1. PICK first \in Tag, b \in Build :
        /\ published = [t \in Tag |-> IF t = first
                                        THEN [stable |-> TRUE, assets |-> Release(t, b, Audited)]
                                        ELSE [stable |-> FALSE, assets |-> NoAssets]]
        /\ latest = first
        /\ changes = 0 /\ run = Idle /\ approved = Nil /\ host = Nil
  BY DEF Init
<1>2. Release(first, b, Audited) \in [Asset -> {Nil} \cup UNION {Content(a) : a \in Asset}]
      /\ (\A a \in Asset : Release(first, b, Audited)[a] \in Content(a))
      /\ Genuine(Release(first, b, Audited)["signed"])
  BY ReleaseTyped DEF SigningKey
<1>3. NoAssets \in [Asset -> {Nil} \cup UNION {Content(a) : a \in Asset}]
      /\ \A a \in Asset : NoAssets[a] = Nil
  BY DEF NoAssets
<1>4. run \in Run /\ run.pc = "idle"
  BY <1>1 DEF Idle, Run, Nothing, Stable
<1>5. TypeOK
  <2>1. changes \in 0 .. MaxChanges
    BY <1>1, ReleaseAssumption
  <2>2. published \in [Tag -> [stable : BOOLEAN,
                                assets : [Asset -> {Nil} \cup UNION {Content(a) : a \in Asset}]]]
    BY <1>1, <1>2, <1>3
  <2>3. \A t \in Tag, a \in Asset : published[t].assets[a] \in Content(a) \cup {Nil}
    BY <1>1, <1>2, <1>3
  <2> QED
    BY <1>1, <1>4, <2>1, <2>2, <2>3 DEF TypeOK
<1>6. PublishedIsGenuine
  BY <1>1, <1>2, <1>3 DEF PublishedIsGenuine, Asset
<1> QED
  BY <1>1, <1>4, <1>5, <1>6 DEF Inv, RunIsSound, ApprovedIsSound, HostIsSound

(* A change to the publications. *)
LEMMA ChangeKeeps ==
  ASSUME Inv, NEW t \in Tag, NEW release, Change(t, release), latest' \in Tag,
         release \in [stable : BOOLEAN, assets : [Asset -> {Nil} \cup UNION {Content(a) : a \in Asset}]],
         \A a \in Asset : release.assets[a] \in Content(a) \cup {Nil},
         release.assets["signed"] # Nil => Genuine(release.assets["signed"])
  PROVE  Inv'
<1>1. published' \in [Tag -> [stable : BOOLEAN,
                               assets : [Asset -> {Nil} \cup UNION {Content(a) : a \in Asset}]]]
  BY DEF Change, Inv, TypeOK
<1>2. \A u \in Tag : published'[u] = IF u = t THEN release ELSE published[u]
  BY DEF Change, Inv, TypeOK
<1>3. \A u \in Tag, a \in Asset : published'[u].assets[a] \in Content(a) \cup {Nil}
  BY <1>2 DEF Inv, TypeOK
<1>4. changes' \in 0 .. MaxChanges
  BY ReleaseAssumption DEF Change, Inv, TypeOK
<1>5. TypeOK'
  BY <1>1, <1>3, <1>4 DEF Change, Inv, TypeOK
<1>6. PublishedIsGenuine'
  BY <1>2 DEF Inv, PublishedIsGenuine
<1> QED
  BY <1>5, <1>6 DEF Change, Inv, RunIsSound, ApprovedIsSound, HostIsSound

LEMMA GitHubKeeps == ASSUME Inv, GitHub PROVE Inv'
<1>1. PICK t \in Tag :
        \/ \E b \in Build : Publish(t, b)
        \/ \E a \in Asset : \E content \in Replacement(a, t) \cup {Nil} : Replace(t, a, content)
        \/ Withdraw(t)
  BY DEF GitHub
<1>2. published[t] \in [stable : BOOLEAN, assets : [Asset -> {Nil} \cup UNION {Content(a) : a \in Asset}]]
      /\ (\A a \in Asset : published[t].assets[a] \in Content(a) \cup {Nil})
      /\ (published[t].assets["signed"] # Nil => Genuine(published[t].assets["signed"]))
      /\ latest \in Tag
  BY DEF Inv, TypeOK, PublishedIsGenuine
<1>3. ASSUME NEW b \in Build, Publish(t, b) PROVE Inv'
  <2> DEFINE r == [stable |-> TRUE, assets |-> Release(t, b, Audited)]
  <2>1. Change(t, r) /\ latest' \in Tag
    BY <1>3 DEF Publish
  <2>2. /\ r.assets \in [Asset -> {Nil} \cup UNION {Content(a) : a \in Asset}]
        /\ \A a \in Asset : r.assets[a] \in Content(a) \cup {Nil}
        /\ Genuine(r.assets["signed"])
    BY ReleaseTyped DEF SigningKey
  <2>3. r \in [stable : BOOLEAN, assets : [Asset -> {Nil} \cup UNION {Content(a) : a \in Asset}]]
    BY <2>2
  <2> HIDE DEF r
  <2> QED
    BY <2>1, <2>2, <2>3, ChangeKeeps
<1>4. ASSUME NEW a \in Asset, NEW content \in Replacement(a, t) \cup {Nil}, Replace(t, a, content)
      PROVE  Inv'
  <2> DEFINE r == [published[t] EXCEPT !.assets[a] = content]
  <2>1. Change(t, r) /\ latest' \in Tag
    BY <1>2, <1>4 DEF Replace
  <2>2. content \in Content(a) \cup {Nil} /\ (a = "signed" /\ content # Nil => Genuine(content))
    BY ReplacementTyped
  <2>3. r.stable = published[t].stable /\ r.assets = [published[t].assets EXCEPT ![a] = content]
    BY <1>2
  <2>4. r \in [stable : BOOLEAN, assets : [Asset -> {Nil} \cup UNION {Content(c) : c \in Asset}]]
    <3>1. content \in {Nil} \cup UNION {Content(c) : c \in Asset}
      BY <2>2
    <3> QED
      BY <1>2, <3>1
  <2>5. \A c \in Asset : r.assets[c] \in Content(c) \cup {Nil}
    BY <1>2, <2>2, <2>3
  <2>6. r.assets["signed"] # Nil => Genuine(r.assets["signed"])
    BY <1>2, <2>2, <2>3 DEF Asset
  <2> HIDE DEF r
  <2> QED
    BY <2>1, <2>4, <2>5, <2>6, ChangeKeeps
<1>5. ASSUME Withdraw(t) PROVE Inv'
  <2> DEFINE r == [published[t] EXCEPT !.stable = FALSE]
  <2>1. Change(t, r) /\ latest' \in Tag
    BY <1>2, <1>5 DEF Withdraw
  <2>2. /\ r \in [stable : BOOLEAN, assets : [Asset -> {Nil} \cup UNION {Content(a) : a \in Asset}]]
        /\ r.assets = published[t].assets
    BY <1>2
  <2> HIDE DEF r
  <2> QED
    BY <1>2, <2>1, <2>2, ChangeKeeps
<1> QED
  BY <1>1, <1>3, <1>4, <1>5

-----------------------------------------------------------------------------
(* A step of a command leaves the publications alone. *)
LEMMA RunKeeps ==
  ASSUME Inv, Unchanging, run' \in Run,
         approved' \in Identity \cup {Nil}, host' \in [installer : Build, bundle : Bundle] \cup {Nil},
         RunIsSound', ApprovedIsSound', HostIsSound'
  PROVE  Inv'
BY DEF Inv, TypeOK, PublishedIsGenuine, Unchanging

LEMMA IdleKeeps ==
  ASSUME Inv, Unchanging, run' = Idle, UNCHANGED <<approved, host>>
  PROVE  Inv'
<1>1. run' \in Run /\ run'.pc = "idle"
  BY DEF Idle, Run, Nothing, Stable
<1>2. RunIsSound'
  BY <1>1 DEF RunIsSound
<1> QED
  BY <1>1, <1>2, RunKeeps DEF Inv, TypeOK, ApprovedIsSound, HostIsSound

LEMMA StartKeeps == ASSUME Inv, Start PROVE Inv'
<1>1. PICK s \in Tag \cup {Stable} : run' = [Idle EXCEPT !.pc = "publication", !.selection = s]
  BY DEF Start, Inv, TypeOK, Identity
<1>2. run' \in Run /\ run'.pc = "publication"
  BY <1>1 DEF Idle, Run, Nothing, Stable
<1>3. RunIsSound'
  BY <1>2 DEF RunIsSound
<1> QED
  BY <1>2, <1>3, RunKeeps DEF Start, Inv, TypeOK, ApprovedIsSound, HostIsSound

LEMMA ReadPublicationKeeps == ASSUME Inv, ReadPublication PROVE Inv'
<1> DEFINE t == IF run.selection = Stable THEN latest ELSE run.selection
           listed == {a \in Asset : published[t].assets[a] # Nil}
<1>1. t \in Tag /\ listed \in SUBSET Asset /\ run \in Run
  BY DEF Inv, TypeOK, Run
<1>2. run' = Idle \/ run' = [run EXCEPT !.pc = "outer", !.tag = t, !.listed = listed]
  BY DEF ReadPublication, Fail
<1> HIDE DEF t, listed
<1>3. CASE run' = [run EXCEPT !.pc = "outer", !.tag = t, !.listed = listed]
  <2>1. run' \in Run /\ run'.pc = "outer" /\ run'.tag \in Tag
    BY <1>1, <1>3 DEF Run
  <2>2. RunIsSound'
    BY <2>1 DEF RunIsSound
  <2> QED
    BY <2>1, <2>2, RunKeeps DEF ReadPublication, Inv, TypeOK, ApprovedIsSound, HostIsSound
<1> QED
  BY <1>2, <1>3, IdleKeeps DEF ReadPublication

LEMMA ReadOuterKeeps == ASSUME Inv, ReadOuter PROVE Inv'
<1> DEFINE outer == published[run.tag].assets["outer"]
<1>1. run \in Run /\ run.tag \in Tag
  BY DEF Inv, TypeOK, RunIsSound, ReadOuter, RunAt
<1>2. outer # Nil => outer \in Outer
  <2>1. "outer" \in Asset /\ Content("outer") = Outer
    BY DEF Asset, Content
  <2> QED
    BY <1>1, <2>1 DEF Inv, TypeOK
<1>3. \/ run' = Idle
      \/ outer # Nil /\ ValidateOuter(outer, run.tag) /\ run' = [run EXCEPT !.pc = "signed", !.outer = outer]
  BY DEF ReadOuter, Fail
<1> HIDE DEF outer
<1>4. CASE outer # Nil /\ ValidateOuter(outer, run.tag) /\ run' = [run EXCEPT !.pc = "signed", !.outer = outer]
  <2>1. run' \in Run /\ run'.pc = "signed" /\ run'.tag = run.tag /\ run'.outer = outer
    BY <1>1, <1>2, <1>4 DEF Run
  <2>2. RunIsSound'
    BY <1>1, <1>2, <1>4, <2>1 DEF RunIsSound, ValidateOuter
  <2> QED
    BY <2>1, <2>2, RunKeeps DEF ReadOuter, Inv, TypeOK, ApprovedIsSound, HostIsSound
<1> QED
  BY <1>3, <1>4, IdleKeeps DEF ReadOuter

(* The manifest that was read is the one build_bundle signed for this tag   *)
(* and these images.                                                        *)
LEMMA ReadSignedKeeps == ASSUME Inv, ReadSigned PROVE Inv'
<1> DEFINE signed == published[run.tag].assets["signed"]
<1>1. run \in Run /\ run.tag \in Tag /\ run.outer \in Outer /\ ValidateOuter(run.outer, run.tag)
      /\ run.pc = "signed"
  BY DEF Inv, TypeOK, RunIsSound, ReadSigned, RunAt
<1>2. signed # Nil => Genuine(signed)
  BY <1>1 DEF Inv, PublishedIsGenuine
<1>3. \/ run' = Idle
      \/ /\ signed # Nil /\ signed = run.outer.signed
         /\ signed.release = run.outer.release /\ signed.by = Audited
         /\ signed.images = run.outer.images /\ signed.updater = run.outer.updater
         /\ run' = [run EXCEPT !.pc = "identity"]
  BY DEF ReadSigned, Fail, VerifyAsset, VerifySigned, ValidateSigned
<1> HIDE DEF signed
<1>4. CASE /\ signed # Nil /\ signed = run.outer.signed
           /\ signed.release = run.outer.release /\ signed.by = Audited
           /\ signed.images = run.outer.images /\ signed.updater = run.outer.updater
           /\ run' = [run EXCEPT !.pc = "identity"]
  <2>1. PICK b \in Build : signed = SignedFor(run.tag, b, Audited)
    BY <1>1, <1>2, <1>4 DEF Genuine, ValidateOuter
  <2>2. /\ run.outer.signed = SignedFor(run.tag, run.outer.images, Audited)
        /\ run.outer.updater = run.outer.images
    BY <1>4, <2>1 DEF SignedFor
  <2>3. run' \in Run /\ run'.pc = "identity" /\ run'.tag = run.tag /\ run'.outer = run.outer
    BY <1>1, <1>4 DEF Run
  <2>4. RunIsSound'
    BY <1>1, <2>2, <2>3 DEF RunIsSound, ValidateOuter
  <2> QED
    BY <2>3, <2>4, RunKeeps DEF ReadSigned, Inv, TypeOK, ApprovedIsSound, HostIsSound
<1> QED
  BY <1>3, <1>4, IdleKeeps DEF ReadSigned

LEMMA ApproveKeeps == ASSUME Inv, Approve PROVE Inv'
<1>1. /\ run.outer \in Outer /\ ValidateOuter(run.outer, run.tag)
      /\ run.outer.signed = SignedFor(run.tag, run.outer.images, Audited)
      /\ run.outer.updater = run.outer.images
      /\ approved = Nil /\ host = Nil /\ host' = host
  BY DEF Inv, RunIsSound, HostIsSound, Approve, RunAt
<1>2. approved' = ExactIdentity(run.outer) /\ approved' \in Identity
  BY <1>1 DEF Approve, ExactIdentity, Identity, Outer
<1>3. ApprovedIsSound'
  BY <1>1, <1>2 DEF ApprovedIsSound, ExactIdentity, ValidateOuter
<1>4. HostIsSound'
  BY <1>1 DEF HostIsSound
<1>5. run' \in Run /\ run'.pc = "idle"
  BY DEF Approve, Idle, Run, Nothing, Stable
<1>6. RunIsSound'
  BY <1>5 DEF RunIsSound
<1> QED
  BY <1>1, <1>2, <1>3, <1>4, <1>5, <1>6, RunKeeps DEF Approve, Inv, TypeOK

LEMMA CompareKeeps == ASSUME Inv, Compare PROVE Inv'
<1>1. run \in Run /\ run.pc = "identity"
  BY DEF Inv, TypeOK, Compare, RunAt
<1>2. \/ run' = Idle
      \/ ExactIdentity(run.outer) = approved /\ run' = [run EXCEPT !.pc = "load"]
  BY DEF Compare, Fail
<1>3. CASE ExactIdentity(run.outer) = approved /\ run' = [run EXCEPT !.pc = "load"]
  <2>1. run' \in Run /\ run'.pc = "load" /\ run'.tag = run.tag /\ run'.outer = run.outer
    BY <1>1, <1>3 DEF Run
  <2>2. RunIsSound'
    BY <1>1, <1>3, <2>1 DEF Inv, RunIsSound, Compare, ValidateOuter
  <2> QED
    BY <2>1, <2>2, RunKeeps DEF Compare, Inv, TypeOK, ApprovedIsSound, HostIsSound
<1> QED
  BY <1>2, <1>3, IdleKeeps DEF Compare

LEMMA DownloadKeeps == ASSUME Inv, Download PROVE Inv'
<1>1. run \in Run /\ run.pc = "load" /\ run.tag \in Tag
  BY DEF Inv, TypeOK, RunIsSound, Download, RunAt
<1>2. PICK a \in DOMAIN run.got :
        LET content == published[run.tag].assets[a]
            got == [run.got EXCEPT ![a] = content]
        IN IF content = Nil THEN Fail
           ELSE run' = [run EXCEPT !.got = got,
                                   !.pc = IF \E b \in DOMAIN got : got[b] = Nil
                                            THEN "load" ELSE "verify"]
  BY DEF Download
<1> DEFINE content == published[run.tag].assets[a]
           got == [run.got EXCEPT ![a] = content]
<1>3. got \in [{"installer", "bundle", "signed"} -> UNION {Build, Bundle, Manifest, {Nil}}]
  <2>1. a \in {"installer", "bundle", "signed"}
    BY <1>1 DEF Run
  <2>2. content \in Content(a) \cup {Nil}
    BY <1>1, <2>1 DEF Inv, TypeOK, Asset
  <2>3. content \in UNION {Build, Bundle, Manifest, {Nil}}
    BY <2>1, <2>2 DEF Content
  <2> QED
    BY <1>1, <2>3 DEF Run
<1>4. run' = Idle \/ \E pc \in {"load", "verify"} : run' = [run EXCEPT !.got = got, !.pc = pc]
  BY <1>2 DEF Fail
<1> HIDE DEF content, got
<1>5. ASSUME NEW pc \in {"load", "verify"}, run' = [run EXCEPT !.got = got, !.pc = pc]
      PROVE  Inv'
  <2>1. run' \in Run /\ run'.pc = pc /\ run'.tag = run.tag /\ run'.outer = run.outer
    BY <1>1, <1>3, <1>5 DEF Run
  <2>2. RunIsSound'
    BY <1>1, <2>1 DEF Inv, RunIsSound, Download, ValidateOuter
  <2> QED
    BY <2>1, <2>2, RunKeeps DEF Download, Inv, TypeOK, ApprovedIsSound, HostIsSound
<1> QED
  BY <1>4, <1>5, IdleKeeps DEF Download

LEMMA VerifyKeeps == ASSUME Inv, Verify PROVE Inv'
<1>1. run \in Run /\ run.pc = "verify"
  BY DEF Inv, TypeOK, Verify, RunAt
<1>2. \/ run' = Idle
      \/ /\ run.got = [installer |-> approved.installer, bundle |-> approved.bundle,
                        signed |-> approved.signed]
         /\ run' = [run EXCEPT !.pc = "install"]
  BY DEF Verify, Fail
<1>3. CASE /\ run.got = [installer |-> approved.installer, bundle |-> approved.bundle,
                         signed |-> approved.signed]
           /\ run' = [run EXCEPT !.pc = "install"]
  <2>1. /\ run' \in Run /\ run'.pc = "install" /\ run'.tag = run.tag /\ run'.outer = run.outer
        /\ run'.got = run.got
    BY <1>1, <1>3 DEF Run
  <2>2. RunIsSound'
    BY <1>1, <1>3, <2>1 DEF Inv, RunIsSound, Verify, ValidateOuter
  <2> QED
    BY <2>1, <2>2, RunKeeps DEF Verify, Inv, TypeOK, ApprovedIsSound, HostIsSound
<1> QED
  BY <1>2, <1>3, IdleKeeps DEF Verify

(* The bundle that ReadBundle accepts is the one of the signed manifest.    *)
LEMMA InstallKeeps == ASSUME Inv, Install PROVE Inv'
<1>1. /\ run.got = [installer |-> approved.installer, bundle |-> approved.bundle,
                    signed |-> approved.signed]
      /\ approved # Nil /\ approved \in Identity
      /\ approved.signed = SignedFor(approved.release, approved.images, Audited)
  BY DEF Inv, TypeOK, RunIsSound, ApprovedIsSound, Install, RunAt
<1>2. host' = Nil \/ /\ host' = [installer |-> approved.installer, bundle |-> approved.bundle]
                     /\ approved.bundle.manifest = approved.signed
                     /\ approved.bundle.files = approved.bundle.manifest.files
  BY <1>1 DEF Install, ReadBundle, Request
<1>3. approved.bundle \in Bundle /\ approved.installer \in Build
  BY <1>1 DEF Identity
<1>4. host' \in [installer : Build, bundle : Bundle] \cup {Nil}
  BY <1>2, <1>3
<1>5. host' # Nil => approved.bundle = BuildBundle(approved.release, approved.images, Audited)
  <2> SUFFICES ASSUME host' # Nil PROVE approved.bundle = [manifest |-> approved.signed, files |-> approved.images]
    BY <1>1 DEF BuildBundle
  <2>1. approved.bundle.files = approved.images
    BY <1>1, <1>2 DEF SignedFor
  <2> QED
    BY <1>2, <1>3, <2>1 DEF Bundle
<1>6. approved' = approved
  BY DEF Install
<1>7. HostIsSound'
  BY <1>1, <1>2, <1>5, <1>6 DEF HostIsSound
<1>8. run' \in Run /\ run'.pc = "idle"
  BY DEF Install, Fail, Idle, Run, Nothing, Stable
<1>9. RunIsSound'
  BY <1>8 DEF RunIsSound
<1> QED
  BY <1>4, <1>6, <1>7, <1>8, <1>9, RunKeeps DEF Install, Inv, TypeOK, ApprovedIsSound

LEMMA NextKeeps == Inv /\ [Next]_vars => Inv'
<1> SUFFICES ASSUME Inv, [Next]_vars PROVE Inv'
  OBVIOUS
<1>1. CASE GitHub
  BY <1>1, GitHubKeeps
<1>2. CASE Step
  BY <1>2, StartKeeps, ReadPublicationKeeps, ReadOuterKeeps, ReadSignedKeeps, ApproveKeeps,
     CompareKeeps, DownloadKeeps, VerifyKeeps, InstallKeeps DEF Step
<1>3. CASE Decline
  BY <1>3, IdleKeeps DEF Decline, Fail
<1>4. CASE UNCHANGED vars
  BY <1>4 DEF vars, Inv, TypeOK, PublishedIsGenuine, RunIsSound, ApprovedIsSound, HostIsSound
<1> QED
  BY <1>1, <1>2, <1>3, <1>4 DEF Next

-----------------------------------------------------------------------------
(* The inductive invariant holds, and with it the types: whatever GitHub    *)
(* serves, a run past ReadSigned holds a manifest that the audited key      *)
(* signed for its tag, and one past Compare the approved identity.          *)
THEOREM InvariantHolds == Spec => []Inv
<1> QED
  BY InitInv, NextKeeps, PTL DEF Spec

THEOREM TypeCorrect == Spec => []TypeOK
<1>1. Inv => TypeOK
  BY DEF Inv
<1> QED
  BY <1>1, InvariantHolds, PTL

(* An identity that a plan may carry, though its parts are read one after   *)
(* the other, is that of one signed release (resolve and exact_identity).   *)
THEOREM OneRelease == Spec => []IdentityIsOfOneRelease
<1>1. Inv => IdentityIsOfOneRelease
  <2> SUFFICES ASSUME Inv PROVE IdentityIsOfOneRelease
    OBVIOUS
  <2>1. RunAt("identity") => \E b \in Build : run.outer.signed = SignedFor(run.tag, b, Audited)
    BY DEF Inv, RunIsSound, RunAt, Outer
  <2>2. approved # Nil => approved.signed.updater = approved.updater
    BY DEF Inv, ApprovedIsSound, SignedFor
  <2> QED
    BY <2>1, <2>2 DEF Inv, ApprovedIsSound, IdentityIsOfOneRelease
<1> QED
  BY <1>1, InvariantHolds, PTL

(* What a host runs is the approved installer and the bundle that the       *)
(* audited key signed for the approved tag and images (install_host and     *)
(* VerifiedBundle::read).                                                   *)
THEOREM SignedRuns == Spec => []HostRunsWhatWasSigned
<1>1. Inv => HostRunsWhatWasSigned
  <2> SUFFICES ASSUME Inv, host # Nil PROVE HostRunsWhatWasSigned
    BY DEF HostRunsWhatWasSigned
  <2>1. /\ approved \in Identity
        /\ host = [installer |-> approved.installer, bundle |-> approved.bundle]
        /\ approved.bundle = BuildBundle(approved.release, approved.images, Audited)
        /\ approved.updater = approved.images
    BY DEF Inv, TypeOK, HostIsSound, ApprovedIsSound
  <2>2. approved.images \in Build
    BY <2>1 DEF Identity
  <2>3. /\ host.bundle.manifest.images = approved.images
        /\ host.bundle.manifest.updater = approved.updater
    BY <2>1 DEF BuildBundle, SignedFor
  <2> QED
    BY <2>1, <2>2, <2>3 DEF HostRunsWhatWasSigned
<1> QED
  BY <1>1, InvariantHolds, PTL
=============================================================================
