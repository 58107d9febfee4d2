----------------------------- MODULE ReleaseChain -----------------------------
(***************************************************************************)
(* From a published release to the files a host runs.  Planning resolves   *)
(* a release from GitHub and the approved plan records its exact identity; *)
(* every installation resolves the approved tag again, downloads its       *)
(* assets and hands them to the host installer, which reads the bundle.    *)
(* Between any two requests the publication may change: a newer release,   *)
(* an asset replaced or removed, a release withdrawn.                      *)
(* A digest stands for the content it is the digest of, and the signature  *)
(* of a manifest for the key that made it.                                 *)
(***************************************************************************)
EXTENDS Naturals, FiniteSets

CONSTANTS
  Tag,         \* release tags
  Build,       \* builds of the installer, of the runtime files and of the images
  Other,       \* a signing key that is not the audited one
  Audited,     \* the audited key embedded in the CLI
  MaxChanges,  \* bound on changes to the publications
  Nil          \* absent

ASSUME ReleaseAssumption ==
  /\ MaxChanges \in Nat
  /\ Audited # Other

SigningKey == {Audited, Other}
Stable == "stable"  \* ReleaseSelection::Stable; an exact selection is its tag

-------------------------------------------------------------------------------
(* The contents of a release's assets.                                      *)

Manifest == [release : Tag, images : Build, updater : Build, files : Build, by : SigningKey]
Bundle == [manifest : Manifest, files : Build]
Outer == [release : Tag, installer : Build, bundle : Bundle, signed : Manifest, images : Build,
          updater : Build, key : SigningKey]

\* build_bundle signs the digests of the files it packs.
SignedFor(t, b, k) == [release |-> t, images |-> b, updater |-> b, files |-> b, by |-> k]
BuildBundle(t, b, k) == [manifest |-> SignedFor(t, b, k), files |-> b]
OuterFor(t, b, k) ==
  [release |-> t, installer |-> b, bundle |-> BuildBundle(t, b, k), signed |-> SignedFor(t, b, k),
   images |-> b, updater |-> b, key |-> k]

Asset == {"outer", "installer", "bundle", "signed"}
Content(a) == CASE a = "outer" -> Outer [] a = "installer" -> Build
                [] a = "bundle" -> Bundle [] a = "signed" -> Manifest
Release(t, b, k) ==
  [outer |-> OuterFor(t, b, k), installer |-> b, bundle |-> BuildBundle(t, b, k),
   signed |-> SignedFor(t, b, k)]
NoAssets == [a \in Asset |-> Nil]

(* What an asset may be replaced by: that of another build, tag or key, or  *)
(* one with a part of another.  No manifest carries a signature of the      *)
(* audited key that build_bundle did not make.                              *)
Replacement(a, t) ==
  {Release(u, b, k)[a] : u \in Tag, b \in Build, k \in SigningKey}
  \cup CASE a = "signed" -> {[SignedFor(t, b, Other) EXCEPT !.files = c] : b, c \in Build}
         [] a = "bundle" -> {[BuildBundle(t, b, Audited) EXCEPT !.files = c] : b, c \in Build}
         [] a = "outer" ->
              LET o(b) == OuterFor(t, b, Audited)
              IN UNION {{[o(b) EXCEPT !.installer = c], [o(b) EXCEPT !.images = c],
                         [o(b) EXCEPT !.updater = c],
                         [o(b) EXCEPT !.bundle = o(c).bundle], [o(b) EXCEPT !.signed = o(c).signed],
                         [o(b) EXCEPT !.signed = SignedFor(t, c, Other)],
                         [o(b) EXCEPT !.bundle = [o(b).bundle EXCEPT !.files = c]]} :
                        b, c \in Build}
         [] OTHER -> {}

VARIABLES
  published,  \* the releases on GitHub: what they hold, and whether they are stable
  latest,     \* the tag that GitHub serves as the latest release
  changes,    \* changes to them so far
  run,        \* the running command
  approved,   \* the release identity in the approved plan
  host        \* what the host installer installed

vars == <<published, latest, changes, run, approved, host>>

Identity == [release : Tag, manifest : Outer, installer : Build, bundle : Bundle,
             signed : Manifest, key : SigningKey, images : Build, updater : Build]

Run == [pc : {"idle", "publication", "outer", "signed", "identity", "load", "verify", "install"},
        selection : Tag \cup {Stable}, tag : Tag \cup {Nil}, listed : SUBSET Asset,
        outer : Outer \cup {Nil},
        got : [{"installer", "bundle", "signed"} -> UNION {Build, Bundle, Manifest, {Nil}}]]
Nothing == [a \in {"installer", "bundle", "signed"} |-> Nil]
Idle == [pc |-> "idle", selection |-> Stable, tag |-> Nil, listed |-> {}, outer |-> Nil,
         got |-> Nothing]

TypeOK ==
  /\ published \in [Tag -> [stable : BOOLEAN,
                            assets : [Asset -> {Nil} \cup UNION {Content(a) : a \in Asset}]]]
  /\ \A t \in Tag, a \in Asset : published[t].assets[a] \in Content(a) \cup {Nil}
  /\ latest \in Tag
  /\ changes \in 0 .. MaxChanges
  /\ run \in Run
  /\ approved \in Identity \cup {Nil}
  /\ host \in [installer : Build, bundle : Bundle] \cup {Nil}

Init ==
  \E first \in Tag, b \in Build :
    /\ published = [t \in Tag |-> IF t = first
                                    THEN [stable |-> TRUE, assets |-> Release(t, b, Audited)]
                                    ELSE [stable |-> FALSE, assets |-> NoAssets]]
    /\ latest = first
    /\ changes = 0 /\ run = Idle /\ approved = Nil /\ host = Nil

-------------------------------------------------------------------------------
(* The publications.                                                        *)

Change(t, release) ==
  /\ changes < MaxChanges
  /\ changes' = changes + 1
  /\ published' = [published EXCEPT ![t] = release]
  /\ UNCHANGED <<run, approved, host>>

\* A build is released under a tag and becomes the latest release.
Publish(t, b) ==
  /\ Change(t, [stable |-> TRUE, assets |-> Release(t, b, Audited)])
  /\ latest' = t

\* One asset is replaced by other bytes, or removed.
Replace(t, a, content) ==
  /\ published[t].assets[a] \notin {Nil, content}
  /\ Change(t, [published[t] EXCEPT !.assets[a] = content])
  /\ UNCHANGED latest

\* A release becomes a draft or a prerelease.
Withdraw(t) ==
  /\ published[t].stable
  /\ Change(t, [published[t] EXCEPT !.stable = FALSE])
  /\ UNCHANGED latest

GitHub ==
  \E t \in Tag :
    \/ \E b \in Build : Publish(t, b)
    \/ \E a \in Asset : \E content \in Replacement(a, t) \cup {Nil} : Replace(t, a, content)
    \/ Withdraw(t)

-------------------------------------------------------------------------------
(* Resolving a release.                                                     *)

RunAt(pc) == run.pc = pc
Fail == run' = Idle
Unchanging == UNCHANGED <<published, latest, changes>>

\* As if an installation resolved the latest release.
StartLatest ==
  /\ RunAt("idle")
  /\ host = Nil
  /\ run' = [Idle EXCEPT !.pc = "publication"]
  /\ UNCHANGED <<approved, host>> /\ Unchanging

\* Planning resolves the user's selection, an installation the approved tag.
Start ==
  /\ RunAt("idle")
  /\ host = Nil
  /\ \E s \in IF approved = Nil THEN Tag \cup {Stable} ELSE {approved.release} :
       run' = [Idle EXCEPT !.pc = "publication", !.selection = s]
  /\ UNCHANGED <<approved, host>> /\ Unchanging

\* A release that has not been published has no assets.
ReadPublication ==
  /\ RunAt("publication")
  /\ LET t == IF run.selection = Stable THEN latest ELSE run.selection
         listed == {a \in Asset : published[t].assets[a] # Nil}
     IN IF published[t].stable /\ "outer" \in listed
          THEN run' = [run EXCEPT !.pc = "outer", !.tag = t, !.listed = listed]
          ELSE Fail
  /\ UNCHANGED <<approved, host>> /\ Unchanging

ValidateOuter(outer, t) == outer.release = t /\ outer.key = Audited

\* The outer manifest is not signed: only its digests bind the other assets.
ReadOuter ==
  /\ RunAt("outer")
  /\ LET outer == published[run.tag].assets["outer"]
     IN IF outer # Nil /\ ValidateOuter(outer, run.tag) /\ run.listed = Asset
          THEN run' = [run EXCEPT !.pc = "signed", !.outer = outer]
          ELSE Fail
  /\ UNCHANGED <<approved, host>> /\ Unchanging

\* As if the signature were not checked.
VerifySignedNever(signed, key, t) == signed.release = t

VerifySigned(signed, key, t) == signed.release = t /\ signed.by = key

ValidateSigned(signed, outer) ==
  signed.images = outer.images /\ signed.updater = outer.updater

\* ExactAsset::verify: the bytes have the digest that the outer manifest gives.
VerifyAsset(content, digest) == content # Nil /\ content = digest

ReadSigned ==
  /\ RunAt("signed")
  /\ LET signed == published[run.tag].assets["signed"]
     IN IF /\ VerifyAsset(signed, run.outer.signed)
           /\ VerifySigned(signed, Audited, run.outer.release)
           /\ ValidateSigned(signed, run.outer)
          THEN run' = [run EXCEPT !.pc = "identity"]
          ELSE Fail
  /\ UNCHANGED <<approved, host>> /\ Unchanging

ExactIdentity(outer) ==
  [release |-> outer.release, manifest |-> outer, installer |-> outer.installer,
   bundle |-> outer.bundle, signed |-> outer.signed, key |-> outer.key, images |-> outer.images,
   updater |-> outer.updater]

\* The plan that carries the identity is shown and approved.
Approve ==
  /\ RunAt("identity")
  /\ approved = Nil
  /\ approved' = ExactIdentity(run.outer)
  /\ run' = Idle
  /\ UNCHANGED host /\ Unchanging

\* The plan is not approved.
Decline ==
  /\ RunAt("identity")
  /\ approved = Nil
  /\ Fail
  /\ UNCHANGED <<approved, host>> /\ Unchanging

\* install_host refuses a release that is not the approved one to the last digest.
Compare ==
  /\ RunAt("identity")
  /\ approved # Nil
  /\ IF ExactIdentity(run.outer) = approved THEN run' = [run EXCEPT !.pc = "load"] ELSE Fail
  /\ UNCHANGED <<approved, host>> /\ Unchanging

-------------------------------------------------------------------------------
(* Loading it and handing it to the host.                                   *)

\* load downloads the three assets at once.
Download ==
  /\ RunAt("load")
  /\ \E a \in DOMAIN run.got :
       LET content == published[run.tag].assets[a]
           got == [run.got EXCEPT ![a] = content]
       IN /\ run.got[a] = Nil
          /\ IF content = Nil THEN Fail
             ELSE run' = [run EXCEPT !.got = got,
                                     !.pc = IF \E b \in DOMAIN got : got[b] = Nil
                                              THEN "load" ELSE "verify"]
  /\ UNCHANGED <<approved, host>> /\ Unchanging

Verify ==
  /\ RunAt("verify")
  /\ IF /\ VerifyAsset(run.got["installer"], run.outer.installer)
        /\ VerifyAsset(run.got["bundle"], run.outer.bundle)
        /\ VerifyAsset(run.got["signed"], run.outer.signed)
        /\ VerifySigned(run.got["signed"], Audited, approved.release)
        /\ run.got = [installer |-> approved.installer, bundle |-> approved.bundle,
                      signed |-> approved.signed]
       THEN run' = [run EXCEPT !.pc = "install"]
       ELSE Fail
  /\ UNCHANGED <<approved, host>> /\ Unchanging

\* The fields of InstallRequest that the bundle is read against.
Request ==
  [release |-> approved.release, bundle |-> approved.bundle, manifest |-> approved.signed,
   key |-> Audited, updater |-> run.outer.updater]

\* As if the host read the bundle by its digest alone.
ReadBundleByDigest(bundle, request) == bundle = request.bundle

\* VerifiedBundle::read; the images it lists are bound by the manifest's digest alone.
ReadBundle(bundle, request) ==
  /\ bundle = request.bundle
  /\ bundle.manifest = request.manifest
  /\ bundle.manifest.by = request.key
  /\ bundle.manifest.release = request.release
  /\ bundle.manifest.updater = request.updater
  /\ bundle.files = bundle.manifest.files

Install ==
  /\ RunAt("install")
  /\ host' = IF ReadBundle(run.got["bundle"], Request)
               THEN [installer |-> run.got["installer"], bundle |-> run.got["bundle"]]
               ELSE Nil
  /\ Fail
  /\ UNCHANGED approved /\ Unchanging

Step == Start \/ ReadPublication \/ ReadOuter \/ ReadSigned \/ Approve \/ Compare \/ Download
        \/ Verify \/ Install

Next == GitHub \/ Step \/ Decline

(* A command that runs goes on, and one that failed is run again: `apply`   *)
(* is repeated until the host is installed.                                 *)
Spec == Init /\ [][Next]_vars /\ WF_vars(Step)

-------------------------------------------------------------------------------
(* Properties.                                                              *)

(* What runs on the host is what was approved, signed as a whole: the       *)
(* installer and the bundle are those of the approved identity, and the     *)
(* files, images and updater are those of one manifest that the audited key *)
(* signed for the approved tag, whatever was published before, between and  *)
(* after.                                                                   *)
HostRunsWhatWasSigned ==
  host # Nil =>
    /\ host.installer = approved.installer /\ host.bundle = approved.bundle
    /\ \E b \in Build : host.bundle = BuildBundle(approved.release, b, Audited)
    /\ host.bundle.manifest.images = approved.images
    /\ host.bundle.manifest.updater = approved.updater

(* An identity that a plan may carry is that of one release, though its     *)
(* parts are read one after the other: its signed manifest was made with    *)
(* the audited key for its tag and lists the images that the plan shows,    *)
(* with the updater it names.                                               *)
IdentityIsOfOneRelease ==
  /\ RunAt("identity") => \E b \in Build : run.outer.signed = SignedFor(run.tag, b, Audited)
  /\ approved # Nil =>
       /\ approved.signed = SignedFor(approved.release, approved.images, Audited)
       /\ approved.signed.updater = approved.updater

(* The release that was approved is still there: nothing of it replaced,    *)
(* removed or withdrawn, and its bundle is the one its manifest describes.  *)
Intact ==
  approved # Nil /\
  LET release == published[approved.release]
  IN /\ release.stable
     /\ release.assets = [outer |-> approved.manifest, installer |-> approved.installer,
                          bundle |-> approved.bundle, signed |-> approved.signed]
     /\ approved.bundle = [manifest |-> approved.signed, files |-> approved.signed.files]

(* An approved release is installed in the end, also when a newer one has   *)
(* been published since, unless the release itself is tampered with.        *)
InstalledEventually == approved # Nil ~> (host # Nil \/ ~Intact)

===============================================================================
