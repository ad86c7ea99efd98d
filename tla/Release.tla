------------------------------- MODULE Release -------------------------------
(* A desktop release: the Mac's publish-github.sh and the Windows CI run it *)
(* starts put their files into one GitHub release, a draft until the Mac's  *)
(* script has checked it, made it public, and looked at what clients see.   *)
(* Either may die at any step, and be started again.                        *)
EXTENDS Integers, Sequences, FiniteSets

CONSTANTS CIRuns,           \* CI runs that may be dispatched
          UPLOAD_TRIES, LIVE_TRIES,
          MaxDeaths, MaxScripts   \* bounds: processes lost, starts of the script

ASSUME ReleaseAssumption == UPLOAD_TRIES \in Nat \ {0} /\ LIVE_TRIES \in Nat \ {0} /\ "mac" \notin CIRuns

VARIABLES
    github,    \* "none", "draft" or "public"
    tagged,    \* the tag is in the repository
    assets,    \* asset name -> how far it is, and whose build it is
    at,        \* process -> the command it is at
    pos, tries,\* process -> the file it uploads, and the attempt
    myRun,      \* the CI run the script waits for
    said,      \* what the script ended with
    alone,     \* history: no CI run was under way at any check of the release,
               \* nor when another was started for a public one
    deaths, scripts

releaseVars == <<github, tagged, assets, at, pos, tries, myRun, said, alone, deaths, scripts>>
githubVars == <<github, tagged>>

Mac == "mac"
Workers == CIRuns \cup {Mac}
Manifests == {"win.yml", "mac.yml"}
expectedManifests == Manifests
Named == [y \in Manifests |-> IF y = "win.yml" THEN "exe" ELSE "dmg"]
Names == Manifests \cup {Named[y] : y \in Manifests}
NoRun == "none"

\* Everybody has an installer and its manifest: installers first, manifests last.
FilesOf(w) == IF w = Mac THEN {"mac.yml", "dmg"} ELSE {"exe", "win.yml"}
uploadOrder(files) == <<CHOOSE f \in files : f \notin Manifests, CHOOSE f \in files : f \in Manifests>>
AbsentAsset == [state |-> "absent", of |-> NoRun]
\* Every file a manifest names is there; an asset's size stands for its bytes.
OtherBytes(a) == {y \in expectedManifests : a[Named[y]].of # a[y].of}
problemsUnsized(a) == {n \in Names : a[n].state # "uploaded"}
problems(a) == {n \in Names : a[n].state # "uploaded"} \cup OtherBytes(a)
landed(a, w) == a.state = "uploaded" /\ a.of = w

ReleaseInit ==
    /\ github = "none" /\ tagged = FALSE
    /\ assets = [n \in Names |-> AbsentAsset]
    /\ at = [w \in Workers |-> "off"] /\ pos = [w \in Workers |-> 1] /\ tries = [w \in Workers |-> 0]
    /\ myRun = NoRun /\ said = "" /\ alone = TRUE /\ deaths = 0 /\ scripts = 0

Goes(w, step) == at' = [at EXCEPT ![w] = step]
Ends(w, word) == Goes(w, "ended") /\ said' = (IF w = Mac THEN word ELSE said)
Running(w) == at[w] \notin {"off", "ended", "succeeded"}
NoneRuns == \A c \in CIRuns : ~Running(c)

StartsScript ==
    /\ ~Running(Mac) /\ scripts < MaxScripts /\ scripts' = scripts + 1
    /\ Goes(Mac, "ensure") /\ said' = "" /\ myRun' = NoRun
    /\ UNCHANGED <<githubVars, assets, pos, tries, alone, deaths>>
\* A lost network, a time limit, somebody's Ctrl-C.
Dies(w) ==
    /\ Running(w) /\ deaths < MaxDeaths /\ deaths' = deaths + 1
    /\ Ends(w, "died")
    /\ UNCHANGED <<githubVars, assets, pos, tries, myRun, alone, scripts>>

\* Only this script's runs are dispatched: nobody else creates the release.
ensureDraft(w) ==
    /\ at[w] = "ensure" /\ Goes(w, IF w = Mac THEN "has" ELSE "upload")
    /\ github' = IF github = "none" THEN "draft" ELSE github
    /\ pos' = [pos EXCEPT ![w] = 1] /\ tries' = [tries EXCEPT ![w] = 0]
    /\ UNCHANGED <<tagged, assets, myRun, said, alone, deaths, scripts>>
\* Windows is skipped when its manifest, which goes up last, is there.
Has ==
    /\ at[Mac] = "has"
    /\ \/ assets["win.yml"].state = "uploaded" /\ Goes(Mac, "upload") /\ UNCHANGED <<myRun, alone>>
       \/ /\ assets["win.yml"].state # "uploaded"
          /\ \E c \in CIRuns : at[c] = "off" /\ at' = [at EXCEPT ![c] = "ensure", ![Mac] = "watch"] /\ myRun' = c
          /\ alone' = (alone /\ (github = "public" => NoneRuns))
    /\ UNCHANGED <<githubVars, assets, pos, tries, said, deaths, scripts>>
Watches ==
    /\ at[Mac] = "watch" /\ ~Running(myRun)
    /\ IF at[myRun] = "succeeded" THEN Goes(Mac, "upload") /\ UNCHANGED said ELSE Ends(Mac, "CI failed")
    /\ UNCHANGED <<githubVars, assets, pos, tries, myRun, alone, deaths, scripts>>

Current(w) == uploadOrder(FilesOf(w))[pos[w]]
Next1(w) ==
    IF pos[w] = Len(uploadOrder(FilesOf(w)))
    THEN Goes(w, IF w = Mac THEN "publish" ELSE "succeeded") /\ UNCHANGED pos
    ELSE Goes(w, "upload") /\ pos' = [pos EXCEPT ![w] = @ + 1]
\* What is there is skipped if it is these bytes, and cleared if not.
UploadLooks(w) ==
    /\ at[w] = "upload"
    /\ IF landed(assets[Current(w)], w)
       THEN Next1(w) /\ tries' = [tries EXCEPT ![w] = 0] /\ UNCHANGED assets
       ELSE /\ Goes(w, "stream") /\ UNCHANGED <<pos, tries>>
            /\ assets' = [assets EXCEPT ![Current(w)] = AbsentAsset]
    /\ UNCHANGED <<githubVars, myRun, said, alone, deaths, scripts>>
\* However the transfer ends, GitHub's record tells: nothing, half, or all of
\* it; another's asset of that name stops it.
streamUp(w) ==
    /\ at[w] = "stream" /\ Goes(w, "landed?")
    /\ \/ assets[Current(w)].state # "absent" /\ UNCHANGED assets
       \/ /\ assets[Current(w)].state = "absent"
          /\ \E got \in {"absent", "starter", "uploaded"} : assets' = [assets EXCEPT ![Current(w)] = [state |-> got, of |-> IF got = "absent" THEN NoRun ELSE w]]
    /\ UNCHANGED <<githubVars, pos, tries, myRun, said, alone, deaths, scripts>>
UploadAsks(w) ==
    /\ at[w] = "landed?"
    /\ \/ landed(assets[Current(w)], w) /\ Next1(w) /\ tries' = [tries EXCEPT ![w] = 0] /\ UNCHANGED said
       \/ /\ ~landed(assets[Current(w)], w) /\ UNCHANGED pos
          /\ IF tries[w] + 1 = UPLOAD_TRIES THEN Ends(w, "upload failed") /\ UNCHANGED tries
             ELSE Goes(w, "upload") /\ tries' = [tries EXCEPT ![w] = @ + 1] /\ UNCHANGED said
    /\ UNCHANGED <<githubVars, assets, myRun, alone, deaths, scripts>>

verify ==
    /\ at[Mac] = "publish"
    /\ IF problems(assets) = {} THEN Goes(Mac, "flip") /\ UNCHANGED said ELSE Ends(Mac, "incomplete")
    /\ alone' = (alone /\ NoneRuns)
    /\ UNCHANGED <<githubVars, assets, pos, tries, myRun, deaths, scripts>>
\* setDraft: GitHub may do it and the answer be lost.
GoesPublic ==
    /\ at[Mac] = "flip"
    /\ \E done, told \in BOOLEAN :
        /\ told => done
        /\ IF done THEN github' = "public" /\ tagged' = TRUE ELSE UNCHANGED <<github, tagged>>
        /\ IF told THEN Goes(Mac, "live") /\ tries' = [tries EXCEPT ![Mac] = 0] /\ UNCHANGED said
                   ELSE Ends(Mac, "could not publish") /\ UNCHANGED tries
    /\ UNCHANGED <<assets, pos, myRun, alone, deaths, scripts>>
\* The public URLs may lag, or not answer.
LiveCheck ==
    /\ at[Mac] = "live"
    /\ \/ problems(assets) = {} /\ github = "public" /\ Ends(Mac, "live") /\ UNCHANGED tries
       \/ /\ UNCHANGED said
          /\ IF tries[Mac] + 1 = LIVE_TRIES THEN Goes(Mac, "rollback") /\ UNCHANGED tries
             ELSE tries' = [tries EXCEPT ![Mac] = @ + 1] /\ UNCHANGED at
    /\ UNCHANGED <<githubVars, assets, pos, myRun, alone, deaths, scripts>>
\* Without a re-draft that is known to have worked, the manifests are pulled.
GivesUp == Ends(Mac, "rolled back")
WhenNotRedrafted == Goes(Mac, "pull") /\ UNCHANGED said
Rollback ==
    /\ at[Mac] = "rollback"
    /\ \E done, told \in BOOLEAN :
        /\ told => done
        /\ github' = IF done THEN "draft" ELSE github
        /\ IF told THEN Ends(Mac, "rolled back") ELSE WhenNotRedrafted
    /\ tagged' = FALSE
    /\ UNCHANGED <<assets, pos, tries, myRun, alone, deaths, scripts>>
PullsManifests ==
    /\ at[Mac] = "pull" /\ Ends(Mac, "manifests deleted")
    /\ assets' = [n \in Names |-> IF n \in Manifests THEN AbsentAsset ELSE assets[n]]
    /\ UNCHANGED <<githubVars, pos, tries, myRun, alone, deaths, scripts>>

ReleaseNext ==
    \/ StartsScript \/ Has \/ Watches \/ verify \/ GoesPublic \/ LiveCheck \/ Rollback \/ PullsManifests
    \/ \E w \in Workers : Dies(w) \/ ensureDraft(w) \/ UploadLooks(w) \/ streamUp(w) \/ UploadAsks(w)

ReleaseSpec == ReleaseInit /\ [][ReleaseNext]_releaseVars

-----------------------------------------------------------------------------
Offered(y) == github = "public" /\ assets[y].state = "uploaded"

(* A manifest clients can read names a file they can get, whole and of the  *)
(* same build, whatever died and was started again, if no CI run was still  *)
(* under way as it was checked, or as another was started for what clients  *)
(* already see (publish-github.sh's steps 3-4).                             *)
ClientsFindTheFile == alone => \A y \in Manifests : Offered(y) => landed(assets[Named[y]], assets[y].of)

(* A publish that says it took the release back leaves clients nothing to   *)
(* update to (release-assets.mjs:300-306).                                  *)
TakenBack == said \in {"rolled back", "manifests deleted"} /\ ~Running(Mac) /\ alone => \A y \in Manifests : ~Offered(y)

(* The two together: a release is offered whole, or not at all.             *)
OfferedWholeOrNot == ClientsFindTheFile /\ TakenBack
=============================================================================
