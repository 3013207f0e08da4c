---------------------------- MODULE MCHubPublish ----------------------------
(***************************************************************************)
(* HubPublish on small instances, and what comments of the code say of it. *)
(***************************************************************************)
EXTENDS HubPublish

\* hub/repo.go:233: "publishNewCommits invokes r.publish for every 'ci' event
\* whose rid is strictly greater than r.publishedRID".  A rid whose uuid
\* lookup fails is passed by the next rid of the same list.
EveryEventHanded ==
  \A e \in events : e <= publishedRID => e \in handed \cup grandfathered \cup late

\* hub/repo.go:62: "publishedRID is the highest 'ci' event rid that has been
\* emitted on the .commit subject".  Stop closes the NATS client before it
\* ends the catchup, and Repo.Commit is not stopped at all: their publishes
\* fail, are logged, and move the watermark.
WatermarkEmitted ==
  \A e \in events :
    e <= publishedRID => e \in onWire \cup skipped \cup grandfathered \cup late

\* hub/repo.go:238: "Both code paths that can land a new commit funnel through
\* here".  A commit that arrives on a .sync subject, or by the pull a .commit
\* notification starts, lands without a scan.
EveryLandingFunnels ==
  wired /\ stage # "catchupStopped" =>
    \A e \in events \ (Settled \cup missed) :
      \E c \in Caller :
        \/ pc[c] \in {"delay", "serving", "waiting", "holding"}
        \/ HoldsLock(c) /\ e \in newRIDs[c]

\* hub/repo.go:241: the wrapper calls publishNewCommits "after every xfer
\* request so commits arriving via `fossil push <hub-http>` from an external
\* CLI agent emit the same .commit notification a Repo.Commit caller would
\* have".  A check-in that took its rid as a phantom and is filled after a
\* commit with a higher rid was announced lies below the watermark: the scan
\* for objid > publishedRID never finds it.
PushesAnnounced ==
  wired /\ stage # "catchupStopped" =>
    \A e \in owed \ (Settled \cup missed) :
      \E c \in Caller :
        \/ pc[c] \in {"delay", "serving", "waiting", "holding"}
        \/ HoldsLock(c) /\ e \in newRIDs[c]

\* hub/repo.go:324: "failure to read or persist leaves publishedRID at its
\* zero value, which the subsequent publishNewCommits would treat as
\* 'republish everything'".  A failed read of an existing row takes the
\* snapshot of a first start instead and drops the backlog.
ReadFailureRepublishes ==
  [][diskRID # NoRow => grandfathered' = grandfathered]_vars
=============================================================================
