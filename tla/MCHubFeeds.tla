---------------------------- MODULE MCHubFeeds ----------------------------
\* The two feeds share nothing but the hub: a behaviour follows one of them.
EXTENDS DeviceFeed, HubMode
CONSTANT Parts
VARIABLE part
feedsVars == <<part, feedVars, modeVars>>
Init == part \in Parts /\ FeedInit /\ ModeInit
        /\ (part = "mode" => dev = "off" /\ row = NoValue)
        /\ (part = "device" => hubMode = "Day" /\ active = {} /\ ~paused)
Next == /\ UNCHANGED part
        /\ \/ part = "device" /\ FeedNext /\ UNCHANGED modeVars
           \/ part = "mode" /\ ModeNext /\ UNCHANGED feedVars
Spec == Init /\ [][Next]_feedsVars
        /\ (part = "device" => FeedFairness) /\ (part = "mode" => ModeFairness)
\* The mode the hub keeps is the active one in the end (HubMode.ModeRecovers).
ModeRecovered == part = "mode" => ModeRecovers
=============================================================================
