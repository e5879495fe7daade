----------------------------- MODULE Humidifier -----------------------------
(***************************************************************************)
(* One instance of the humidifier: a plug that is on while the air is dry, *)
(* somebody is in the room, nothing is open and the mode does not forbid   *)
(* it.  Events, the poll of 60 seconds and changes of mode evaluate in     *)
(* threads of their own; what they read is the event log and the table of  *)
(* modes, and the log's word on the plug decides whether a command is sent.*)
(*                                                                         *)
(* Source: apps/humidifier/app.py                                          *)
(***************************************************************************)
CONSTANTS AssumedDry,      \* the humidity assumed without a reading is below the threshold
          OffInRestricted, \* offInRestrictedMode
          MaxHappenings,   \* bound on what happens in the room
          MaxBad           \* bound on reads and commands that fail

ASSUME HumidifierAssumption == {AssumedDry, OffInRestricted} \subseteq BOOLEAN

LOCAL INSTANCE Integers

VARIABLES air,         \* what the log says: humidity, motion, contact and mode
          plug, said,  \* the plug, and what the log says of it
          off,         \* is_paused
          work,        \* what each thread is doing
          sum
humidifierVars == <<air, plug, said, off, work, sum>>

Workers == {"event", "poll", "mode"}
Airs == [humidity : {"none", "dry", "wet"}, motion : {"none", "active", "recent", "old"},
         contact : {"open", "closed"}, mode : {"unknown", "free", "restricted"}]
Plug == {"on", "off"}
AtRest == [pc |-> "idle", target |-> "off"]
HumidifierInit == /\ air \in {a \in Airs : a.mode = "free" /\ a.motion \in {"none", "active"}}
                  /\ plug \in Plug /\ said = plug /\ off = FALSE
                  /\ work = [t \in Workers |-> AtRest]
                  /\ sum = [room |-> 0, bad |-> 0]
Happening == sum.room < MaxHappenings /\ sum' = [sum EXCEPT !.room = @ + 1]
Bad == sum.bad < MaxBad /\ sum' = [sum EXCEPT !.bad = @ + 1]

(* The room *)
AirChanges(h, c) == /\ <<h, c>> # <<air.humidity, air.contact>> /\ Happening
                    /\ air' = [air EXCEPT !.humidity = h, !.contact = c]
                    /\ UNCHANGED <<plug, said, off, work>>
Motion(m) == /\ m # air.motion /\ (m = "recent" => air.motion = "active") /\ Happening
             /\ air' = [air EXCEPT !.motion = m]
             /\ UNCHANGED <<plug, said, off, work>>
NoMotionTime == /\ air.motion = "recent" /\ air' = [air EXCEPT !.motion = "old"]
                /\ UNCHANGED <<plug, said, off, work, sum>>
PlugByHand == /\ Happening /\ plug' \in Plug \ {plug}
              /\ UNCHANGED <<air, said, off, work>>
PlugLogged == /\ said # plug /\ said' = plug
              /\ UNCHANGED <<air, plug, off, work, sum>>

(* master *)
Dry(a) == IF a.humidity = "none" THEN AssumedDry ELSE a.humidity = "dry"
\* _motion_is_active: without any history somebody is there.
Occupied(a) == a.motion # "old"
Law(a) == IF a.mode = "restricted" THEN (IF OffInRestricted THEN "off" ELSE "leave")
          ELSE IF Dry(a) /\ Occupied(a) /\ a.contact = "closed" THEN "on" ELSE "off"
\* A read that fails gives no value: no mode, no reading, no motion, no contact.
Missing(a) == {[a EXCEPT !.mode = "unknown"], [a EXCEPT !.humidity = "none"],
               [a EXCEPT !.motion = "none"], [a EXCEPT !.contact = "closed"]}
Judge(t, a) == work' = [work EXCEPT ![t] = IF Law(a) = "leave" THEN AtRest
                                           ELSE [pc |-> "look", target |-> Law(a)]]
\* Variant: the poll judges the room only while motion keeps coming
MasterOnMotion(t) ==
    /\ work[t].pc = (IF t = "mode" THEN "master" ELSE "idle") /\ ~off
    /\ t = "poll" => air.motion = "active"
    /\ Judge(t, air) /\ UNCHANGED <<air, plug, said, off, sum>>
HumidifierMaster(t) ==
    /\ work[t].pc = (IF t = "mode" THEN "master" ELSE "idle") /\ ~off
    /\ \/ Judge(t, air) /\ UNCHANGED sum
       \/ Bad /\ \E a \in Missing(air) : Judge(t, a)
    /\ UNCHANGED <<air, plug, said, off>>
\* _apply: nothing is sent to a plug that is already there.
PlugLook(t) ==
    /\ work[t].pc = "look"
    /\ work' = [work EXCEPT ![t] = IF said = work[t].target THEN AtRest
                                   ELSE [work[t] EXCEPT !.pc = "send"]]
    /\ UNCHANGED <<air, plug, said, off, sum>>
PlugSend(t) ==
    /\ work[t].pc = "send"
    /\ \/ plug' = work[t].target /\ UNCHANGED sum
       \/ Bad /\ UNCHANGED plug
    /\ work' = [work EXCEPT ![t] = AtRest]
    /\ UNCHANGED <<air, said, off>>
\* on_mode_change and resume() call master(); the table of modes is written
\* after the apps have been told.
HumidifierMode(m) == /\ work["mode"].pc = "idle" /\ m # air.mode /\ Happening
                     /\ air' = [air EXCEPT !.mode = m]
                     /\ work' \in {work, [work EXCEPT !["mode"].pc = "master"]}
                     /\ UNCHANGED <<plug, said, off>>
HumidifierPauses == /\ ~off /\ Happening /\ off' = TRUE
                    /\ UNCHANGED <<air, plug, said, work>>
HumidifierResumes == /\ off /\ work["mode"].pc = "idle" /\ off' = FALSE
                     /\ work' = [work EXCEPT !["mode"].pc = "master"]
                     /\ UNCHANGED <<air, plug, said, sum>>

HumidifierNext ==
    \/ \E h \in {"dry", "wet"}, c \in {"open", "closed"} : AirChanges(h, c)
    \/ (\E m \in {"active", "recent"} : Motion(m)) \/ NoMotionTime \/ PlugByHand \/ PlugLogged
    \/ (\E m \in {"free", "restricted"} : HumidifierMode(m)) \/ HumidifierPauses \/ HumidifierResumes
    \/ \E t \in Workers : HumidifierMaster(t) \/ PlugLook(t) \/ PlugSend(t)

\* The poll comes back, commands go on, the log catches up.
HumidifierFairness == /\ WF_humidifierVars(NoMotionTime) /\ WF_humidifierVars(PlugLogged)
                      /\ SF_humidifierVars(HumidifierMaster("poll"))
                      /\ \A t \in Workers : WF_humidifierVars(PlugLook(t) \/ PlugSend(t))
HumidifierSpec == HumidifierInit /\ [][HumidifierNext]_humidifierVars /\ HumidifierFairness

HumidifierTypeOK == /\ air \in Airs /\ {plug, said} \subseteq Plug /\ off \in BOOLEAN
                    /\ work \in [Workers -> [pc : {"idle", "master", "look", "send"}, target : Plug]]

\* In a room that stays as it is the plug ends up as the law says, though the
\* log lags, a read or a command fails and another thread acts on what it read
\* before (app.py:158-231).
HumidifierFollowsLaw ==
    /\ <>[](~off /\ Law(air) = "on") => <>[](plug = "on")
    /\ <>[](~off /\ Law(air) = "off") => <>[](plug = "off")
=============================================================================
