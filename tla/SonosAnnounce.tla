---------------------------- MODULE SonosAnnounce ----------------------------
\* One speaker that is not grouped: announcements (services/sonos/announce.py),
\* the requests and alarms that play or set something themselves, and the job
\* that holds a locked volume.  Only announcements exclude each other.  Mute is
\* only read and written back, and left out.
EXTENDS Naturals
CONSTANTS Announcers,  \* threads that announce
          Hands,       \* the event loop, and an alarm that plays an mp3
          Volumes,     \* positive levels
          Normal,      \* those that the speaker may have at first
          Budgets      \* bounds (uses) announcements, requests and touches by a
                       \* listener, and (faults) failing calls and restarts
VARIABLES speaker,  \* what it plays and how
          stored,   \* its row in sonos_speakers
          voice, hand, enforcer,
          recent,   \* the last announcement ended within the debounce
          owed,     \* history: the speaker as everybody but announcements left it
          left
sonosVars == <<speaker, stored, voice, hand, enforcer, recent, owed, left>>
-----------------------------------------------------------------------------
Anything == [track |-> "any", state |-> "any", pos |-> "any", vol |-> 0]
Silent == [at |-> "idle", vol |-> 0, snap |-> Anything, ok |-> TRUE]
Free == [at |-> "idle", vol |-> 0]
Faulty == left.faults > 0 /\ left' = [left EXCEPT !.faults = @ - 1]
Used == left.uses > 0 /\ left' = [left EXCEPT !.uses = @ - 1]
Sounding(s) == s.state \in {"PLAYING", "TRANSITIONING"}
\* A snapshot has been taken and nothing was given back yet.
Speaking == \E a \in Announcers : voice[a].at \notin {"idle", "clip", "snap"}
\* Somebody else touched the speaker: that is what the listener is owed now, or
\* nothing in particular in the middle of an announcement.
Touches(s) == speaker' = s /\ owed' = IF s = speaker THEN owed ELSE IF Speaking THEN Anything ELSE s
SonosInit ==
    /\ speaker \in [track : {"none", "song"}, state : {"STOPPED"}, pos : {"start"}, vol : Normal]
              \cup [track : {"song"}, state : {"PLAYING"}, pos : {"start", "middle"}, vol : Normal]
              \cup [track : {"song"}, state : {"PAUSED_PLAYBACK"}, pos : {"middle"}, vol : Normal]
    /\ stored \in {[saved |-> 0, locked |-> FALSE, level |-> 0]} \cup [saved : {0}, locked : {TRUE}, level : Volumes]
    /\ voice = [a \in Announcers |-> Silent] /\ hand = [h \in Hands |-> Free] /\ enforcer = Free
    /\ recent = FALSE /\ owed = speaker
    /\ left \in Budgets
\* ---- what a call does to a speaker
WithUri(s, uri) == [s EXCEPT !.track = uri, !.state = "STOPPED", !.pos = "start"]
Started(s) == [s EXCEPT !.state = IF s.track = "none" THEN @ ELSE "TRANSITIONING"]
\* A call works; or it fails, before or after it took effect.
Works(s) == speaker' = s /\ UNCHANGED left
Breaks(s) == Faulty /\ speaker' \in {speaker, s}
-----------------------------------------------------------------------------
\* ---- announce: the lock of the speaker, the debounce, the clip
\* Variant: the lock of the speaker is not looked at.
AnnounceOver(a, v) == /\ voice[a].at = "idle" /\ a = (CHOOSE b \in Announcers : voice[b].at = "idle")
                      /\ Used /\ ~recent
                      /\ voice' = [voice EXCEPT ![a] = [Silent EXCEPT !.at = "clip", !.vol = v]]
                      /\ UNCHANGED <<speaker, stored, hand, enforcer, recent, owed>>

\* A new thread takes the first idle name.
Announce(a, v) == /\ voice[a].at = "idle" /\ a = (CHOOSE b \in Announcers : voice[b].at = "idle")
                  /\ Used
                  /\ \A b \in Announcers : voice[b].at = "idle"
                  /\ ~recent
                  /\ voice' = [voice EXCEPT ![a] = [Silent EXCEPT !.at = "clip", !.vol = v]]
                  /\ UNCHANGED <<speaker, stored, hand, enforcer, recent, owed>>
Proceeds(a, at) == voice' = [voice EXCEPT ![a].at = at]
MakeClip(a) == /\ voice[a].at = "clip"
               /\ \/ Proceeds(a, "snap") /\ UNCHANGED left
                  \/ voice' = [voice EXCEPT ![a] = Silent] /\ Faulty
               /\ UNCHANGED <<speaker, stored, hand, enforcer, recent, owed>>
\* ---- snapshot: several requests; only the position may be missing
Snap(a) ==
    /\ voice[a].at = "snap"
    /\ \/ /\ voice' = [voice EXCEPT ![a].at = "rest of snap",
                                    ![a].snap = [speaker EXCEPT !.vol = 0, !.pos = "start"]]
          \* restore resumes only what was PLAYING
          /\ owed' = IF speaker.state = "TRANSITIONING" THEN Anything ELSE owed
          /\ UNCHANGED left
       \/ voice' = [voice EXCEPT ![a] = Silent] /\ Faulty /\ UNCHANGED owed
    /\ UNCHANGED <<speaker, stored, hand, enforcer, recent>>
SnapRest(a) ==
    /\ voice[a].at = "rest of snap"
    /\ LET next == IF voice[a].vol # 0 THEN "volume" ELSE "uri" IN
       \/ /\ voice' = [voice EXCEPT ![a].at = next, ![a].snap.vol = speaker.vol, ![a].snap.pos = speaker.pos]
          /\ UNCHANGED <<left, owed>>
       \/ /\ voice' = [voice EXCEPT ![a].at = next, ![a].snap.vol = speaker.vol]
          /\ Faulty /\ owed' = Anything
       \/ voice' = [voice EXCEPT ![a] = Silent] /\ Faulty /\ UNCHANGED owed
    /\ UNCHANGED <<speaker, stored, hand, enforcer, recent>>
\* ---- _play_with_restore: a failing call goes to the restore
PlayClip(a) ==
    /\ \E here \in {[at |-> "volume", s |-> [speaker EXCEPT !.vol = voice[a].vol], next |-> "uri"],
                    [at |-> "uri", s |-> WithUri(speaker, "clip"), next |-> "play"],
                    [at |-> "play", s |-> Started(speaker), next |-> "wait"]} :
          /\ voice[a].at = here.at
          /\ \/ Works(here.s) /\ Proceeds(a, here.next)
             \/ Breaks(here.s) /\ voice' = [voice EXCEPT ![a].at = "give back volume", ![a].ok = FALSE]
    /\ UNCHANGED <<stored, hand, enforcer, recent, owed>>
\* The wait ends when the clip does, when it never starts, or after 15 seconds.
WaitEnds(a) == /\ voice[a].at = "wait" /\ Proceeds(a, "give back volume")
               /\ UNCHANGED <<speaker, stored, hand, enforcer, recent, owed, left>>
\* ---- restore: a failing call is logged; only a uri that was not set ends it
Finishes(a) == voice' = [voice EXCEPT ![a] = Silent] /\ recent' = (recent \/ voice[a].ok)
GiveBackVolume(a) ==
    /\ voice[a].at = "give back volume"
    /\ \/ Works([speaker EXCEPT !.vol = voice[a].snap.vol]) /\ UNCHANGED owed
       \/ Breaks([speaker EXCEPT !.vol = voice[a].snap.vol]) /\ owed' = Anything
    /\ IF voice[a].snap.track = "none" THEN Finishes(a) ELSE Proceeds(a, "give back uri") /\ UNCHANGED recent
    /\ UNCHANGED <<stored, hand, enforcer>>
GiveBackUri(a) ==
    /\ voice[a].at = "give back uri"
    /\ LET s == WithUri(speaker, voice[a].snap.track) IN
       \/ /\ Works(s) /\ UNCHANGED owed
          /\ IF voice[a].snap.state # "PLAYING" THEN Finishes(a)
             ELSE /\ Proceeds(a, IF voice[a].snap.pos = "middle" THEN "seek" ELSE "resume")
                  /\ UNCHANGED recent
       \/ Breaks(s) /\ owed' = Anything /\ Finishes(a)
    /\ UNCHANGED <<stored, hand, enforcer>>
Seek(a) ==
    /\ voice[a].at = "seek" /\ Proceeds(a, "resume")
    /\ LET s == [speaker EXCEPT !.pos = "middle"]
       IN \/ Works(s) /\ UNCHANGED owed
          \/ Breaks(s) /\ owed' = Anything
    /\ UNCHANGED <<stored, hand, enforcer, recent>>
PlayAgain(a) ==
    /\ voice[a].at = "resume" /\ Finishes(a)
    /\ \/ Works(Started(speaker)) /\ UNCHANGED owed
       \/ Breaks(Started(speaker)) /\ owed' = Anything
    /\ UNCHANGED <<stored, hand, enforcer>>
Speaks(a) == MakeClip(a) \/ Snap(a) \/ SnapRest(a) \/ PlayClip(a) \/ WaitEnds(a)
             \/ GiveBackVolume(a) \/ GiveBackUri(a) \/ Seek(a) \/ PlayAgain(a)
DebounceEnds == recent /\ recent' = FALSE /\ UNCHANGED <<speaker, stored, voice, hand, enforcer, owed, left>>
-----------------------------------------------------------------------------
\* ---- requests, and the alarm's play; they take no lock
\* The volume is remembered (a failure of the database is not told), then set.
SetVolume(h, v) ==
    /\ hand[h].at = "idle" /\ Used /\ hand' = [hand EXCEPT ![h] = [at |-> "volume", vol |-> v]]
    /\ stored' \in {[stored EXCEPT !.saved = speaker.vol]} \cup (IF left.faults > 0 THEN {stored} ELSE {})
    /\ UNCHANGED <<speaker, voice, enforcer, recent, owed>>
RestoreVolume(h) ==
    /\ hand[h].at = "idle" /\ stored.saved # 0 /\ Used
    /\ hand' = [hand EXCEPT ![h] = [at |-> "volume", vol |-> stored.saved]]
    /\ UNCHANGED <<speaker, stored, voice, enforcer, recent, owed>>
\* A lock is at the level asked for or the current volume; unlocking keeps the level.
PersistVolume(h, on, v) ==
    /\ hand[h].at = "idle" /\ Used
    /\ stored' = [stored EXCEPT !.locked = on, !.level = IF v # 0 THEN v ELSE IF on THEN speaker.vol ELSE @]
    /\ UNCHANGED <<speaker, voice, hand, enforcer, recent, owed>>
PlayUrl(h, v) ==
    /\ hand[h].at = "idle" /\ Used
    /\ hand' = [hand EXCEPT ![h] = [at |-> IF v # 0 THEN "loud" ELSE "uri", vol |-> v]]
    /\ UNCHANGED <<speaker, stored, voice, enforcer, recent, owed>>
StopPlaying(h) == /\ hand[h].at = "idle" /\ Used
           /\ Touches([speaker EXCEPT !.state = "STOPPED", !.pos = "start"])
           /\ UNCHANGED <<stored, voice, hand, enforcer, recent>>
HandSteps(h) ==
    /\ \E here \in {[at |-> "volume", s |-> [speaker EXCEPT !.vol = hand[h].vol], next |-> "idle"],
                    [at |-> "loud", s |-> [speaker EXCEPT !.vol = hand[h].vol], next |-> "uri"],
                    [at |-> "uri", s |-> WithUri(speaker, "mp3"), next |-> "play"],
                    [at |-> "play", s |-> Started(speaker), next |-> "idle"]} :
          /\ hand[h].at = here.at
          /\ \/ /\ Touches(here.s) /\ UNCHANGED left
                /\ hand' = [hand EXCEPT ![h] = IF here.next = "idle" THEN Free ELSE [at |-> here.next, vol |-> 0]]
             \/ (Touches(here.s) \/ Touches(speaker)) /\ Faulty /\ hand' = [hand EXCEPT ![h] = Free]
    /\ UNCHANGED <<stored, voice, enforcer, recent>>
\* ---- enforce_locked_volumes: row, volume, correction
ReadLocks == /\ enforcer.at = "idle" /\ stored.locked
             /\ enforcer' = [at |-> "look", vol |-> stored.level]
             /\ UNCHANGED <<speaker, stored, voice, hand, recent, owed, left>>
\* Variant: a tick that finds the volume remembered by a request leaves it.
LookAtSaved == /\ enforcer.at = "look"
               /\ \/ /\ enforcer' = IF speaker.vol \in {enforcer.vol, stored.saved} THEN Free
                                     ELSE [enforcer EXCEPT !.at = "set"]
                     /\ UNCHANGED left
                  \/ enforcer' = Free /\ Faulty
               /\ UNCHANGED <<speaker, stored, voice, hand, recent, owed>>

LookAt == /\ enforcer.at = "look"
          /\ \/ enforcer' = (IF speaker.vol = enforcer.vol THEN Free ELSE [enforcer EXCEPT !.at = "set"]) /\ UNCHANGED left
             \/ enforcer' = Free /\ Faulty
          /\ UNCHANGED <<speaker, stored, voice, hand, recent, owed>>
Correct == /\ enforcer.at = "set" /\ enforcer' = Free
           /\ \/ Touches([speaker EXCEPT !.vol = enforcer.vol]) /\ UNCHANGED left
              \/ (Touches([speaker EXCEPT !.vol = enforcer.vol]) \/ Touches(speaker)) /\ Faulty
           /\ UNCHANGED <<stored, voice, hand, recent>>
Enforces == ReadLocks \/ LookAt \/ Correct
-----------------------------------------------------------------------------
\* ---- the speaker, who listens to it, and a restart of the application
\* Its own changes: those of a clip are nobody's loss.
Goes(s) == /\ speaker' = s
           /\ owed' = IF owed.track # speaker.track THEN owed
                      ELSE IF Speaking /\ ~Sounding(s) THEN Anything
                      ELSE IF Speaking THEN owed ELSE s
           /\ UNCHANGED <<stored, voice, hand, enforcer, recent, left>>
GetsGoing == speaker.state = "TRANSITIONING" /\ Goes([speaker EXCEPT !.state = "PLAYING"])
TrackEnds == speaker.state = "PLAYING" /\ Goes([speaker EXCEPT !.state = "STOPPED", !.pos = "start"])
ListenerActs ==
    /\ Used
    /\ \/ \E v \in Volumes : Touches([speaker EXCEPT !.vol = v])
       \/ Touches([track |-> "song", state |-> "PLAYING", pos |-> "middle", vol |-> speaker.vol])
       \/ Sounding(speaker) /\ Touches([speaker EXCEPT !.state = "PAUSED_PLAYBACK"])
    /\ UNCHANGED <<stored, voice, hand, enforcer, recent>>
SonosRestart == /\ Faulty /\ voice' = [a \in Announcers |-> Silent] /\ hand' = [h \in Hands |-> Free]
                /\ enforcer' = Free /\ recent' = FALSE /\ owed' = (IF Speaking THEN Anything ELSE owed)
                /\ UNCHANGED <<speaker, stored>>
SonosNext ==
    \/ \E a \in Announcers, v \in Volumes \cup {0} : Announce(a, v)
    \/ \E a \in Announcers : Speaks(a)
    \/ \E h \in Hands, v \in Volumes : SetVolume(h, v)
    \/ \E h \in Hands, v \in Volumes \cup {0} : PlayUrl(h, v) \/ \E on \in BOOLEAN : PersistVolume(h, on, v)
    \/ \E h \in Hands : RestoreVolume(h) \/ StopPlaying(h) \/ HandSteps(h)
    \/ Enforces \/ GetsGoing \/ TrackEnds \/ DebounceEnds \/ ListenerActs \/ SonosRestart
\* Every call ends in an answer or a timeout, and the job runs every 30 seconds.
SonosFairness == /\ \A a \in Announcers : WF_sonosVars(Speaks(a))
                 /\ \A h \in Hands : WF_sonosVars(HandSteps(h))
                 /\ WF_sonosVars(Enforces)
SonosSpec == SonosInit /\ [][SonosNext]_sonosVars /\ SonosFairness
-----------------------------------------------------------------------------
\* When no announcement is under way, the speaker is as everybody else left it
\* (announce.py: "restores whatever was playing afterward"): its volume, and the
\* track it had, playing from where it was if it was playing and silent if not.
\* The code gives this up when a call of the restore fails, when the position
\* could not be read, and when the speaker was TRANSITIONING.
MusicComesBack ==
    (owed # Anything /\ ~Speaking) =>
        /\ speaker.vol = owed.vol
        /\ owed.track # "none" => /\ speaker.track = owed.track
                                  /\ Sounding(speaker) <=> Sounding(owed)
                                  /\ Sounding(owed) => speaker.pos = owed.pos
\* Announcements, requests and hands on the speaker move a locked volume, and a
\* correction may come in between or be computed from an older row; at last the
\* speaker is at the level of its row (enforce_locked_volumes).
LockedVolumeHolds == <>[](stored.locked => speaker.vol = stored.level)
=============================================================================
