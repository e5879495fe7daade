------------------------ MODULE SonosAnnounceProofs -------------------------
(***************************************************************************)
(* Proofs about SonosAnnounce for any number of announcing threads, hands  *)
(* on the speaker, levels and failures: announcements give back what they  *)
(* took.                                                                   *)
(*                                                                         *)
(* That the music is back when nobody speaks is not inductive.  The        *)
(* invariant follows an announcement: what it read is what is owed, and    *)
(* what it has given back so far is as it was.                             *)
(***************************************************************************)
EXTENDS SonosAnnounce, TLAPS

-----------------------------------------------------------------------------
(* Types                                                                   *)

Levels == Volumes \cup Normal \cup {0}
Tracks == {"none", "song", "clip", "mp3", "any"}
States == {"STOPPED", "PLAYING", "PAUSED_PLAYBACK", "TRANSITIONING", "any"}
Positions == {"start", "middle", "any"}
\* What may be noted down of a speaker; a speaker itself has a position.
Looks == [track : Tracks, state : States, pos : Positions, vol : Levels]
Steps == {"idle", "clip", "snap", "rest of snap", "volume", "uri", "play", "wait", "give back volume",
          "give back uri", "seek", "resume"}
Voices == [at : Steps, vol : Levels, snap : Looks, ok : BOOLEAN]
HandEntries == [at : {"idle", "volume", "loud", "uri", "play"}, vol : Levels]
EnforcerEntries == [at : {"idle", "look", "set"}, vol : Levels]
StoredRows == [saved : Levels, locked : BOOLEAN, level : Levels]
SonosTypes ==
    /\ speaker \in Looks /\ owed \in Looks /\ stored \in StoredRows
    /\ voice \in [Announcers -> Voices] /\ hand \in [Hands -> HandEntries]
    /\ enforcer \in EnforcerEntries /\ recent \in BOOLEAN
    /\ speaker.pos # "any" /\ (owed # Anything => owed.pos # "any")

-----------------------------------------------------------------------------
(* The invariant.                                                          *)

Quiet == {"idle", "clip", "snap"}
\* s is what o was, as far as an announcement gives it back.
SameMusic(s, o) ==
    /\ s.vol = o.vol
    /\ o.track # "none" => /\ s.track = o.track
                           /\ Sounding(s) <=> Sounding(o)
                           /\ Sounding(o) => s.pos = o.pos
\* The snapshot tells a restore what is owed.
Remembers(snap, o) ==
    /\ snap.vol = o.vol
    /\ o.track # "none" => /\ snap.track = o.track
                           /\ (snap.state = "PLAYING") <=> Sounding(o)
                           /\ Sounding(o) => snap.pos = o.pos
\* What an announcement at v has still to answer for, the speaker being s.
Keeps(v, s, o) ==
    /\ v.at = "rest of snap" =>
         /\ SameMusic(s, o)
         /\ o.track # "none" => /\ v.snap.track = o.track /\ v.snap.state = s.state
                                /\ s.state # "TRANSITIONING"
    /\ v.at \notin Quiet \cup {"rest of snap"} => Remembers(v.snap, o)
    /\ v.at \in {"give back uri", "seek", "resume"} => s.vol = o.vol
    /\ v.at \in {"seek", "resume"} /\ o.track # "none" =>
         /\ s.track = o.track /\ s.state = "STOPPED" /\ v.snap.state = "PLAYING"
         /\ o.pos = IF v.at = "resume" THEN s.pos ELSE "middle"
\* The lock of the speaker: one announcement at a time.
OneVoice == \A a, b \in Announcers : voice[a].at # "idle" /\ voice[b].at # "idle" => a = b
SpeakerInv == owed # Anything => IF Speaking THEN \A a \in Announcers : Keeps(voice[a], speaker, owed)
                                 ELSE SameMusic(speaker, owed)
SonosInv == SonosTypes /\ OneVoice /\ SpeakerInv

\* What a call makes of a speaker.
LEMMA LookUpdates ==
  ASSUME NEW s \in Looks, NEW v \in Levels, NEW t \in Tracks
  PROVE  /\ [s EXCEPT !.vol = v] \in Looks /\ WithUri(s, t) \in Looks /\ Started(s) \in Looks
         /\ [s EXCEPT !.pos = "middle"] \in Looks
         /\ [s EXCEPT !.vol = v].pos = s.pos /\ Started(s).pos = s.pos
         /\ WithUri(s, t).pos = "start" /\ [s EXCEPT !.pos = "middle"].pos = "middle"
BY DEF Looks, WithUri, Started, Tracks, States, Positions

\* The parts of a voice, and a voice that is silent.
LEMMA VoiceFacts ==
  ASSUME NEW v \in Voices
  PROVE  v.at \in Steps /\ v.vol \in Levels /\ v.snap \in Looks /\ v.ok \in BOOLEAN
BY DEF Voices
\* A voice that is silent.
LEMMA SilentFacts == Silent \in Voices /\ Silent.at = "idle" /\ "idle" \in Quiet /\ Anything \in Looks
<1>1. Anything \in Looks
  BY DEF Anything, Looks, Tracks, States, Positions, Levels
<1>2. "idle" \in Steps /\ 0 \in Levels
  BY DEF Steps, Levels
<1>3. QED
  BY <1>1, <1>2 DEF Silent, Voices, Quiet

\* The thread that announces answers for the speaker alone.
LEMMA OwnPart ==
  ASSUME SonosInv, NEW a \in Announcers, voice[a].at # "idle"
  PROVE  /\ voice[a] \in Voices /\ \A b \in Announcers \ {a} : voice[b].at = "idle"
         /\ Speaking <=> voice[a].at \notin Quiet
         /\ owed # Anything => IF voice[a].at \notin Quiet THEN Keeps(voice[a], speaker, owed)
                               ELSE SameMusic(speaker, owed)
<1>1. voice[a] \in Voices /\ \A b \in Announcers \ {a} : voice[b].at = "idle"
  BY DEF SonosInv, SonosTypes, OneVoice
<1>2. Speaking <=> voice[a].at \notin Quiet
  BY <1>1 DEF Speaking, Quiet
<1>3. QED
  BY <1>1, <1>2 DEF SonosInv, SpeakerInv

\* A step of that thread, or of one that begins.
LEMMA VoiceStep ==
  ASSUME SonosInv, SonosTypes', NEW a \in Announcers, NEW v \in Voices, voice' = [voice EXCEPT ![a] = v],
         \A b \in Announcers \ {a} : voice[b].at = "idle",
         owed' # Anything => IF v.at \notin Quiet THEN Keeps(v, speaker', owed') ELSE SameMusic(speaker', owed')
  PROVE  SonosInv'
<1>1. voice'[a] = v /\ \A b \in Announcers \ {a} : voice'[b].at = "idle"
  BY DEF SonosInv, SonosTypes
<1>2. OneVoice'
  BY <1>1 DEF OneVoice
<1>3. Speaking' <=> v.at \notin Quiet
  BY <1>1 DEF Speaking, Quiet
<1>4. ASSUME v.at \notin Quiet, owed' # Anything, NEW b \in Announcers
      PROVE  Keeps(voice'[b], speaker', owed')
  <2>1. CASE b = a
    BY <1>1, <1>4, <2>1
  <2>2. CASE b # a
    <3>1. voice'[b].at = "idle"
      BY <1>1, <2>2
    <3>2. QED
      BY <3>1 DEF Keeps, Quiet
  <2>3. QED
    BY <2>1, <2>2
<1>5. SpeakerInv'
  <2>1. CASE v.at \notin Quiet
    BY <1>3, <1>4, <2>1 DEF SpeakerInv
  <2>2. CASE v.at \in Quiet
    BY <1>3, <2>2 DEF SpeakerInv
  <2>3. QED
    BY <2>1, <2>2
<1>6. QED
  BY <1>2, <1>5 DEF SonosInv

-----------------------------------------------------------------------------
(* Those who touch the speaker, and the speaker itself.                    *)

\* A speaker is as it is.
LEMMA SameAsItself == \A s : SameMusic(s, s)
BY DEF SameMusic

\* The types of what a request, the enforcer or the speaker leaves alone.
LEMMA TouchKeeps ==
  ASSUME SonosInv, NEW s \in Looks, s.pos # "any", Touches(s), UNCHANGED voice,
         stored' \in StoredRows, hand' \in [Hands -> HandEntries], enforcer' \in EnforcerEntries,
         recent' \in BOOLEAN
  PROVE  SonosInv'
<1>1. /\ speaker' = s
      /\ owed' = IF s = speaker THEN owed ELSE IF Speaking THEN Anything ELSE s
  BY DEF Touches
<1>2. SonosTypes'
  BY <1>1, SilentFacts DEF SonosInv, SonosTypes
<1>3. OneVoice' /\ (Speaking' <=> Speaking)
  BY DEF SonosInv, OneVoice, Speaking
<1>4. SpeakerInv'
  <2>1. CASE s = speaker
    BY <1>1, <1>3, <2>1 DEF SonosInv, SpeakerInv
  <2>2. CASE s # speaker /\ Speaking
    BY <1>1, <2>2 DEF SpeakerInv
  <2>3. CASE s # speaker /\ ~Speaking
    <3>1. SameMusic(speaker', owed')
      BY <1>1, <2>3, SameAsItself
    <3>2. QED
      BY <1>3, <2>3, <3>1 DEF SpeakerInv
  <2>4. QED
    BY <2>1, <2>2, <2>3
<1>5. QED
  BY <1>2, <1>3, <1>4 DEF SonosInv

\* A step that neither voices, speaker nor what is owed see.
LEMMA AsideKeeps ==
  ASSUME SonosInv, UNCHANGED <<speaker, owed, voice>>,
         stored' \in StoredRows, hand' \in [Hands -> HandEntries], enforcer' \in EnforcerEntries,
         recent' \in BOOLEAN
  PROVE  SonosInv'
<1>1. SonosTypes'
  BY DEF SonosInv, SonosTypes
<1>2. OneVoice' /\ SpeakerInv'
  BY DEF SonosInv, OneVoice, SpeakerInv, Speaking
<1>3. QED
  BY <1>1, <1>2 DEF SonosInv

\* The speaker goes on by itself.
LEMMA SpeakerGoes ==
  ASSUME SonosInv, GetsGoing \/ TrackEnds
  PROVE  SonosInv'
<1>1. PICK s : /\ Goes(s)
               /\ \/ speaker.state = "TRANSITIONING" /\ s = [speaker EXCEPT !.state = "PLAYING"]
                  \/ speaker.state = "PLAYING" /\ s = [speaker EXCEPT !.state = "STOPPED", !.pos = "start"]
  BY DEF GetsGoing, TrackEnds
<1>2. /\ s \in Looks /\ s.track = speaker.track /\ s.vol = speaker.vol /\ s.pos # "any"
      /\ Sounding(s) <=> speaker.state = "TRANSITIONING" /\ Sounding(speaker)
      /\ Sounding(s) => s.pos = speaker.pos
  BY <1>1 DEF SonosInv, SonosTypes, Looks, States, Positions, Sounding
<1>3. /\ speaker' = s /\ UNCHANGED <<stored, voice, hand, enforcer, recent>>
      /\ owed' = IF owed.track # speaker.track THEN owed
                 ELSE IF Speaking /\ ~Sounding(s) THEN Anything
                 ELSE IF Speaking THEN owed ELSE s
  BY <1>1 DEF Goes
<1>4. SonosTypes'
  BY <1>2, <1>3, SilentFacts DEF SonosInv, SonosTypes
<1>5. OneVoice' /\ (Speaking' <=> Speaking)
  BY <1>3 DEF SonosInv, OneVoice, Speaking
<1>6. ASSUME owed' # Anything, ~Speaking PROVE SameMusic(speaker', owed')
  <2>1. CASE owed.track = speaker.track
    BY <1>3, <1>6, <2>1, SameAsItself
  <2>2. CASE owed.track # speaker.track
    <3>1. owed' = owed /\ SameMusic(speaker, owed)
      BY <1>3, <1>6, <2>2 DEF SonosInv, SpeakerInv
    <3>2. owed.track = "none" /\ speaker'.vol = owed.vol
      BY <1>2, <1>3, <2>2, <3>1 DEF SameMusic
    <3>3. QED
      BY <3>1, <3>2 DEF SameMusic
  <2>3. QED
    BY <2>1, <2>2
<1>7. ASSUME owed' # Anything, Speaking, NEW a \in Announcers PROVE Keeps(voice[a], speaker', owed')
  <2>1. Keeps(voice[a], speaker, owed) /\ owed' = owed
    BY <1>3, <1>7 DEF SonosInv, SpeakerInv
  <2>2. owed.track = "none" \/ owed.track # speaker.track \/ speaker.state = "TRANSITIONING"
    BY <1>1, <1>2, <1>3, <1>7
  <2>3. CASE voice[a].at = "rest of snap"
    <3>1. SameMusic(speaker, owed) /\ (owed.track # "none" => speaker.state # "TRANSITIONING")
      BY <2>1, <2>3 DEF Keeps
    <3>2. owed.track = "none"
      BY <2>2, <3>1 DEF SameMusic
    <3>3. SameMusic(speaker', owed)
      BY <1>2, <1>3, <3>1, <3>2 DEF SameMusic
    <3>4. QED
      BY <2>1, <2>3, <3>2, <3>3 DEF Keeps, Quiet
  <2>4. CASE voice[a].at # "rest of snap"
    <3>1. voice[a].at \in {"seek", "resume"} => owed.track = "none"
      BY <1>1, <2>1 DEF Keeps
    <3>2. speaker'.vol = speaker.vol
      BY <1>2, <1>3
    <3>3. QED
      BY <2>1, <2>4, <3>1, <3>2 DEF Keeps
  <2>5. QED
    BY <2>3, <2>4
<1>8. SpeakerInv'
  BY <1>3, <1>5, <1>6, <1>7 DEF SpeakerInv
<1>9. QED
  BY <1>4, <1>5, <1>8 DEF SonosInv

-----------------------------------------------------------------------------
(* An announcement.                                                        *)

\* The lock is taken: nobody else speaks.
LEMMA AnnounceKeeps ==
  ASSUME SonosInv, NEW a \in Announcers, NEW v \in Volumes \cup {0}, Announce(a, v)
  PROVE  SonosInv'
<1>1. PICK w : w = [Silent EXCEPT !.at = "clip", !.vol = v]
  OBVIOUS
<1>2. w \in Voices /\ w.at = "clip"
  <2>1. "clip" \in Steps /\ v \in Levels
    BY DEF Steps, Levels
  <2>2. QED
    BY <1>1, <2>1, SilentFacts DEF Voices
<1>3. /\ voice' = [voice EXCEPT ![a] = w] /\ \A b \in Announcers : voice[b].at = "idle"
      /\ UNCHANGED <<speaker, stored, hand, enforcer, recent, owed>>
  BY <1>1 DEF Announce
<1>4. SonosTypes'
  BY <1>2, <1>3 DEF SonosInv, SonosTypes
<1>5. ~Speaking
  BY <1>3 DEF Speaking
<1>6. w.at \in Quiet /\ (owed' # Anything => SameMusic(speaker', owed'))
  BY <1>2, <1>3, <1>5 DEF SonosInv, SpeakerInv, Quiet
<1>7. QED
  BY <1>2, <1>3, <1>4, <1>6, VoiceStep

\* A thread that gives up, or has done, when the speaker is as it should be.
LEMMA FallsSilent ==
  ASSUME SonosInv, SonosTypes', NEW a \in Announcers, voice[a].at # "idle",
         voice' = [voice EXCEPT ![a] = Silent], owed' # Anything => SameMusic(speaker', owed')
  PROVE  SonosInv'
<1>1. \A b \in Announcers \ {a} : voice[b].at = "idle"
  BY OwnPart
<1>2. QED
  BY <1>1, SilentFacts, VoiceStep

\* A voice that goes on: what it has read stays.
LEMMA VoiceMoves ==
  ASSUME NEW v \in Voices, NEW at \in Steps
  PROVE  [v EXCEPT !.at = at] \in Voices /\ [v EXCEPT !.at = at].at = at /\ [v EXCEPT !.at = at].snap = v.snap
BY DEF Voices

\* The clip is made before anything is read of the speaker.
LEMMA MakeClipKeeps ==
  ASSUME SonosInv, NEW a \in Announcers, MakeClip(a)
  PROVE  SonosInv'
<1>1. voice[a].at = "clip" /\ UNCHANGED <<speaker, stored, hand, enforcer, recent, owed>>
  BY DEF MakeClip
<1>2. voice[a] \in Voices /\ \A b \in Announcers \ {a} : voice[b].at = "idle"
  BY <1>1, OwnPart
<1>3. owed' # Anything => SameMusic(speaker', owed')
  <2>1. ~Speaking
    BY <1>1, OwnPart DEF Quiet
  <2>2. QED
    BY <1>1, <2>1 DEF SonosInv, SpeakerInv
<1>4. PICK w : w = [voice[a] EXCEPT !.at = "snap"]
  OBVIOUS
<1>5. w \in Voices /\ w.at = "snap"
  <2>1. "snap" \in Steps
    BY DEF Steps
  <2>2. QED
    BY <1>2, <1>4, <2>1, VoiceMoves
<1>6. CASE voice' = [voice EXCEPT ![a] = w]
  <2>1. SonosTypes'
    BY <1>1, <1>5, <1>6 DEF SonosInv, SonosTypes
  <2>2. w.at \in Quiet
    BY <1>5 DEF Quiet
  <2>3. QED
    BY <1>2, <1>3, <1>5, <1>6, <2>1, <2>2, VoiceStep
<1>7. CASE voice' = [voice EXCEPT ![a] = Silent]
  <2>1. SonosTypes'
    BY <1>1, <1>7, SilentFacts DEF SonosInv, SonosTypes
  <2>2. QED
    BY <1>1, <1>3, <1>7, <2>1, FallsSilent
<1>8. QED
  BY <1>4, <1>6, <1>7 DEF MakeClip, Proceeds

\* The first requests of the snapshot: what is read is what is owed.
LEMMA SnapKeeps ==
  ASSUME SonosInv, NEW a \in Announcers, Snap(a)
  PROVE  SonosInv'
<1>1. voice[a].at = "snap" /\ UNCHANGED <<speaker, stored, hand, enforcer, recent>>
  BY DEF Snap
<1>2. voice[a] \in Voices /\ \A b \in Announcers \ {a} : voice[b].at = "idle"
  BY <1>1, OwnPart
<1>3. owed # Anything => SameMusic(speaker, owed)
  <2>1. ~Speaking
    BY <1>1, OwnPart DEF Quiet
  <2>2. QED
    BY <2>1 DEF SonosInv, SpeakerInv
<1>4. PICK snap : snap = [speaker EXCEPT !.vol = 0, !.pos = "start"]
  OBVIOUS
<1>5. snap \in Looks /\ snap.track = speaker.track /\ snap.state = speaker.state
  BY <1>4 DEF SonosInv, SonosTypes, Looks, Positions, Levels
<1>6. PICK w : w = [voice[a] EXCEPT !.at = "rest of snap", !.snap = snap]
  OBVIOUS
<1>7. w \in Voices /\ w.at = "rest of snap" /\ w.snap = snap
  <2>1. "rest of snap" \in Steps
    BY DEF Steps
  <2>2. PICK d \in Voices : d = voice[a]
    BY <1>2
  <2>3. w = [d EXCEPT !.at = "rest of snap", !.snap = snap]
    BY <1>6, <2>2
  <2>4. QED
    BY <1>5, <2>1, <2>3 DEF Voices
<1>8. CASE /\ voice' = [voice EXCEPT ![a] = w]
           /\ owed' = IF speaker.state = "TRANSITIONING" THEN Anything ELSE owed
  <2>1. SonosTypes'
    BY <1>1, <1>7, <1>8, SilentFacts DEF SonosInv, SonosTypes
  <2>2. w.at \notin Quiet
    BY <1>7 DEF Quiet
  <2>3. ASSUME owed' # Anything PROVE Keeps(w, speaker', owed')
    <3>1. owed' = owed /\ speaker.state # "TRANSITIONING" /\ SameMusic(speaker, owed)
      BY <1>3, <1>8, <2>3
    <3>2. owed.track # "none" => w.snap.track = owed.track /\ w.snap.state = speaker.state
      BY <1>5, <1>7, <3>1 DEF SameMusic
    <3>3. QED
      BY <1>1, <1>7, <3>1, <3>2 DEF Keeps, Quiet
  <2>4. QED
    BY <1>2, <1>7, <1>8, <2>1, <2>2, <2>3, VoiceStep
<1>9. CASE voice' = [voice EXCEPT ![a] = Silent] /\ UNCHANGED owed
  <2>1. SonosTypes'
    BY <1>1, <1>9, SilentFacts DEF SonosInv, SonosTypes
  <2>2. QED
    BY <1>1, <1>3, <1>9, <2>1, FallsSilent
<1>10. QED
  <2>1. \/ /\ voice' = [voice EXCEPT ![a].at = "rest of snap",
                                    ![a].snap = [speaker EXCEPT !.vol = 0, !.pos = "start"]]
           /\ owed' = IF speaker.state = "TRANSITIONING" THEN Anything ELSE owed
        \/ voice' = [voice EXCEPT ![a] = Silent] /\ UNCHANGED owed
    BY DEF Snap
  <2>2. [voice EXCEPT ![a].at = "rest of snap", ![a].snap = [speaker EXCEPT !.vol = 0, !.pos = "start"]]
          = [voice EXCEPT ![a] = w]
    BY <1>2, <1>4, <1>6 DEF SonosInv, SonosTypes
  <2>3. QED
    BY <1>8, <1>9, <2>1, <2>2

\* The rest of the snapshot completes it; the position may be missing.
LEMMA SnapRestKeeps ==
  ASSUME SonosInv, NEW a \in Announcers, SnapRest(a)
  PROVE  SonosInv'
<1>1. voice[a].at = "rest of snap" /\ UNCHANGED <<speaker, stored, hand, enforcer, recent>>
  BY DEF SnapRest
<1>2. voice[a] \in Voices /\ \A b \in Announcers \ {a} : voice[b].at = "idle"
  BY <1>1, OwnPart
<1>3. owed # Anything => Keeps(voice[a], speaker, owed)
  BY <1>1, OwnPart DEF Quiet
<1>4. ASSUME owed # Anything
      PROVE  /\ SameMusic(speaker, owed)
             /\ owed.track # "none" => /\ voice[a].snap.track = owed.track
                                       /\ voice[a].snap.state = speaker.state
                                       /\ speaker.state # "TRANSITIONING"
  BY <1>1, <1>3, <1>4 DEF Keeps
<1>5. PICK next \in {"volume", "uri"} :
        \/ /\ voice' = [voice EXCEPT ![a].at = next, ![a].snap.vol = speaker.vol, ![a].snap.pos = speaker.pos]
           /\ UNCHANGED owed
        \/ voice' = [voice EXCEPT ![a].at = next, ![a].snap.vol = speaker.vol] /\ owed' = Anything
        \/ voice' = [voice EXCEPT ![a] = Silent] /\ UNCHANGED owed
  BY DEF SnapRest
<1>6. next \in Steps /\ next \notin Quiet \cup {"rest of snap", "give back uri", "seek", "resume"}
  BY DEF Steps, Quiet
<1>7. voice[a].snap \in Looks /\ speaker \in Looks
  BY <1>2, VoiceFacts DEF SonosInv, SonosTypes
<1>8. ASSUME NEW snap \in Looks, voice' = [voice EXCEPT ![a] = [voice[a] EXCEPT !.at = next, !.snap = snap]],
             owed' = Anything \/ (owed' = owed /\ (owed # Anything => Remembers(snap, owed)))
      PROVE  SonosInv'
  <2>1. PICK w : w = [voice[a] EXCEPT !.at = next, !.snap = snap]
    OBVIOUS
  <2>2. PICK d \in Voices : d = voice[a]
    BY <1>2
  <2>3. w = [d EXCEPT !.at = next, !.snap = snap]
    BY <2>1, <2>2
  <2>4. w \in Voices /\ w.at = next /\ w.snap = snap
    BY <1>6, <1>8, <2>3 DEF Voices
  <2>5. voice' = [voice EXCEPT ![a] = w]
    BY <1>8, <2>1
  <2>6. SonosTypes'
    BY <1>1, <1>8, <2>4, <2>5, SilentFacts DEF SonosInv, SonosTypes
  <2>7. owed' # Anything => Keeps(w, speaker', owed')
    BY <1>1, <1>6, <1>8, <2>4 DEF Keeps, Quiet
  <2>8. w.at \notin Quiet
    BY <1>6, <2>4
  <2>9. QED
    BY <1>2, <2>4, <2>5, <2>6, <2>7, <2>8, VoiceStep
<1>9. CASE /\ voice' = [voice EXCEPT ![a].at = next, ![a].snap.vol = speaker.vol, ![a].snap.pos = speaker.pos]
           /\ UNCHANGED owed
  <2>1. PICK snap : snap = [voice[a].snap EXCEPT !.vol = speaker.vol, !.pos = speaker.pos]
    OBVIOUS
  <2>2. /\ snap \in Looks /\ snap.vol = speaker.vol /\ snap.pos = speaker.pos
        /\ snap.track = voice[a].snap.track /\ snap.state = voice[a].snap.state
    BY <1>7, <2>1 DEF Looks
  <2>3. voice' = [voice EXCEPT ![a] = [voice[a] EXCEPT !.at = next, !.snap = snap]]
    BY <1>2, <1>9, <2>1 DEF SonosInv, SonosTypes, Voices
  <2>4. owed # Anything => Remembers(snap, owed)
    BY <1>4, <2>2 DEF Remembers, SameMusic, Sounding
  <2>5. QED
    BY <1>8, <1>9, <2>2, <2>3, <2>4
<1>10. CASE voice' = [voice EXCEPT ![a].at = next, ![a].snap.vol = speaker.vol] /\ owed' = Anything
  <2>1. PICK snap : snap = [voice[a].snap EXCEPT !.vol = speaker.vol]
    OBVIOUS
  <2>2. snap \in Looks
    BY <1>7, <2>1 DEF Looks
  <2>3. voice' = [voice EXCEPT ![a] = [voice[a] EXCEPT !.at = next, !.snap = snap]]
    BY <1>2, <1>10, <2>1 DEF SonosInv, SonosTypes, Voices
  <2>4. QED
    BY <1>8, <1>10, <2>2, <2>3
<1>11. CASE voice' = [voice EXCEPT ![a] = Silent] /\ UNCHANGED owed
  <2>1. SonosTypes'
    BY <1>1, <1>11, SilentFacts DEF SonosInv, SonosTypes
  <2>2. QED
    BY <1>1, <1>4, <1>11, <2>1, FallsSilent
<1>12. QED
  BY <1>5, <1>9, <1>10, <1>11

\* A step of a voice that reads nothing more.
LEMMA SpeaksOn ==
  ASSUME SonosInv, NEW a \in Announcers, voice[a].at \notin Quiet, NEW w \in Voices, w.at \notin Quiet,
         voice' = [voice EXCEPT ![a] = w], speaker' \in Looks, speaker'.pos # "any",
         owed' \in {owed, Anything}, UNCHANGED <<stored, hand, enforcer, recent>>,
         owed' # Anything => Keeps(w, speaker', owed')
  PROVE  SonosInv'
<1>1. \A b \in Announcers \ {a} : voice[b].at = "idle"
  BY OwnPart, SilentFacts
<1>2. SonosTypes'
  BY SilentFacts DEF SonosInv, SonosTypes
<1>3. QED
  BY <1>1, <1>2, VoiceStep

\* The end of an announcement.
LEMMA Ends ==
  ASSUME SonosInv, NEW a \in Announcers, voice[a].at \notin Quiet, Finishes(a),
         speaker' \in Looks, speaker'.pos # "any", owed' \in {owed, Anything},
         UNCHANGED <<stored, hand, enforcer>>, owed' # Anything => SameMusic(speaker', owed')
  PROVE  SonosInv'
<1>1. voice' = [voice EXCEPT ![a] = Silent] /\ recent' \in BOOLEAN
  BY VoiceFacts DEF Finishes, SonosInv, SonosTypes
<1>2. SonosTypes'
  BY <1>1, SilentFacts DEF SonosInv, SonosTypes
<1>3. voice[a].at # "idle"
  BY SilentFacts
<1>4. QED
  BY <1>1, <1>2, <1>3, FallsSilent

\* What the parts of the invariant say of a voice after its snapshot.
LEMMA AfterSnapshot ==
  ASSUME SonosInv, NEW a \in Announcers, voice[a].at \notin Quiet \cup {"rest of snap"}, owed # Anything
  PROVE  Keeps(voice[a], speaker, owed) /\ Remembers(voice[a].snap, owed)
<1>1. Keeps(voice[a], speaker, owed)
  BY OwnPart, SilentFacts
<1>2. QED
  BY <1>1 DEF Keeps

\* Volume, clip, play and the wait change the speaker and not what is owed.
LEMMA ClipKeeps ==
  ASSUME SonosInv, NEW a \in Announcers, voice[a].at \in {"volume", "uri", "play", "wait"},
         NEW w \in Voices, w.at \in {"uri", "play", "wait", "give back volume"}, w.snap = voice[a].snap,
         voice' = [voice EXCEPT ![a] = w], speaker' \in Looks, speaker'.pos # "any",
         UNCHANGED <<owed, stored, hand, enforcer, recent>>
  PROVE  SonosInv'
<1>1. voice[a].at \notin Quiet \cup {"rest of snap"} /\ w.at \notin Quiet \cup {"rest of snap"}
  BY DEF Quiet
<1>2. owed' # Anything => Keeps(w, speaker', owed')
  BY <1>1, AfterSnapshot DEF Keeps
<1>3. QED
  BY <1>1, <1>2, SpeaksOn

\* A call of the clip works, or fails and the restore begins.
LEMMA PlayClipKeeps ==
  ASSUME SonosInv, NEW a \in Announcers, PlayClip(a)
  PROVE  SonosInv'
<1>1. PICK s, next :
        /\ \/ voice[a].at = "volume" /\ s = [speaker EXCEPT !.vol = voice[a].vol] /\ next = "uri"
           \/ voice[a].at = "uri" /\ s = WithUri(speaker, "clip") /\ next = "play"
           \/ voice[a].at = "play" /\ s = Started(speaker) /\ next = "wait"
        /\ \/ speaker' = s /\ voice' = [voice EXCEPT ![a].at = next]
           \/ /\ speaker' \in {speaker, s}
              /\ voice' = [voice EXCEPT ![a].at = "give back volume", ![a].ok = FALSE]
        /\ UNCHANGED <<stored, hand, enforcer, recent, owed>>
  <2>1. PICK here \in {[at |-> "volume", s |-> [speaker EXCEPT !.vol = voice[a].vol], next |-> "uri"],
                       [at |-> "uri", s |-> WithUri(speaker, "clip"), next |-> "play"],
                       [at |-> "play", s |-> Started(speaker), next |-> "wait"]} :
          /\ voice[a].at = here.at
          /\ \/ speaker' = here.s /\ voice' = [voice EXCEPT ![a].at = here.next]
             \/ /\ speaker' \in {speaker, here.s}
                /\ voice' = [voice EXCEPT ![a].at = "give back volume", ![a].ok = FALSE]
    BY DEF PlayClip, Works, Breaks, Proceeds
  <2>2. UNCHANGED <<stored, hand, enforcer, recent, owed>>
    BY DEF PlayClip
  <2>3. \/ here.at = "volume" /\ here.s = [speaker EXCEPT !.vol = voice[a].vol] /\ here.next = "uri"
        \/ here.at = "uri" /\ here.s = WithUri(speaker, "clip") /\ here.next = "play"
        \/ here.at = "play" /\ here.s = Started(speaker) /\ here.next = "wait"
    OBVIOUS
  <2>4. WITNESS here.s, here.next
  <2>5. QED
    BY <2>1, <2>2, <2>3, Zenon
<1>2. voice[a] \in Voices /\ speaker \in Looks /\ speaker.pos # "any"
  BY DEF SonosInv, SonosTypes
<1>3. s \in Looks /\ s.pos # "any"
  <2>1. voice[a].vol \in Levels /\ "clip" \in Tracks
    BY <1>2, VoiceFacts DEF Tracks
  <2>2. PICK v \in Levels, t \in Tracks : v = voice[a].vol /\ t = "clip"
    BY <2>1
  <2>3. s = [speaker EXCEPT !.vol = v] \/ s = WithUri(speaker, t) \/ s = Started(speaker)
    BY <1>1, <2>2
  <2>4. QED
    BY <1>2, <2>3 DEF Looks, WithUri, Started, States, Positions
<1>4. speaker' \in Looks /\ speaker'.pos # "any" /\ voice[a].at \in {"volume", "uri", "play", "wait"}
  BY <1>1, <1>2, <1>3
<1>5. PICK d \in Voices : d = voice[a]
  BY <1>2
<1>6. CASE voice' = [voice EXCEPT ![a].at = next]
  <2>1. PICK w : w = [d EXCEPT !.at = next]
    OBVIOUS
  <2>2. next \in Steps
    BY <1>1 DEF Steps
  <2>3. w \in Voices /\ w.at = next /\ w.snap = voice[a].snap
    BY <1>5, <2>1, <2>2, VoiceMoves
  <2>4. voice' = [voice EXCEPT ![a] = w]
    BY <1>5, <1>6, <2>1
  <2>5. next \in {"uri", "play", "wait", "give back volume"}
    BY <1>1
  <2>6. QED
    BY <1>1, <1>4, <2>3, <2>4, <2>5, ClipKeeps
<1>7. CASE voice' = [voice EXCEPT ![a].at = "give back volume", ![a].ok = FALSE]
  <2>1. PICK w : w = [d EXCEPT !.at = "give back volume", !.ok = FALSE]
    OBVIOUS
  <2>2. "give back volume" \in Steps
    BY DEF Steps
  <2>3. w \in Voices /\ w.at = "give back volume" /\ w.snap = voice[a].snap
    BY <1>5, <2>1, <2>2 DEF Voices
  <2>4. voice' = [voice EXCEPT ![a] = w]
    BY <1>2, <1>5, <1>7, <2>1 DEF SonosInv, SonosTypes
  <2>5. QED
    BY <1>1, <1>4, <2>3, <2>4, ClipKeeps
<1>8. QED
  BY <1>1, <1>6, <1>7

\* The clip has ended, never started or runs too long.
LEMMA WaitEndsKeeps ==
  ASSUME SonosInv, NEW a \in Announcers, WaitEnds(a)
  PROVE  SonosInv'
<1>1. /\ voice[a].at = "wait" /\ voice' = [voice EXCEPT ![a].at = "give back volume"]
      /\ UNCHANGED <<speaker, stored, hand, enforcer, recent, owed>>
      /\ voice[a] \in Voices /\ speaker \in Looks /\ speaker.pos # "any"
  BY DEF WaitEnds, Proceeds, SonosInv, SonosTypes
<1>2. PICK w : w = [voice[a] EXCEPT !.at = "give back volume"]
  OBVIOUS
<1>3. w \in Voices /\ w.at = "give back volume" /\ w.snap = voice[a].snap
  <2>1. "give back volume" \in Steps
    BY DEF Steps
  <2>2. QED
    BY <1>1, <1>2, <2>1, VoiceMoves
<1>4. voice' = [voice EXCEPT ![a] = w]
  BY <1>1, <1>2
<1>5. QED
  BY <1>1, <1>3, <1>4, ClipKeeps

\* The volume is given back.
LEMMA GiveBackVolumeKeeps ==
  ASSUME SonosInv, NEW a \in Announcers, GiveBackVolume(a)
  PROVE  SonosInv'
<1>1. /\ voice[a].at = "give back volume" /\ UNCHANGED <<stored, hand, enforcer>>
      /\ voice[a] \in Voices /\ speaker \in Looks /\ speaker.pos # "any" /\ voice[a].snap \in Looks
  BY VoiceFacts DEF GiveBackVolume, SonosInv, SonosTypes
<1>2. PICK s : s = [speaker EXCEPT !.vol = voice[a].snap.vol]
  OBVIOUS
<1>3. s \in Looks /\ s.pos # "any" /\ s.vol = voice[a].snap.vol
  BY <1>1, <1>2 DEF Looks
<1>4. /\ speaker' \in {speaker, s} /\ owed' \in {owed, Anything}
      /\ owed' # Anything => speaker' = s /\ owed' = owed
  BY <1>2 DEF GiveBackVolume, Works, Breaks
<1>5. speaker' \in Looks /\ speaker'.pos # "any"
  BY <1>1, <1>3, <1>4
<1>6. voice[a].at \notin Quiet \cup {"rest of snap"}
  BY <1>1 DEF Quiet
<1>7. ASSUME owed' # Anything PROVE speaker'.vol = owed'.vol /\ Remembers(voice[a].snap, owed')
  BY <1>3, <1>4, <1>6, <1>7, AfterSnapshot DEF Remembers
<1>8. CASE voice[a].snap.track = "none"
  <2>1. Finishes(a)
    BY <1>8 DEF GiveBackVolume
  <2>2. owed' # Anything => SameMusic(speaker', owed')
    BY <1>7, <1>8 DEF SameMusic, Remembers
  <2>3. QED
    BY <1>1, <1>4, <1>5, <1>6, <2>1, <2>2, Ends
<1>9. CASE voice[a].snap.track # "none"
  <2>1. PICK w : w = [voice[a] EXCEPT !.at = "give back uri"]
    OBVIOUS
  <2>2. w \in Voices /\ w.at = "give back uri" /\ w.snap = voice[a].snap
    <3>1. "give back uri" \in Steps
      BY DEF Steps
    <3>2. QED
      BY <1>1, <2>1, <3>1, VoiceMoves
  <2>3. voice' = [voice EXCEPT ![a] = w] /\ recent' = recent
    BY <1>9, <2>1 DEF GiveBackVolume, Proceeds
  <2>4. w.at \notin Quiet /\ (owed' # Anything => Keeps(w, speaker', owed'))
    BY <1>7, <2>2 DEF Keeps, Quiet
  <2>5. QED
    BY <1>1, <1>4, <1>5, <1>6, <2>2, <2>3, <2>4, SpeaksOn
<1>10. QED
  BY <1>8, <1>9

\* The track is given back, and started again only if it played.
LEMMA GiveBackUriKeeps ==
  ASSUME SonosInv, NEW a \in Announcers, GiveBackUri(a)
  PROVE  SonosInv'
<1>1. /\ voice[a].at = "give back uri" /\ UNCHANGED <<stored, hand, enforcer>>
      /\ voice[a] \in Voices /\ speaker \in Looks /\ speaker.pos # "any" /\ voice[a].snap \in Looks
  BY VoiceFacts DEF GiveBackUri, SonosInv, SonosTypes
<1>2. PICK s : s = WithUri(speaker, voice[a].snap.track)
  OBVIOUS
<1>3. /\ s \in Looks /\ s.pos = "start" /\ s.state = "STOPPED" /\ s.vol = speaker.vol
      /\ s.track = voice[a].snap.track
  BY <1>1, <1>2 DEF Looks, WithUri, States, Positions
<1>4. /\ speaker' \in {speaker, s}
      /\ \/ /\ speaker' = s /\ owed' = owed
            /\ IF voice[a].snap.state # "PLAYING" THEN Finishes(a)
               ELSE /\ Proceeds(a, IF voice[a].snap.pos = "middle" THEN "seek" ELSE "resume")
                    /\ UNCHANGED recent
         \/ owed' = Anything /\ Finishes(a)
  BY <1>2 DEF GiveBackUri, Works, Breaks
<1>5. speaker' \in Looks /\ speaker'.pos # "any" /\ owed' \in {owed, Anything}
  BY <1>1, <1>3, <1>4
<1>6. voice[a].at \notin Quiet \cup {"rest of snap"}
  BY <1>1 DEF Quiet
<1>7. ASSUME owed # Anything PROVE s.vol = owed.vol /\ Remembers(voice[a].snap, owed)
  <2>1. Keeps(voice[a], speaker, owed) /\ Remembers(voice[a].snap, owed)
    BY <1>6, <1>7, AfterSnapshot
  <2>2. speaker.vol = owed.vol
    BY <1>1, <2>1 DEF Keeps
  <2>3. QED
    BY <1>3, <2>1, <2>2
<1>8. CASE Finishes(a) /\ owed' = Anything
  BY <1>1, <1>5, <1>6, <1>8, Ends
<1>9. CASE Finishes(a) /\ speaker' = s /\ owed' = owed /\ voice[a].snap.state # "PLAYING"
  <2>1. owed' # Anything => SameMusic(speaker', owed')
    BY <1>3, <1>7, <1>9 DEF SameMusic, Remembers, Sounding
  <2>2. QED
    BY <1>1, <1>5, <1>6, <1>9, <2>1, Ends
<1>10. CASE /\ speaker' = s /\ owed' = owed /\ voice[a].snap.state = "PLAYING" /\ recent' = recent
            /\ Proceeds(a, IF voice[a].snap.pos = "middle" THEN "seek" ELSE "resume")
  <2>1. PICK next : /\ next = (IF voice[a].snap.pos = "middle" THEN "seek" ELSE "resume")
                    /\ voice' = [voice EXCEPT ![a].at = next]
    BY <1>10 DEF Proceeds
  <2>2. PICK w : w = [voice[a] EXCEPT !.at = next]
    OBVIOUS
  <2>3. w \in Voices /\ w.at = next /\ w.snap = voice[a].snap
    <3>1. next \in Steps
      BY <2>1 DEF Steps
    <3>2. QED
      BY <1>1, <2>2, <3>1, VoiceMoves
  <2>4. voice' = [voice EXCEPT ![a] = w]
    BY <2>1, <2>2
  <2>5. w.at \notin Quiet
    BY <2>1, <2>3 DEF Quiet
  <2>6. ASSUME owed' # Anything PROVE Keeps(w, speaker', owed')
    <3>1. s.vol = owed.vol /\ Remembers(w.snap, owed)
      BY <1>7, <1>10, <2>3, <2>6
    <3>2. owed.track # "none" => s.track = owed.track /\ Sounding(owed) /\ w.snap.pos = owed.pos
      BY <1>3, <1>10, <2>3, <3>1 DEF Remembers
    <3>3. owed.pos \in {"start", "middle"}
      BY <1>10, <2>6 DEF SonosInv, SonosTypes, Looks, Positions
    <3>4. owed.track # "none" => owed.pos = IF w.at = "resume" THEN s.pos ELSE "middle"
      BY <1>3, <2>1, <2>3, <3>2, <3>3
    <3>5. w.at \in {"seek", "resume"} /\ w.at # "rest of snap"
      BY <2>1, <2>3
    <3>6. QED
      BY <1>3, <1>10, <2>3, <3>1, <3>2, <3>4, <3>5 DEF Keeps
  <2>7. QED
    BY <1>1, <1>5, <1>6, <1>10, <2>3, <2>4, <2>5, <2>6, SpeaksOn
<1>11. QED
  BY <1>4, <1>8, <1>9, <1>10

\* The position is given back.
LEMMA SeekKeeps ==
  ASSUME SonosInv, NEW a \in Announcers, Seek(a)
  PROVE  SonosInv'
<1>1. /\ voice[a].at = "seek" /\ UNCHANGED <<stored, hand, enforcer, recent>>
      /\ voice' = [voice EXCEPT ![a].at = "resume"]
      /\ voice[a] \in Voices /\ speaker \in Looks /\ speaker.pos # "any" /\ voice[a].snap \in Looks
  BY VoiceFacts DEF Seek, Proceeds, SonosInv, SonosTypes
<1>2. PICK s : s = [speaker EXCEPT !.pos = "middle"]
  OBVIOUS
<1>3. /\ s \in Looks /\ s.pos = "middle" /\ s.vol = speaker.vol /\ s.track = speaker.track
      /\ s.state = speaker.state
  BY <1>1, <1>2 DEF Looks, Positions
<1>4. /\ speaker' \in {speaker, s} /\ owed' \in {owed, Anything}
      /\ owed' # Anything => speaker' = s /\ owed' = owed
  BY <1>2 DEF Seek, Works, Breaks
<1>5. speaker' \in Looks /\ speaker'.pos # "any"
  BY <1>1, <1>3, <1>4
<1>6. voice[a].at \notin Quiet \cup {"rest of snap"}
  BY <1>1 DEF Quiet
<1>7. PICK w : w = [voice[a] EXCEPT !.at = "resume"]
  OBVIOUS
<1>8. w \in Voices /\ w.at = "resume" /\ w.snap = voice[a].snap /\ voice' = [voice EXCEPT ![a] = w]
  <2>1. "resume" \in Steps
    BY DEF Steps
  <2>2. QED
    BY <1>1, <1>7, <2>1, VoiceMoves
<1>9. ASSUME owed' # Anything PROVE Keeps(w, speaker', owed')
  <2>1. Keeps(voice[a], speaker, owed) /\ Remembers(voice[a].snap, owed) /\ speaker' = s /\ owed' = owed
    BY <1>4, <1>6, <1>9, AfterSnapshot
  <2>2. QED
    BY <1>1, <1>3, <1>8, <2>1 DEF Keeps
<1>10. QED
  BY <1>1, <1>4, <1>5, <1>6, <1>8, <1>9, SpeaksOn DEF Quiet

\* It plays again: the announcement is over.
LEMMA PlayAgainKeeps ==
  ASSUME SonosInv, NEW a \in Announcers, PlayAgain(a)
  PROVE  SonosInv'
<1>1. /\ voice[a].at = "resume" /\ UNCHANGED <<stored, hand, enforcer>> /\ Finishes(a)
      /\ voice[a] \in Voices /\ speaker \in Looks /\ speaker.pos # "any"
  BY DEF PlayAgain, SonosInv, SonosTypes
<1>2. PICK s : s = Started(speaker)
  OBVIOUS
<1>3. /\ s \in Looks /\ s.pos = speaker.pos /\ s.vol = speaker.vol /\ s.track = speaker.track
      /\ speaker.track # "none" => Sounding(s)
  BY <1>1, <1>2 DEF Looks, Started, States, Sounding
<1>4. /\ speaker' \in {speaker, s} /\ owed' \in {owed, Anything}
      /\ owed' # Anything => speaker' = s /\ owed' = owed
  BY <1>2 DEF PlayAgain, Works, Breaks
<1>5. speaker' \in Looks /\ speaker'.pos # "any"
  BY <1>1, <1>3, <1>4
<1>6. voice[a].at \notin Quiet \cup {"rest of snap"}
  BY <1>1 DEF Quiet
<1>7. ASSUME owed' # Anything PROVE SameMusic(speaker', owed')
  <2>1. Keeps(voice[a], speaker, owed) /\ Remembers(voice[a].snap, owed) /\ speaker' = s /\ owed' = owed
    BY <1>4, <1>6, <1>7, AfterSnapshot
  <2>2. owed.track # "none" => Sounding(owed) /\ speaker.track = owed.track /\ speaker.pos = owed.pos
    BY <1>1, <2>1 DEF Keeps, Remembers
  <2>3. speaker.vol = owed.vol
    BY <1>1, <2>1 DEF Keeps
  <2>4. QED
    BY <1>3, <2>1, <2>2, <2>3 DEF SameMusic
<1>8. QED
  BY <1>1, <1>4, <1>5, <1>6, <1>7, Ends

-----------------------------------------------------------------------------
(* Requests, alarms, the volume enforcer and the listener.                 *)

\* A request that begins reads or writes the row; the speaker comes later.
LEMMA RequestsBegin ==
  ASSUME SonosInv, NEW h \in Hands,
         \/ \E v \in Volumes : SetVolume(h, v)
         \/ \E v \in Volumes \cup {0} : PlayUrl(h, v) \/ \E on \in BOOLEAN : PersistVolume(h, on, v)
         \/ RestoreVolume(h)
  PROVE  SonosInv'
<1>1. /\ UNCHANGED <<speaker, voice, enforcer, recent, owed>> /\ speaker.vol \in Levels
      /\ stored \in StoredRows /\ hand \in [Hands -> HandEntries] /\ enforcer \in EnforcerEntries
      /\ recent \in BOOLEAN
  BY DEF SetVolume, PlayUrl, PersistVolume, RestoreVolume, SonosInv, SonosTypes, Looks
<1>2. Volumes \cup {0} \subseteq Levels
  BY DEF Levels
<1>3. stored' \in StoredRows
  <2>1. stored' \in StoredRows \/ UNCHANGED stored
    <3>1. ASSUME NEW v \in Volumes, SetVolume(h, v) PROVE stored' \in StoredRows
      <4>1. stored' = stored \/ stored' = [stored EXCEPT !.saved = speaker.vol]
        BY <3>1 DEF SetVolume
      <4>2. QED
        BY <1>1, <4>1 DEF StoredRows
    <3>2. ASSUME NEW v \in Volumes \cup {0}, NEW on \in BOOLEAN, PersistVolume(h, on, v)
          PROVE  stored' \in StoredRows
      <4>1. stored' = [stored EXCEPT !.locked = on,
                                     !.level = IF v # 0 THEN v ELSE IF on THEN speaker.vol ELSE @]
        BY <3>2 DEF PersistVolume
      <4>2. QED
        BY <1>1, <1>2, <4>1 DEF StoredRows
    <3>3. ASSUME NEW v \in Volumes \cup {0}, PlayUrl(h, v) PROVE UNCHANGED stored
      BY <3>3 DEF PlayUrl
    <3>4. RestoreVolume(h) => UNCHANGED stored
      BY DEF RestoreVolume
    <3>5. QED
      BY <3>1, <3>2, <3>3, <3>4
  <2>2. QED
    BY <1>1, <2>1
<1>4. hand' \in [Hands -> HandEntries]
  <2>1. ASSUME NEW at \in {"volume", "loud", "uri"}, NEW v \in Levels,
               hand' = [hand EXCEPT ![h] = [at |-> at, vol |-> v]]
        PROVE  hand' \in [Hands -> HandEntries]
    <3>1. PICK e : e = [at |-> at, vol |-> v]
      OBVIOUS
    <3>2. e \in HandEntries
      BY <3>1 DEF HandEntries
    <3>3. QED
      BY <1>1, <2>1, <3>1, <3>2
  <2>2. ASSUME NEW v \in Volumes, SetVolume(h, v) PROVE hand' \in [Hands -> HandEntries]
    BY <1>2, <2>1, <2>2 DEF SetVolume
  <2>3. ASSUME NEW v \in Volumes \cup {0}, PlayUrl(h, v) PROVE hand' \in [Hands -> HandEntries]
    <3>1. PICK at \in {"volume", "loud", "uri"} : at = IF v # 0 THEN "loud" ELSE "uri"
      OBVIOUS
    <3>2. hand' = [hand EXCEPT ![h] = [at |-> at, vol |-> v]]
      BY <2>3, <3>1 DEF PlayUrl
    <3>3. QED
      BY <1>2, <2>1, <3>2
  <2>4. ASSUME RestoreVolume(h) PROVE hand' \in [Hands -> HandEntries]
    <3>1. stored.saved \in Levels
      BY <1>1 DEF StoredRows
    <3>2. QED
      BY <2>1, <2>4, <3>1 DEF RestoreVolume
  <2>5. ASSUME NEW v \in Volumes \cup {0}, NEW on \in BOOLEAN, PersistVolume(h, on, v)
        PROVE  hand' \in [Hands -> HandEntries]
    BY <1>1, <2>5 DEF PersistVolume
  <2>6. QED
    BY <2>2, <2>3, <2>4, <2>5
<1>5. QED
  BY <1>1, <1>3, <1>4, AsideKeeps

\* Its steps on the speaker take no lock: what they leave is what is owed then.
LEMMA HandsKeep ==
  ASSUME SonosInv, NEW h \in Hands, HandSteps(h) \/ StopPlaying(h)
  PROVE  SonosInv'
<1>1. /\ UNCHANGED <<stored, voice, enforcer, recent>> /\ speaker \in Looks /\ speaker.pos # "any"
      /\ stored \in StoredRows /\ hand \in [Hands -> HandEntries] /\ enforcer \in EnforcerEntries
      /\ recent \in BOOLEAN
  BY DEF HandSteps, StopPlaying, SonosInv, SonosTypes
<1>2. CASE StopPlaying(h)
  <2>1. PICK s : s = [speaker EXCEPT !.state = "STOPPED", !.pos = "start"]
    OBVIOUS
  <2>2. Touches(s) /\ UNCHANGED hand
    BY <1>2, <2>1 DEF StopPlaying
  <2>3. s \in Looks /\ s.pos # "any"
    BY <1>1, <2>1 DEF Looks, States, Positions
  <2>4. QED
    BY <1>1, <2>2, <2>3, TouchKeeps
<1>3. CASE HandSteps(h)
  <2>1. PICK here \in {[at |-> "volume", s |-> [speaker EXCEPT !.vol = hand[h].vol], next |-> "idle"],
                       [at |-> "loud", s |-> [speaker EXCEPT !.vol = hand[h].vol], next |-> "uri"],
                       [at |-> "uri", s |-> WithUri(speaker, "mp3"), next |-> "play"],
                       [at |-> "play", s |-> Started(speaker), next |-> "idle"]} :
          \/ /\ Touches(here.s)
             /\ hand' = [hand EXCEPT ![h] = IF here.next = "idle" THEN Free ELSE [at |-> here.next, vol |-> 0]]
          \/ (Touches(here.s) \/ Touches(speaker)) /\ hand' = [hand EXCEPT ![h] = Free]
    BY <1>3 DEF HandSteps
  <2>2. PICK s, next : s = here.s /\ next = here.next
    OBVIOUS
  <2>3. /\ next \in {"idle", "uri", "play"}
        /\ \/ s = [speaker EXCEPT !.vol = hand[h].vol]
           \/ s = WithUri(speaker, "mp3")
           \/ s = Started(speaker)
    BY <2>2
  <2>4. PICK e : /\ e = Free \/ e = [at |-> next, vol |-> 0]
                 /\ hand' = [hand EXCEPT ![h] = e]
    BY <2>1, <2>2
  <2>5. e \in HandEntries
    BY <2>3, <2>4 DEF HandEntries, Free, Levels
  <2>6. hand' \in [Hands -> HandEntries]
    BY <1>1, <2>4, <2>5
  <2>7. hand[h].vol \in Levels
    BY <1>1 DEF HandEntries
  <2>8. s \in Looks /\ s.pos # "any"
    BY <1>1, <2>3, <2>7 DEF Looks, WithUri, Started, Tracks, States, Positions
  <2>9. Touches(s) \/ Touches(speaker)
    BY <2>1, <2>2
  <2>10. QED
    BY <1>1, <2>6, <2>8, <2>9, TouchKeeps
<1>4. QED
  BY <1>2, <1>3

\* enforce_locked_volumes corrects a volume by a row it read before.
LEMMA EnforcesKeep ==
  ASSUME SonosInv, Enforces
  PROVE  SonosInv'
<1>1. /\ UNCHANGED <<stored, voice, hand, recent>> /\ speaker \in Looks /\ speaker.pos # "any"
      /\ stored \in StoredRows /\ hand \in [Hands -> HandEntries] /\ enforcer \in EnforcerEntries
      /\ recent \in BOOLEAN /\ Free \in EnforcerEntries
  BY DEF Enforces, ReadLocks, LookAt, Correct, SonosInv, SonosTypes, Free, EnforcerEntries, Levels
<1>2. CASE ReadLocks \/ LookAt
  <2>1. enforcer' \in EnforcerEntries /\ UNCHANGED <<speaker, owed>>
    BY <1>1, <1>2 DEF ReadLocks, LookAt, EnforcerEntries, StoredRows
  <2>2. QED
    BY <1>1, <2>1, AsideKeeps
<1>3. CASE Correct
  <2>1. PICK s : s = [speaker EXCEPT !.vol = enforcer.vol]
    OBVIOUS
  <2>2. s \in Looks /\ s.pos # "any"
    BY <1>1, <2>1 DEF Looks, EnforcerEntries
  <2>3. (Touches(s) \/ Touches(speaker)) /\ enforcer' \in EnforcerEntries
    BY <1>1, <1>3, <2>1 DEF Correct
  <2>4. QED
    BY <1>1, <2>2, <2>3, TouchKeeps
<1>4. QED
  BY <1>2, <1>3 DEF Enforces

\* Somebody at the speaker: the volume, another song, pause.
LEMMA ListenerKeeps ==
  ASSUME SonosInv, ListenerActs
  PROVE  SonosInv'
<1>1. /\ UNCHANGED <<stored, voice, hand, enforcer, recent>> /\ speaker \in Looks /\ speaker.pos # "any"
      /\ stored \in StoredRows /\ hand \in [Hands -> HandEntries] /\ enforcer \in EnforcerEntries
      /\ recent \in BOOLEAN
  BY DEF ListenerActs, SonosInv, SonosTypes
<1>2. PICK s : /\ Touches(s)
               /\ \/ \E v \in Volumes : s = [speaker EXCEPT !.vol = v]
                  \/ s = [track |-> "song", state |-> "PLAYING", pos |-> "middle", vol |-> speaker.vol]
                  \/ s = [speaker EXCEPT !.state = "PAUSED_PLAYBACK"]
  BY DEF ListenerActs
<1>3. s \in Looks /\ s.pos # "any"
  BY <1>1, <1>2 DEF Looks, Tracks, States, Positions, Levels
<1>4. QED
  BY <1>1, <1>2, <1>3, TouchKeeps

\* A restart silences every voice; one in the middle leaves nothing to promise.
LEMMA RestartKeeps ==
  ASSUME SonosInv, SonosRestart
  PROVE  SonosInv'
<1>1. /\ voice' = [a \in Announcers |-> Silent] /\ hand' = [h \in Hands |-> Free] /\ enforcer' = Free
      /\ recent' = FALSE /\ owed' = (IF Speaking THEN Anything ELSE owed) /\ UNCHANGED <<speaker, stored>>
  BY DEF SonosRestart
<1>2. Free \in EnforcerEntries /\ Free \in HandEntries
  BY DEF Free, EnforcerEntries, HandEntries, Levels
<1>3. SonosTypes'
  BY <1>1, <1>2, SilentFacts DEF SonosInv, SonosTypes
<1>4. OneVoice' /\ ~Speaking'
  BY <1>1, SilentFacts DEF OneVoice, Speaking
<1>5. owed' # Anything => SameMusic(speaker', owed')
  BY <1>1 DEF SonosInv, SpeakerInv
<1>6. QED
  BY <1>3, <1>4, <1>5 DEF SonosInv, SpeakerInv

-----------------------------------------------------------------------------
(* The theorem.                                                            *)

\* At first nobody speaks and the speaker is as the listener left it.
LEMMA SonosInvInit == SonosInit => SonosInv
<1> SUFFICES ASSUME SonosInit PROVE SonosInv
  OBVIOUS
<1>1. speaker \in Looks /\ speaker.pos # "any" /\ owed = speaker
  <2>1. speaker \in [track : {"none", "song"}, state : {"STOPPED", "PLAYING", "PAUSED_PLAYBACK"},
                     pos : {"start", "middle"}, vol : Normal] /\ owed = speaker
    BY DEF SonosInit
  <2>2. QED
    BY <2>1 DEF Looks, Tracks, States, Positions, Levels
<1>2. stored \in StoredRows /\ Free \in EnforcerEntries /\ Free \in HandEntries
  <2>1. Free \in EnforcerEntries /\ Free \in HandEntries
    BY DEF Free, EnforcerEntries, HandEntries, Levels
  <2>2. \/ stored = [saved |-> 0, locked |-> FALSE, level |-> 0]
        \/ stored \in [saved : {0}, locked : {TRUE}, level : Volumes]
    BY DEF SonosInit
  <2>3. stored \in StoredRows
    <3>1. CASE stored = [saved |-> 0, locked |-> FALSE, level |-> 0]
      BY <3>1 DEF StoredRows, Levels
    <3>2. CASE stored \in [saved : {0}, locked : {TRUE}, level : Volumes]
      <4>1. 0 \in Levels /\ Volumes \subseteq Levels
        BY DEF Levels
      <4>2. QED
        BY <3>2, <4>1 DEF StoredRows
    <3>3. QED
      BY <2>2, <3>1, <3>2
  <2>4. QED
    BY <2>1, <2>3
<1>3. SonosTypes
  BY <1>1, <1>2, SilentFacts DEF SonosInit, SonosTypes
<1>4. OneVoice /\ ~Speaking
  BY SilentFacts DEF SonosInit, OneVoice, Speaking
<1>5. QED
  BY <1>1, <1>3, <1>4, SameAsItself DEF SonosInv, SpeakerInv

\* Every step keeps the invariant.
LEMMA SonosInvNext == SonosInv /\ [SonosNext]_sonosVars => SonosInv'
<1> SUFFICES ASSUME SonosInv, [SonosNext]_sonosVars PROVE SonosInv'
  OBVIOUS
<1>1. CASE \E a \in Announcers, v \in Volumes \cup {0} : Announce(a, v)
  BY <1>1, AnnounceKeeps
<1>2. ASSUME NEW a \in Announcers, Speaks(a) PROVE SonosInv'
  BY <1>2, MakeClipKeeps, SnapKeeps, SnapRestKeeps, PlayClipKeeps, WaitEndsKeeps, GiveBackVolumeKeeps,
     GiveBackUriKeeps, SeekKeeps, PlayAgainKeeps DEF Speaks
<1>3. ASSUME NEW h \in Hands,
             \/ \E v \in Volumes : SetVolume(h, v)
             \/ \E v \in Volumes \cup {0} : PlayUrl(h, v) \/ \E on \in BOOLEAN : PersistVolume(h, on, v)
             \/ RestoreVolume(h)
      PROVE  SonosInv'
  BY <1>3, RequestsBegin
<1>4. ASSUME NEW h \in Hands, HandSteps(h) \/ StopPlaying(h) PROVE SonosInv'
  BY <1>4, HandsKeep
<1>5. CASE Enforces
  BY <1>5, EnforcesKeep
<1>6. CASE GetsGoing \/ TrackEnds
  BY <1>6, SpeakerGoes
<1>7. CASE DebounceEnds
  BY <1>7, AsideKeeps DEF DebounceEnds, SonosInv, SonosTypes
<1>8. CASE ListenerActs
  BY <1>8, ListenerKeeps
<1>9. CASE SonosRestart
  BY <1>9, RestartKeeps
<1>10. CASE UNCHANGED sonosVars
  BY <1>10, AsideKeeps DEF sonosVars, SonosInv, SonosTypes
<1>11. QED
  BY <1>1, <1>2, <1>3, <1>4, <1>5, <1>6, <1>7, <1>8, <1>9, <1>10 DEF SonosNext

\* When no announcement is under way, the speaker is as everybody else left it
\* (announce.py: "restores whatever was playing afterward"), whoever touched it
\* before, between or during announcements; the cases in which the code gives
\* this up are those in which nothing in particular is owed.
THEOREM MusicIsBack == SonosSpec => []MusicComesBack
<1>1. SonosInv => MusicComesBack
  <2> SUFFICES ASSUME SonosInv, owed # Anything, ~Speaking PROVE SameMusic(speaker, owed)
    BY DEF MusicComesBack, SameMusic
  <2>1. QED
    BY DEF SonosInv, SpeakerInv
<1>2. QED
  BY <1>1, SonosInvInit, SonosInvNext, PTL DEF SonosSpec
=============================================================================
