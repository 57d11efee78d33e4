------------------------------ MODULE AudioMixer ------------------------------
(***************************************************************************)
(* AudioMixerImpl, which mixes the frames of its participants: the loudest *)
(* at their weight, and those that were mixed before and no longer belong  *)
(* to the loudest at a weight that is halved from frame to frame.          *)
(*                                                                         *)
(* Frames come from a pool and go back to it; which frame is which does    *)
(* not matter, so the pool is the number of frames in it.  A weight is     *)
(* told by how many times it has been halved.                              *)
(***************************************************************************)
EXTENDS Integers, Sequences, FiniteSets

CONSTANTS
    Participants,  \* who may ever take part
    Energies,   \* the computed energies of frames, with 0 for silence
    Limits,     \* what the number of mixed participants may be limited to
    TailFrames  \* frames over which a weight is halved, needMixCount after mixing

ASSUME MixerAssumption ==
    /\ IsFiniteSet(Participants)
    /\ Energies \subseteq Nat
    /\ 0 \in Energies
    /\ Limits \subseteq Nat
    /\ 3 \in Limits
    /\ TailFrames \in Nat \ {0}

VARIABLES
    participants,  \* m_participants, in order
    limit,         \* m_limitCount
    made,          \* frames that have been allocated
    pool,          \* frames in m_audioFramePool
    mix            \* who is heard in the latest frame, and still takes part

vars == <<participants, limit, made, pool, mix>>

\* needMixCount goes on falling below 0, which is never told apart: it stays at -1.
Infos ==
    [participant : Participants, isMixed : BOOLEAN, needMixCount : -1 .. TailFrames,
     halved : 0 .. TailFrames, energy : Energies, hasFrame : BOOLEAN]

TypeOK ==
    /\ participants \in Seq(Infos)
    /\ \A i, j \in DOMAIN participants :
          participants[i].participant = participants[j].participant => i = j
    /\ limit \in Limits
    /\ made \in 0 .. Cardinality(Participants)
    /\ pool \in Nat
    /\ mix \in SUBSET [participant : Participants, hasFrame : BOOLEAN, halved : 0 .. TailFrames]

Init ==
    /\ participants = <<>>
    /\ limit = 3
    /\ made = 0
    /\ pool = 0
    /\ mix = {}

Listed(p) == \E i \in DOMAIN participants : participants[i].participant = p

\* Mutant: a participant may be added twice.
AddParticipant_Again(p) ==
    /\ participants' = Append(participants,
           [participant |-> p, isMixed |-> FALSE, needMixCount |-> 0, halved |-> 0,
            energy |-> 0, hasFrame |-> FALSE])
    /\ UNCHANGED <<limit, made, pool, mix>>

AddParticipant(p) ==
    /\ ~Listed(p)
    /\ participants' = Append(participants,
           [participant |-> p, isMixed |-> FALSE, needMixCount |-> 0, halved |-> 0,
            energy |-> 0, hasFrame |-> FALSE])
    /\ UNCHANGED <<limit, made, pool, mix>>

\* The list has a participant once, so that remove_if takes one entry out of it.
RemoveParticipant(p) ==
    /\ \E i \in DOMAIN participants :
          /\ participants[i].participant = p
          /\ participants' = [j \in 1 .. Len(participants) - 1 |->
                                 participants[IF j < i THEN j ELSE j + 1]]
    /\ mix' = {m \in mix : m.participant # p}
    /\ UNCHANGED <<limit, made, pool>>

LimitParticipantCount(count) ==
    /\ limit' = count
    /\ UNCHANGED <<participants, made, pool, mix>>

-----------------------------------------------------------------------------
(* GetMixerAudio *)

NoFrame == -1

\* Mutant: a participant without a frame is still taken for mixed.
Asked_StillMixed(v, energy) ==
    IF energy = NoFrame
    THEN [v EXCEPT !.needMixCount = 0, !.halved = 0, !.hasFrame = FALSE, !.energy = 0]
    ELSE [v EXCEPT !.energy = energy, !.hasFrame = TRUE]

\* A participant is asked to fill a frame of the pool, and gives its energy.
Asked(v, energy) ==
    IF energy = NoFrame
    THEN [v EXCEPT !.needMixCount = 0, !.halved = 0, !.hasFrame = FALSE,
                   !.energy = 0, !.isMixed = FALSE]
    ELSE [v EXCEPT !.energy = energy, !.hasFrame = TRUE]

\* A frame is made when the pool has none.
PopAudioFrame(f) == IF f.pool = 0 THEN [f EXCEPT !.made = @ + 1] ELSE [f EXCEPT !.pool = @ - 1]
PushAudioFrame(f) == [f EXCEPT !.pool = @ + 1]

\* Mutant: the frame of a participant that has nothing is lost.
FramesAsked_Lost(answers) ==
    LET frames[i \in 0 .. Len(participants)] ==
            IF i = 0 THEN [made |-> made, pool |-> pool] ELSE PopAudioFrame(frames[i - 1])
    IN  frames[Len(participants)]

\* The frames made and in the pool after asking one participant more: the frame of one
\* that has nothing goes back at once.
AskedFor(f, energy) ==
    IF energy = NoFrame THEN PushAudioFrame(PopAudioFrame(f)) ELSE PopAudioFrame(f)

FramesAsked(answers) ==
    LET frames[i \in 0 .. Len(participants)] ==
            IF i = 0 THEN [made |-> made, pool |-> pool]
                     ELSE AskedFor(frames[i - 1], answers[participants[i].participant])
    IN  frames[Len(participants)]

\* Sorted by falling energy, those of the same energy in their order before.
ByEnergy(s) ==
    LET Before(i, j) ==
            \/ s[i].energy > s[j].energy
            \/ s[i].energy = s[j].energy /\ i < j
        Place(j) == Cardinality({i \in DOMAIN s : Before(i, j)}) + 1
    IN  [n \in DOMAIN s |-> s[CHOOSE j \in DOMAIN s : Place(j) = n]]

\* Mutant: the participants stay in the order in which they joined.
Ordered_AsJoined(s) == s

Ordered(s) == IF Len(s) > limit THEN ByEnergy(s) ELSE s

\* How many of the participants before i have been mixed for their loudness.
Counter(s, i) ==
    LET loud == Cardinality({j \in 1 .. i - 1 : s[j].energy > 0})
    IN  IF loud > limit + 1 THEN limit + 1 ELSE loud

Within(s, i) == limit >= Counter(s, i)
Picked(s, i) == Within(s, i) /\ s[i].energy > 0
Fading(s, i) == ~Within(s, i) /\ s[i].isMixed

\* Mutant: it is not remembered who has been mixed.
Weighted_Forgotten(s) ==
    [i \in DOMAIN s |->
        IF Picked(s, i) THEN [s[i] EXCEPT !.needMixCount = TailFrames, !.halved = 0]
                        ELSE s[i]]

Weighted(s) ==
    [i \in DOMAIN s |->
        CASE Picked(s, i) ->
                 [s[i] EXCEPT !.needMixCount = TailFrames, !.isMixed = TRUE, !.halved = 0]
          [] Fading(s, i) ->
                 [s[i] EXCEPT !.needMixCount = IF @ >= 0 THEN @ - 1 ELSE @,
                              !.halved = IF s[i].needMixCount > 0 THEN @ + 1 ELSE @]
          [] OTHER -> s[i]]

MixerList(s) ==
    {[participant |-> Weighted(s)[i].participant, hasFrame |-> s[i].hasFrame,
      halved |-> Weighted(s)[i].halved] : i \in {j \in DOMAIN s : Picked(s, j) \/ Fading(s, j)}}

\* The frames that were mixed, and those that were not, go back to the pool.
FramesReturned(f, s) ==
    [f EXCEPT !.pool = @ + Cardinality({i \in DOMAIN s : s[i].hasFrame})]

GetMixerAudio(answers) ==
    LET asked == [i \in DOMAIN participants |->
                     Asked(participants[i], answers[participants[i].participant])]
        frames == FramesAsked(answers)
        s == Ordered(asked)
        returned == FramesReturned(frames, s)
        nothing == \A i \in DOMAIN asked : ~asked[i].hasFrame
    IN  /\ participants # <<>>
        /\ participants' = IF nothing THEN asked ELSE Weighted(s)
        /\ mix' = IF nothing THEN {} ELSE MixerList(s)
        /\ made' = frames.made
        /\ pool' = IF nothing THEN frames.pool ELSE returned.pool
        /\ UNCHANGED limit

Next ==
    \/ \E p \in Participants : AddParticipant(p)
    \/ \E p \in Participants : RemoveParticipant(p)
    \/ \E count \in Limits : LimitParticipantCount(count)
    \/ \E answers \in [Participants -> Energies \cup {NoFrame}] : GetMixerAudio(answers)

Spec == Init /\ [][Next]_vars

-----------------------------------------------------------------------------
(* Properties *)

\* Nobody is mixed without a frame: the participants that have none this time are
\* not remembered as mixed before, whatever their past.
NoNullFrame == \A m \in mix : m.hasFrame

\* Between calls every frame that was ever allocated is in the pool, once: the
\* early returns and the participants without a frame neither lose nor double one.
FramesComeBack == pool = made

HeardFully(p) == \E m \in mix : m.participant = p /\ m.halved = 0

Energy(p) == {participants[i].energy : i \in {j \in DOMAIN participants :
                                                 participants[j].participant = p}}

\* A participant is not heard at its full weight while a louder one, as computed,
\* is not, at any limit and in whatever order they joined.
LoudestHeard ==
    \A p, q \in Participants :
        HeardFully(q) => \A e \in Energy(p), f \in Energy(q) : e > f => HeardFully(p)

\* Nobody is cut off: who was heard and goes on sending a sound is heard in the next
\* frame too, at full weight again or faded by one step at most.
NobodyCutOff ==
    [][\A m \in mix : \A i \in DOMAIN participants' :
         LET v == participants'[i]
         IN  v.participant = m.participant /\ v.energy > 0 =>
                 \E n \in mix' : /\ n.participant = m.participant
                                 /\ n.halved <= m.halved + 1]_vars
=============================================================================
