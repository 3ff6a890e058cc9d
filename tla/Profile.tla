------------------------------- MODULE Profile ------------------------------
(***************************************************************************)
(* The profile of one user (personality/experience.py): onboarding, the    *)
(* switch that pauses the memory, and the file that holds both.            *)
(*                                                                         *)
(* The messages of a user may be handled by several threads at once.  They *)
(* share the cached profile, once there is one, and a temporary file of    *)
(* one name, which takes the place of the profile when it is complete.     *)
(***************************************************************************)
EXTENDS Naturals, FiniteSets

CONSTANTS
  Sender,         \* threads that handle messages of the user
  MaxMessages, MaxEnds, MaxFaults     \* bounds; faults are errors of the disk

ASSUME ProfileAssumption ==
  /\ IsFiniteSet(Sender) /\ "nobody" \notin Sender
  /\ {MaxMessages, MaxEnds, MaxFaults} \subseteq Nat

VARIABLES
  file, temp,     \* inodes that the profile and its temporary copy are
  text,           \* what each inode holds
  heap, cached,   \* profiles in memory, by the thread that read them; the cache
  sender,         \* what each thread does
  messages, ends, faults,
  assured,        \* (observation) [paused, facts] of the last word to the user
  disturbed       \* (observation) messages overlapped, or a read failed

profileVars == <<file, temp, text, heap, cached, sender, messages, ends, faults,
                 assured, disturbed>>
diskVars == <<file, temp, text>>
tallyVars == <<messages, ends, faults>>

AskedFor(step) == CASE step = 0 -> "name" [] step = 1 -> "work" [] step = 2 -> "goal"
StyleStep == 3                       \* after the open questions
NoInode == 0
Inodes == 1 .. Cardinality(Sender) + 2
Garbled == [torn |-> TRUE]
Fresh == [introduced |-> FALSE, step |-> 0, done |-> FALSE, active |-> TRUE, facts |-> {}]
Nobody == "nobody"
Unsure == [paused |-> FALSE, facts |-> {}]
Idle == [at |-> "idle", message |-> "none", mine |-> Nobody, open |-> NoInode,
         payload |-> Fresh, next |-> "reply"]
\* What threads come for; a turn of the user's jobs only looks at the profile.
Sent == {"answer", "task", "pause", "resume", "skip", "look", "start", "turn"}
IsCommand(m) == m \in {"pause", "resume", "skip", "look"}

ProfileInit ==
  /\ \/ file = NoInode /\ text = [n \in Inodes |-> Garbled]
     \/ /\ file = 1 /\ \E step \in 0 .. StyleStep :
          text = [n \in Inodes |->
                    IF n = 1 THEN [Fresh EXCEPT !.introduced = TRUE, !.step = step] ELSE Garbled]
  /\ temp = NoInode
  /\ heap = [s \in Sender |-> Fresh] /\ cached = Nobody
  /\ sender = [s \in Sender |-> Idle]
  /\ messages = 0 /\ ends = 0 /\ faults = 0
  /\ assured = Unsure /\ disturbed = FALSE

Mine(s) == heap[sender[s].mine]
Message(s) == sender[s].message
Reaches(s, place) == sender[s].at = place
GoesOnTo(s, place) == sender' = [sender EXCEPT ![s].at = place]
Saves(s, profile, next) ==
  /\ heap' = [heap EXCEPT ![sender[s].mine] = profile]
  /\ sender' = [sender EXCEPT ![s].at = "open", ![s].next = next]
DiskFault == faults < MaxFaults /\ faults' = faults + 1 /\ UNCHANGED <<messages, ends>>

-----------------------------------------------------------------------------
(* The message comes in and the profile is looked up.                      *)

Receive(s, m) ==
  /\ Reaches(s, "idle") /\ messages < MaxMessages /\ messages' = messages + 1
  /\ sender' = [sender EXCEPT ![s] = [Idle EXCEPT !.at = "look", !.message = m]]
  /\ assured' = IF m = "resume" THEN Unsure ELSE assured
  /\ disturbed' = (disturbed \/ \E r \in Sender : sender[r].at # "idle")
  /\ UNCHANGED <<diskVars, heap, cached, ends, faults>>

CacheHit(s) ==
  /\ Reaches(s, "look") /\ cached # Nobody
  /\ sender' = [sender EXCEPT ![s].at = "handle", ![s].mine = cached]
  /\ UNCHANGED <<diskVars, heap, cached, tallyVars, assured, disturbed>>

\* A file that cannot be understood is moved aside and a fresh profile begins.
ReadFile(s) ==
  /\ Reaches(s, "look") /\ cached = Nobody
  /\ LET lost == file # NoInode /\ text[file] = Garbled
     IN /\ heap' = [heap EXCEPT ![s] =
                      IF file = NoInode \/ lost THEN Fresh ELSE text[file]]
        /\ file' = IF lost THEN NoInode ELSE file
  /\ sender' = [sender EXCEPT ![s].at = "cache", ![s].mine = s]
  /\ UNCHANGED <<temp, text, cached, tallyVars, assured, disturbed>>

\* So is a file whose reading fails.
ReadFails(s) ==
  /\ Reaches(s, "look") /\ cached = Nobody /\ file # NoInode /\ DiskFault
  /\ heap' = [heap EXCEPT ![s] = Fresh]
  /\ file' = NoInode /\ disturbed' = TRUE
  /\ sender' = [sender EXCEPT ![s].at = "cache", ![s].mine = s]
  /\ UNCHANGED <<temp, text, cached, assured>>

FillCache(s) ==
  /\ Reaches(s, "cache") /\ cached' = s /\ GoesOnTo(s, "handle")
  /\ UNCHANGED <<diskVars, heap, tallyVars, assured, disturbed>>

-----------------------------------------------------------------------------
(* intercept, start_conversation.                                          *)

Passes(s) == GoesOnTo(s, "reply") /\ UNCHANGED heap

\* A command, or any first contact, is saved as one before anything else.
Introduce(s) ==
  /\ Reaches(s, "handle") /\ Message(s) # "turn"
  /\ IsCommand(Message(s)) \/ ~Mine(s).introduced
  /\ Saves(s, [Mine(s) EXCEPT !.introduced = TRUE],
           IF IsCommand(Message(s)) THEN "command" ELSE "reply")
  /\ UNCHANGED <<diskVars, cached, tallyVars, assured, disturbed>>

\* The pause is only looked at when the style is asked for.
Answer_Eager(s) ==
  LET mine == Mine(s)
  IN /\ Reaches(s, "handle") /\ ~IsCommand(Message(s)) /\ mine.introduced
     /\ IF mine.done \/ Message(s) # "answer" \/ mine.step >= StyleStep
        THEN Passes(s)
        ELSE Saves(s, [mine EXCEPT !.step = @ + 1, !.facts = @ \cup {AskedFor(mine.step)}],
                   "reply")
     /\ UNCHANGED <<diskVars, cached, tallyVars, assured, disturbed>>

\* An answer is kept unless the memory is paused; one that does not fit (a task
\* for a name, a word for the number of a style) is refused.
Answer(s) ==
  LET mine == Mine(s)
      refused == /\ Message(s) # "answer"
                 /\ mine.step = 0 \/ (mine.step = StyleStep /\ mine.active)
      kept == IF ~mine.active THEN {} ELSE IF mine.step = StyleStep THEN {"style"}
              ELSE {AskedFor(mine.step)}
  IN /\ Reaches(s, "handle") /\ ~IsCommand(Message(s))
     /\ mine.introduced \/ Message(s) = "turn"
     /\ IF mine.done \/ Message(s) \in {"start", "turn"} \/ refused
        THEN Passes(s)
        ELSE Saves(s, IF mine.step > StyleStep THEN [mine EXCEPT !.done = TRUE]
                      ELSE [mine EXCEPT !.step = @ + 1, !.done = mine.step = StyleStep,
                                        !.facts = @ \cup kept], "reply")
     /\ UNCHANGED <<diskVars, cached, tallyVars, assured, disturbed>>

Command(s) ==
  LET mine == Mine(s)
  IN /\ Reaches(s, "command")
     /\ \/ /\ Message(s) = "pause"
           /\ IF mine.active THEN Saves(s, [mine EXCEPT !.active = FALSE], "reply") ELSE Passes(s)
        \/ /\ Message(s) = "resume"
           /\ IF mine.active THEN Passes(s) ELSE Saves(s, [mine EXCEPT !.active = TRUE], "reply")
        \/ Message(s) = "look" /\ Passes(s)
        \/ /\ Message(s) = "skip"
           /\ Saves(s, [mine EXCEPT !.step = StyleStep + 1, !.done = TRUE], "reply")
     /\ UNCHANGED <<diskVars, cached, tallyVars, assured, disturbed>>

Answers(s) ==
  /\ Reaches(s, "reply") /\ sender' = [sender EXCEPT ![s] = Idle]
  /\ assured' = IF Message(s) # "pause" THEN assured
                ELSE [paused |-> TRUE, facts |-> Mine(s).facts]
  /\ UNCHANGED <<diskVars, heap, cached, tallyVars, disturbed>>

-----------------------------------------------------------------------------
(* _save.                                                                  *)

UnusedInode ==
  CHOOSE n \in Inodes : n # file /\ \A r \in Sender : sender[r].open # n

\* The profile itself is opened for writing.
OpenCopy_InPlace(s) ==
  /\ Reaches(s, "open")
  /\ LET n == IF file # NoInode THEN file ELSE UnusedInode IN
       /\ temp' = n /\ file' = n /\ text' = [text EXCEPT ![n] = Garbled]
       /\ sender' = [sender EXCEPT ![s].at = "write", ![s].open = n, ![s].payload = Mine(s)]
  /\ UNCHANGED <<heap, cached, tallyVars, assured, disturbed>>

\* Opening empties the temporary file, or makes one.
OpenCopy(s) ==
  /\ Reaches(s, "open")
  /\ LET n == IF temp # NoInode THEN temp ELSE UnusedInode IN
       /\ temp' = n /\ text' = [text EXCEPT ![n] = Garbled]
       /\ sender' = [sender EXCEPT ![s].at = "write", ![s].open = n, ![s].payload = Mine(s)]
  /\ UNCHANGED <<file, heap, cached, tallyVars, assured, disturbed>>

\* Over what another thread has written there already it need not be whole.
WriteCopy(s) ==
  LET n == sender[s].open
  IN /\ Reaches(s, "write")
     /\ \E whole \in {sender[s].payload} \cup IF text[n] = Garbled THEN {} ELSE {Garbled} :
          text' = [text EXCEPT ![n] = whole]
     /\ GoesOnTo(s, "replace")
     /\ UNCHANGED <<file, temp, heap, cached, tallyVars, assured, disturbed>>

\* The name of the copy may have been taken away by another thread's replace.
Replace(s) ==
  /\ Reaches(s, "replace")
  /\ IF temp = NoInode
     THEN sender' = [sender EXCEPT ![s] = Idle] /\ UNCHANGED <<file, temp, cached>>
     ELSE /\ file' = temp /\ temp' = NoInode /\ cached' = sender[s].mine
          /\ sender' = [sender EXCEPT ![s].at = sender[s].next, ![s].open = NoInode]
  /\ UNCHANGED <<text, heap, tallyVars, assured, disturbed>>

\* The disk is full or the like: the message raises, the memory is as changed.
SaveFails(s) ==
  /\ sender[s].at \in {"open", "write", "replace"} /\ DiskFault
  /\ sender' = [sender EXCEPT ![s] = Idle]
  /\ UNCHANGED <<diskVars, heap, cached, assured, disturbed>>

ProcessEnds ==
  /\ ends < MaxEnds /\ ends' = ends + 1
  /\ sender' = [s \in Sender |-> Idle] /\ cached' = Nobody
  /\ heap' = [s \in Sender |-> Fresh]
  /\ UNCHANGED <<diskVars, messages, faults, assured, disturbed>>

ProfileNext ==
  \/ \E s \in Sender :
       \/ \E m \in Sent : Receive(s, m)
       \/ CacheHit(s) \/ ReadFile(s) \/ ReadFails(s) \/ FillCache(s)
       \/ Introduce(s) \/ Answer(s) \/ Command(s) \/ Answers(s)
       \/ OpenCopy(s) \/ WriteCopy(s) \/ Replace(s) \/ SaveFails(s)
  \/ ProcessEnds

ProfileSpec == ProfileInit /\ [][ProfileNext]_profileVars

-----------------------------------------------------------------------------
(* Properties.                                                             *)

Facts == {"name", "work", "goal", "style"}
Profiles == [introduced : BOOLEAN, step : 0 .. StyleStep + 1, done : BOOLEAN,
             active : BOOLEAN, facts : SUBSET Facts]
Handling == {"cache", "handle", "command", "reply", "open", "write", "replace"}    \* has its profile
SenderRecord ==
  [at : {"idle", "look"} \cup Handling, message : Sent \cup {"none"},
   mine : Sender \cup {Nobody}, open : Inodes \cup {NoInode}, payload : Profiles,
   next : {"reply", "command"}]

ProfileTypeOK ==
  /\ file \in Inodes \cup {NoInode} /\ temp \in Inodes \cup {NoInode}
  /\ text \in [Inodes -> Profiles \cup {Garbled}]
  /\ heap \in [Sender -> Profiles] /\ cached \in Sender \cup {Nobody}
  /\ sender \in [Sender -> SenderRecord]
  /\ \A s \in Sender : /\ sender[s].at \in Handling => sender[s].mine \in Sender
                       /\ sender[s].at \in {"write", "replace"} => sender[s].open \in Inodes
  /\ messages \in 0 .. MaxMessages /\ ends \in 0 .. MaxEnds /\ faults \in 0 .. MaxFaults
  /\ assured \in [paused : BOOLEAN, facts : SUBSET Facts] /\ disturbed \in BOOLEAN

\* A pause the user was told of holds in memory and on the disk, and no answer
\* is kept under it, until the user resumes: through failing saves and a process
\* that ends anywhere in a save, unless two messages overlapped or the file could
\* not be read.  (intercept, _command, _save, _load_profile_from_disk)
PauseIsKept ==
  LET holds(profile) == ~profile.active /\ profile.facts = assured.facts
  IN assured.paused /\ ~disturbed =>
       /\ file # NoInode /\ text[file] # Garbled /\ holds(text[file])
       /\ cached # Nobody => holds(heap[cached])
=============================================================================
