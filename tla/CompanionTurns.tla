--------------------------- MODULE CompanionTurns ---------------------------
(* The companion endpoints of hdv-foundation/companion: a request reads the
   relationship memory, awaits a provider, and afterwards writes the memory and
   credits the creator of the persona.  Requests share one thread and interleave
   at their awaits; nothing orders two turns with the same companion. *)
EXTENDS Integers, FiniteSets

CONSTANTS
  CompanionIds,      \* companionId and personaId: one space of ids
  CreatorIds,
  TurnIds,           \* requests
  HitCounts,         \* pairs <<positive, negative>> of keyword hits in a message
  MaxAffection, DefaultAffection,
  Unowned            \* a persona no creator has submitted

ASSUME CompanionAssumption ==
  /\ MaxAffection \in Nat /\ DefaultAffection \in 0..MaxAffection /\ Unowned \notin CreatorIds
  /\ IsFiniteSet(TurnIds) /\ HitCounts \subseteq Nat \X Nat

VARIABLES
  memory,    \* CompanionMemoryRepository: level and turnCount of each companion
  turn,      \* the requests
  owner,     \* CreatorPersonaRepository: the creator of each persona
  usage,     \* LikenessUsageEvents, with the turn that caused each
  overlapped \* companions two of whose turns were under way at once (history)

companionVars == <<memory, turn, owner, usage, overlapped>>

PaidKinds == {"chat", "portrait", "scene"}
defaultCompanionMemory == [level |-> DefaultAffection, turns |-> 0]
Idle == [kind |-> "none", at |-> "idle", id |-> Unowned, read |-> defaultCompanionMemory, hits |-> <<0, 0>>, owned |-> FALSE]

Clamp(low, n, high) == IF n < low THEN low ELSE IF n > high THEN high ELSE n
Delta(hits) == Clamp(-6, 1 + hits[1] * 2 - hits[2] * 3, 6)
updateMemoryAfterTurn(m, hits) ==
  [level |-> Clamp(0, m.level + Delta(hits), MaxAffection), turns |-> m.turns + 1]

Busy(c) == {t \in TurnIds : turn[t].id = c /\ turn[t].kind = "chat" /\ turn[t].at \in {"asking", "writing"}}

(* The memory is read before the provider is awaited.  Only the buffered chat
   uses it; the stream, portraits, scenes and speech do not. *)
Ask(t, kind, c, hits) ==
  /\ turn[t] = Idle
  /\ turn' = [turn EXCEPT ![t] = [kind |-> kind, at |-> "asking", id |-> c, read |-> memory[c], hits |-> hits,
                                  owned |-> owner[c] # Unowned]]
  /\ overlapped' = IF kind = "chat" /\ Busy(c) # {} THEN overlapped \cup {c} ELSE overlapped
  /\ UNCHANGED <<memory, owner, usage>>

handleCompanionChat(t, c, hits) == Ask(t, "chat", c, hits)
handleCompanionChatStream(t, c) == Ask(t, "stream", c, <<0, 0>>)
handlePortraitRequest(t, c) == Ask(t, "portrait", c, <<0, 0>>)
handleSceneRequest(t, c) == Ask(t, "scene", c, <<0, 0>>)
handleSpeakRequest(t, c) == Ask(t, "speak", c, <<0, 0>>)

recordLikenessUsage_Any(t) == usage \cup {[turn |-> t, id |-> turn[t].id, creator |-> owner[turn[t].id]]}
recordLikenessUsage(t) ==
  IF turn[t].kind \in PaidKinds /\ owner[turn[t].id] # Unowned
  THEN usage \cup {[turn |-> t, id |-> turn[t].id, creator |-> owner[turn[t].id]]} ELSE usage

(* A real reply: the usage is recorded at once, the memory one microtask later. *)
Reply(t) ==
  /\ turn[t].at = "asking"
  /\ turn' = [turn EXCEPT ![t].at = IF turn[t].kind = "chat" THEN "writing" ELSE "replied"]
  /\ usage' = recordLikenessUsage(t)
  /\ UNCHANGED <<memory, owner, overlapped>>

persistMemoryUpdate(t) ==
  /\ turn[t].at = "writing"
  /\ memory' = [memory EXCEPT ![turn[t].id] = updateMemoryAfterTurn(turn[t].read, turn[t].hits)]
  /\ turn' = [turn EXCEPT ![t].at = "replied"]
  /\ UNCHANGED <<owner, usage, overlapped>>

(* No provider, the stub, an error or an empty text: the canned reply. *)
Fallback(t) ==
  /\ turn[t].at = "asking"
  /\ turn' = [turn EXCEPT ![t].at = "fellback"]
  /\ UNCHANGED <<memory, owner, usage, overlapped>>

(* POST /v1/creator/persona; a persona of another creator is refused. *)
Claim(c, p) ==
  /\ owner[c] = Unowned
  /\ owner' = [owner EXCEPT ![c] = p] /\ UNCHANGED <<memory, turn, usage, overlapped>>

CompanionInit ==
  /\ memory = [c \in CompanionIds |-> defaultCompanionMemory] /\ turn = [t \in TurnIds |-> Idle]
  /\ owner = [c \in CompanionIds |-> Unowned] /\ usage = {} /\ overlapped = {}

CompanionNext ==
  \/ \E t \in TurnIds :
       \/ \E c \in CompanionIds :
            \/ \E hits \in HitCounts : handleCompanionChat(t, c, hits)
            \/ handleCompanionChatStream(t, c) \/ handlePortraitRequest(t, c)
            \/ handleSceneRequest(t, c) \/ handleSpeakRequest(t, c)
       \/ Reply(t) \/ persistMemoryUpdate(t) \/ Fallback(t)
  \/ \E c \in CompanionIds, p \in CreatorIds : Claim(c, p)
CompanionSpec == CompanionInit /\ [][CompanionNext]_companionVars

-----------------------------------------------------------------------------
CompanionTypeOK ==
  /\ \A c \in CompanionIds : memory[c].level \in 0..MaxAffection /\ memory[c].turns \in Nat
  /\ \A t \in TurnIds : turn[t].at \in {"idle", "asking", "writing", "replied", "fellback"}
  /\ owner \in [CompanionIds -> CreatorIds \cup {Unowned}] /\ overlapped \subseteq CompanionIds

(* turnCount is the number of chat turns a provider really answered, unless two
   turns of that companion overlapped; overlapping turns, which both start from
   the record the first one read, can only lose turns, never invent one. *)
Remembered(c) == Cardinality({t \in TurnIds : turn[t].id = c /\ turn[t].kind = "chat" /\ turn[t].at = "replied"})
TurnsCountReplies ==
  \A c \in CompanionIds : /\ memory[c].turns <= Remembered(c)
                          /\ c \notin overlapped => memory[c].turns = Remembered(c)

(* A creator is credited exactly once for each reply, portrait or scene that a
   provider produced with a persona that was theirs when it was asked for, and
   never for a canned reply, a stream or speech. *)
CreditPerReply ==
  /\ \A u \in usage : /\ turn[u.turn].kind \in PaidKinds /\ turn[u.turn].at \in {"writing", "replied"}
                      /\ u.id = turn[u.turn].id /\ u.creator = owner[u.id]
  /\ \A t \in TurnIds : turn[t].owned /\ turn[t].kind \in PaidKinds /\ turn[t].at \in {"writing", "replied"}
                        => Cardinality({u \in usage : u.turn = t}) = 1

\* What overlapping turns leave in the memory of a companion and in the books
\* of its creators.
TurnsAreCredited == CompanionTypeOK /\ TurnsCountReplies /\ CreditPerReply
=============================================================================
