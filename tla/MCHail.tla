-------------------------------- MODULE MCHail --------------------------------
(* The two ways in which the wallet asks its user: hails, and popups. In a   *)
(* behaviour there are hails, of which h1 may come from a browser that       *)
(* connects and h2 has priority, or else all hails have been answered and    *)
(* dialogues work on the signers and the addresses of the wallet.            *)
EXTENDS Hail, Dialogues

CONSTANTS h1, h2, a1, a2

World(asks, fails, sorts) ==
  [signer  |-> <<[name |-> 1, copies |-> <<2>>]>>,
   address |-> <<[address |-> a1, name |-> 1, signer |-> 1]>>,
   asks |-> asks, fails |-> fails, sorts |-> sorts]

\* No command; then popups of commands, of an operation and of a Trezor; then commands that
\* change the wallet beside one another, while saves fail and the lists are sorted.
Silent == World(<<>>, 0, 0)

MCDialogueWorlds ==
  {Silent,
   World(<<"other", "contract", "other">>, 0, 0),
   World(<<"password", "other", "other">>, 0, 0),
   World(<<"signer promote", "address add">>, 1, 0),
   World(<<"signer add", "signer promote">>, 1, 0),
   World(<<"address watch", "address edit">>, 0, 1),
   World(<<"address remove", "address add">>, 1, 1),
   World(<<"signer remove", "signer edit">>, 0, 0),
   World(<<"signer promote", "signer promote", "address add">>, 0, 0)}

Answered ==
  /\ queue = <<>> /\ active = None /\ shown = FALSE /\ suspended = {} /\ onCancel = {}
  /\ fetch = [h \in Hails |-> "replied"]
  /\ answers = [h \in Hails |-> 1]
  /\ pc = [t \in Threads |-> IF t.job = "add" THEN "over" ELSE "idle"]
  /\ target = [t \in Threads |-> t.of]
  /\ overlapped = FALSE

AskInit ==
  /\ DialogueInit
  /\ IF may.asks = <<>> THEN Init ELSE Answered

AskNext ==
  \/ Next /\ UNCHANGED dialogueVars
  \/ DialogueNext /\ UNCHANGED vars

AskSpec == AskInit /\ [][AskNext]_<<vars, dialogueVars>>
=============================================================================
