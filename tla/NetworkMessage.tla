--------------------------- MODULE NetworkMessage ---------------------------
(***************************************************************************)
(* NetworkMessage::Split and MessageHandler::HandleMessage: how the text   *)
(* of one receive is taken apart into tokens and messages.                 *)
(*                                                                         *)
(* A text is a sequence of characters.  A token's text is one character    *)
(* here, of message msg and in place tok in it, and each token is followed *)
(* by a '#', whose place is 0.  Token 1 is the signature, which no other   *)
(* token equals, and token 2 tells the number of tokens in the message.    *)
(***************************************************************************)
EXTENDS Naturals, Sequences, SequencesExt, FiniteSetsExt

Delim == [msg |-> 0, tok |-> 0]
Text(m, t) == [msg |-> m, tok |-> t]

IsSignature(body) == Len(body) = 1 /\ body[1].tok = 1

(* Split: the tokens up to the last '#', with the place each starts at.    *)
(* What follows the last '#' is left out.  find(k) is the k-th '#'.        *)
Split(text) ==
  LET delims == {i \in DOMAIN text : text[i] = Delim}
      find(k) == CHOOSE i \in delims : Cardinality({d \in delims : d <= i}) = k
      previous(k) == IF k = 1 THEN 0 ELSE find(k - 1)
  IN  [k \in 1 .. Cardinality(delims) |->
         [body |-> SubSeq(text, previous(k) + 1, find(k) - 1),
          start |-> previous(k)]]

(* The loop of Split does not move on from an empty token.                 *)
SplitEnds(text) ==
  \A k \in DOMAIN Split(text) : Split(text)[k].body # <<>>

(***************************************************************************)
(* HandleMessage: the messages it handles, and incompleteResumePoint, for  *)
(* the tokens of a text and size[m], the number that token 2 of m tells.   *)
(* It passes over tokens in front of a signature, and stops at a message   *)
(* that is not complete.  A signature with no token after it stops it too, *)
(* but sets no resume point.                                               *)
(***************************************************************************)
HandleMessage(tokens, size) ==
  LET n == Len(tokens)
      length(k) == size[tokens[k + 1].body[1].msg]
      Handle(k) == [msg |-> tokens[k].body[1].msg,
                    whole |-> \A j \in 1 .. length(k) :
                                tokens[k + j - 1].body
                                  = <<Text(tokens[k].body[1].msg, j)>>]
      from[k \in 1 .. n + 1] ==
        IF k > n
        THEN [handled |-> <<>>, resume |-> 0]
        ELSE IF ~IsSignature(tokens[k].body)
        THEN from[k + 1]
        ELSE IF k = n
        THEN [handled |-> <<>>, resume |-> 0]
        ELSE IF k - 1 + length(k) > n
        THEN [handled |-> <<>>, resume |-> tokens[k].start]
        ELSE [from[k + length(k)] EXCEPT !.handled = <<Handle(k)>> \o @]
  IN  from[1]
=============================================================================
