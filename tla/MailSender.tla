------------------------------ MODULE MailSender ------------------------------
(* services/gmail_api.py, api/gmail_oauth.py and the Gmail provider of          *)
(* services/email.py: the authorization of the sending account is a token in a  *)
(* file, written beside it and renamed into place.                              *)
(*                                                                              *)
(* A path names a file; a file keeps its contents under whatever name it has,   *)
(* so a writer that opened the temporary file writes to it also after the       *)
(* rename. Every callback uses the same temporary name.                         *)

CONSTANTS
    Callbacks,      \* returns from the consent page, served at once
    Inodes          \* files ever made

ASSUME MailAssumption == "none" \notin Inodes

VARIABLES
    path, temp,     \* the file behind each name, or None
    content,        \* content[i]: "empty" or "token"
    callback,       \* callback[c]: [pc, file]
    authorized,     \* ghost: some callback has reported success
    together        \* ghost: two callbacks wrote at once

mailVars == <<path, temp, content, callback, authorized, together>>

None == "none"
Waiting == [pc |-> "waiting", file |-> None]
InUse == {path, temp} \cup {callback[c].file : c \in Callbacks}

(* Type invariant.                                                              *)
MailTypeOK ==
    /\ path \in Inodes \cup {None} /\ temp \in Inodes \cup {None}
    /\ content \in [Inodes -> {"empty", "token"}]
    /\ callback \in [Callbacks -> {Waiting} \cup [pc : {"writing", "renaming"}, file : Inodes]]
    /\ authorized \in BOOLEAN /\ together \in BOOLEAN

MailInit ==
    /\ path = None /\ temp = None
    /\ content = [i \in Inodes |-> "empty"]
    /\ callback = [c \in Callbacks |-> Waiting]
    /\ authorized = FALSE /\ together = FALSE

(* Mutant: the token is written to the file itself.                             *)
Truncate_InPlace(c, i) ==
    /\ callback[c] = Waiting
    /\ IF path = None THEN i \notin InUse ELSE i = path
    /\ path' = i
    /\ temp' = i
    /\ content' = [content EXCEPT ![i] = "empty"]
    /\ callback' = [callback EXCEPT ![c] = [pc |-> "writing", file |-> i]]
    /\ together' = (together \/ \E d \in Callbacks : callback[d] # Waiting)
    /\ UNCHANGED authorized

(* exchange_and_store_authorization_code has its token; write_text opens the    *)
(* temporary file, new or truncated. A code that is refused changes nothing.    *)
Truncate(c, i) ==
    /\ callback[c] = Waiting
    /\ IF temp = None THEN i \notin InUse ELSE i = temp
    /\ temp' = i
    /\ content' = [content EXCEPT ![i] = "empty"]
    /\ callback' = [callback EXCEPT ![c] = [pc |-> "writing", file |-> i]]
    /\ together' = (together \/ \E d \in Callbacks : callback[d] # Waiting)
    /\ UNCHANGED <<path, authorized>>

Write(c) ==
    /\ callback[c].pc = "writing"
    /\ content' = [content EXCEPT ![callback[c].file] = "token"]
    /\ callback' = [callback EXCEPT ![c].pc = "renaming"]
    /\ UNCHANGED <<path, temp, authorized, together>>

(* temporary.replace(path); it fails when another callback has moved the file.  *)
Rename(c) ==
    /\ callback[c].pc = "renaming"
    /\ IF temp = None THEN UNCHANGED <<path, temp, authorized>>
       ELSE path' = temp /\ temp' = None /\ authorized' = TRUE
    /\ callback' = [callback EXCEPT ![c] = Waiting]
    /\ UNCHANGED <<content, together>>

(* The server stops, or the disk refuses, in the middle.                        *)
Break(c) ==
    /\ callback[c] # Waiting
    /\ callback' = [callback EXCEPT ![c] = Waiting]
    /\ UNCHANGED <<path, temp, content, authorized, together>>

MailNext ==
    \E c \in Callbacks :
        (\E i \in Inodes : Truncate(c, i)) \/ Write(c) \/ Rename(c) \/ Break(c)

MailSpec == MailInit /\ [][MailNext]_mailVars

(* _read_refresh_token: whether send_otp finds a sender to send with.           *)
CanSend == path # None /\ content[path] = "token"

(* A sender once authorized can always send: no later authorization, finished   *)
(* or broken off anywhere, takes the token away, if they come one at a time.    *)
AuthorizationLasts == authorized /\ ~together => CanSend

===============================================================================
