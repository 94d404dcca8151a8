-------------------------- MODULE MCAddonBootstrap ---------------------------
(* Instances of AddonBootstrap: which options the user goes through.       *)
EXTENDS AddonBootstrap

CONSTANT A      \* the one setup token an operator configures

Blank == [c \in Credentials |-> None]
WithKey(key) == [Blank EXCEPT !["encryption"] = key]

(* Every way to the first owner, either database, with and without the     *)
(* user's own encryption key and generated credentials.  A password makes  *)
(* the token option pointless, and the key has nothing to do with either.  *)
WellFormedOptions ==
    {o \in [auto : BOOLEAN, password : BOOLEAN, token : {A, None},
            credential : {Blank, WithKey("option")}, database : {None, "external"}] :
        /\ o.password => o.token = None /\ o.credential = Blank
        /\ o.credential # Blank => o.token # None}

(* The user leaves all to the add-on, or once enters a key that is none.   *)
MistypedKey ==
    [auto : {TRUE}, password : {FALSE}, token : {None},
     credential : {Blank, WithKey("malformed")}, database : {None}]

=============================================================================
