-------------------------- MODULE MCMessageSeeding --------------------------
(***************************************************************************)
(* The messages testMessage makes: text, image or audio at random, with a  *)
(* message referred to.  One of each stands for the ten.                   *)
(***************************************************************************)
EXTENDS MessageSeeding

CONSTANTS Other

Made(type) ==
    [class |-> ClassOf(type), messageType |-> type, msgId |-> Other, rest |-> Other,
     refMsg |-> [msgId |-> Other, content |-> Other, type |-> Other, uid |-> Other,
                 nickname |-> Other],
     sub |-> [f \in Fields(ClassOf(type)) |-> Other]]

RandomMessages == {<<Made(t), Made(u)>> : t, u \in {"text", "image", "audio"}}
=============================================================================
