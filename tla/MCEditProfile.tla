--------------------------- MODULE MCEditProfile ---------------------------
(***************************************************************************)
(* An instance of EditProfile: the seven fields, name to bio and email to  *)
(* gender, one after the other.                                            *)
(***************************************************************************)
EXTENDS EditProfile

FormIdentifier == [r \in 1..RowCount |-> "FormTableViewCell"]
=============================================================================
