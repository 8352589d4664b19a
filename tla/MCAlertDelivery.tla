-------------------------- MODULE MCAlertDelivery --------------------------
EXTENDS AlertDelivery, TLC

\* One type is enough: the send differs, the control flow does not.
Webhook == [c \in Channels |-> "webhook"]
Symmetry == Permutations(Deliveries)
=============================================================================
