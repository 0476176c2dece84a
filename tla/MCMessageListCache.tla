------------------------ MODULE MCMessageListCache --------------------------
EXTENDS MessageListCache

Create(id) == [name |-> "create", id |-> id, fields |-> {"text"}]
Update(id) == [name |-> "update", id |-> id, fields |-> {"text"}]
Delete(id) == [name |-> "delete", id |-> id, fields |-> {}]

EveryRequest == UNION {{Create(id), Update(id), Delete(id)} : id \in Ids}

SameClock == [c \in Clients |-> 0]
=============================================================================
