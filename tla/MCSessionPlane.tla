---------------------------- MODULE MCSessionPlane ----------------------------
EXTENDS StopHistory

\* The first work is a task of the session; the second is another task of
\* the same session, or is delegated to the GLM agent, to a bridge that can
\* only be asked to stop, or to the remote one that cannot be.
MCMayBe ==
    [w \in Works |->
       IF w = "first" THEN {"session_task"}
       ELSE {"session_task", "delegate_glm", "delegate_gemini",
             "delegate_jules"}]

MCSessionOf == [w \in Works |-> "s1"]

=============================================================================
