\* Policies of at most two rules over these servers, tools and agents.
CONSTANTS
    Server <- MCServer
    Tool <- MCTool
    Lists <- MCLists
    Stray <- MCStray
    Agent = {"x", "y"}
    Entries <- MCEntries
    Policies <- MCPolicies
    Underscore = "_"
    None = None
SPECIFICATION Spec
INVARIANTS
    RunsWithinPolicy
    HiddenToolsNeverRun
