SPECIFICATION DeploymentSpec
CONSTANTS
  t1 = t1
  t2 = t2
  Tokens = {t1, t2}
  None = None
INVARIANTS ToolsNeedToken TokenSuffices
