SPECIFICATION Spec
CONSTANT Prompt = TRUE
PROPERTIES
  ReceivedIsPushed
